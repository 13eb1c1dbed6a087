--------------------------- MODULE MCAccessRules ---------------------------
EXTENDS AccessRules, TLC

CONSTANTS k1, k2, g1

Row(i, k, v) == [id |-> i, key |-> k, val |-> v]

Spec(k, v) == [key |-> k, val |-> v]

(* Two valid files that reach the rule they share in a different order,    *)
(* one that cannot be loaded, one with an entry that is incomplete after   *)
(* one that is not.                                                        *)
OneRule == [ok |-> TRUE, specs |-> <<Spec(k1, 1)>>]

MCContents == {OneRule,
               [ok |-> TRUE, specs |-> <<Spec(k2, 1), Spec(k1, 2)>>],
               [ok |-> FALSE, specs |-> <<>>],
               [ok |-> TRUE, specs |-> <<Spec(k2, 2), Spec(k1, 0)>>]}

(* Nothing, or what hand-made rules may leave: duplicates and a stranger.  *)
MCFirstTables == {<<>>, <<Row(1, k1, 2), Row(2, k1, 1), Row(3, k2, 2)>>}

MCGroupOf == (k1 :> g1) @@ (k2 :> g1)

(* The manual switch does nothing where a file owns the domain, and the    *)
(* file nothing where none does.                                           *)
MCInit == /\ RulesInit
          /\ owner = "file" => ~manual
          /\ owner = "api" => published = OneRule

MCSpec == MCInit /\ [][RulesNext]_ruleVars /\ RulesFairness
=============================================================================
