----------------------------- MODULE MCSigning -----------------------------
(***************************************************************************)
(* The path of a signing request: the rate limiter in front, the signing   *)
(* endpoints, the matching of CI grants, and the CA keys behind them, which *)
(* the database manages or which are mounted.  The parts share no state    *)
(* that changes, so a behaviour follows one of them, chosen by focus, and  *)
(* the state space is their sum.                                           *)
(***************************************************************************)
EXTENDS RateLimit, Signing, CIMatching, CAKeys, SelfManagedCA

VARIABLE focus

MCPolicyMax == [user |-> 4, ci |-> 2]

MCCIRules == {[max |-> 1, protectedOnly |-> FALSE],
              [max |-> 3, protectedOnly |-> TRUE],
              [max |-> 22, protectedOnly |-> FALSE]}

NoSubject == [kind |-> "none"]

pathVars == <<focus, limitVars, signVars, subject, vars, keyVars>>

MCInit == /\ focus \in {"limit", "sign", "match", "keys", "adopt"}
          /\ LimitInit
          /\ SignInit /\ (focus # "sign" => grants = {})
          /\ IF focus = "match" THEN MatchingInit ELSE subject = NoSubject
          /\ Init
          /\ SelfManagedInit /\ secret = CHOOSE v \in Versions : TRUE

MCNext ==
    /\ UNCHANGED <<focus, subject>>
    /\ \/ focus = "limit" /\ LimitNext /\ UNCHANGED <<signVars, vars, keyVars>>
       \/ focus = "sign" /\ SignNext /\ UNCHANGED <<limitVars, vars, keyVars>>
       \/ focus = "keys" /\ Next /\ UNCHANGED <<limitVars, signVars, keyVars>>
       \/ focus = "adopt" /\ SelfManagedNext /\ UNCHANGED <<limitVars, signVars, vars>>

MCSpec == MCInit /\ [][MCNext]_pathVars
=============================================================================
