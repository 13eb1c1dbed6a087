---------------------------- MODULE MCEnrollment ----------------------------
(***************************************************************************)
(* The enrollment of one machine, followed under two heads, chosen by      *)
(* focus, whose state spaces add up: "race", two attempts, of this machine *)
(* or of others, with tokens that are used twice or expire; and "again",   *)
(* this machine enrolls up to three times - a command is stored, an        *)
(* attempt breaks off, one succeeds - each time with a new token.          *)
(***************************************************************************)
EXTENDS Enrollment, TLC

CONSTANTS t1, t2, t3, n1, n2, unbound

MCBound == (t1 :> n1) @@ (t2 :> unbound) @@ (t3 :> unbound)

VARIABLE focus

mcVars == <<enrollVars, focus>>

(* The tokens in the order in which "again" takes them.                    *)
Turn == <<t1, t2, t3>>

InFocus ==
    \/ /\ focus = "race"
       /\ Len(attempt) <= 2
       /\ token[t3] = "unused" /\ \A a \in Attempts : attempt[a].tok # t3
    \/ /\ focus = "again"
       /\ \A a \in Attempts : attempt[a].tok = Turn[a] /\ attempt[a].name = MyName
       /\ \A t \in Tokens : token[t] # "expired"

MCInit == EnrollInit /\ focus \in {"race", "again"}

MCNext == EnrollNext /\ UNCHANGED focus /\ InFocus'

(* No step of the agent leaves the focus: the fairness is EnrollSpec's.    *)
MCSpec == MCInit /\ [][MCNext]_mcVars /\ WF_mcVars(AgentStep /\ UNCHANGED focus)
=============================================================================
