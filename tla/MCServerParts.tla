--------------------------- MODULE MCServerParts ---------------------------
(***************************************************************************)
(* Five parts in one model: pin provider, audit stream, PROXY trust list,  *)
(* session trail, login of the web UI.  They share no state, so a          *)
(* behaviour follows one of them, chosen by focus, and the state space is  *)
(* their sum.  The session trail is followed twice: its logins and reports *)
(* while no event is sent, and its events while no report comes in.  Its   *)
(* accounts are alike, so the first login is to "deploy".                  *)
(***************************************************************************)
EXTENDS PinProvider, AuditStream, ProxyTrust, SessionTrail, UILogin

VARIABLE focus

partsVars == <<focus, pinVars, streamVars, trustVars, trailVars, loginVars>>

MCHostNames == <<"n1", "n2">>

MCInit == /\ focus \in {"pin", "stream", "trust", "reports", "events", "login"}
          /\ PinInit /\ (focus # "pin" => source = "dial" /\ certFile = 0 /\ configured)
          /\ StreamInit /\ (focus # "stream" => sinks = {"log"})
          /\ TrustInit /\ dns[1] = {"p1"} /\ (focus # "trust" => dns[2] = {"p1"})
          /\ TrailInit
          /\ LoginInit /\ attempt[1] = NewAttempt("b1")
          /\ (focus # "login" => attempt[2] = NewAttempt("b1"))

MCNext ==
    /\ UNCHANGED focus
    /\ \/ focus = "pin" /\ PinNext
          /\ UNCHANGED <<streamVars, trustVars, trailVars, loginVars>>
       \/ focus = "stream" /\ StreamNext
          /\ UNCHANGED <<pinVars, trustVars, trailVars, loginVars>>
       \/ focus = "trust" /\ TrustNext
          /\ UNCHANGED <<pinVars, streamVars, trailVars, loginVars>>
       \/ focus \in {"reports", "events"} /\ TrailNext
          /\ login'[1].user # "root"
          /\ (focus = "reports" => sent' = 0)
          /\ (focus = "events" => asks' <= MaxLogins /\ heard' = 0)
          /\ UNCHANGED <<pinVars, streamVars, trustVars, loginVars>>
       \/ focus = "login" /\ LoginNext
          /\ UNCHANGED <<pinVars, streamVars, trustVars, trailVars>>

MCSpec == MCInit /\ [][MCNext]_partsVars
=============================================================================
