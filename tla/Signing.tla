------------------------------ MODULE Signing ------------------------------
(***************************************************************************)
(* The signing endpoints (internal/api/sign.go, sign_ci.go) over the       *)
(* policies of the CA (internal/ca/policy.go): how long a certificate      *)
(* lives, and what stops one.  A request reads the grants, then the        *)
(* service account, then the clock, then the policy reads the clock again; *)
(* rules and accounts change in between.                                   *)
(*                                                                         *)
(* Time is counted in parts of a second.  Durations are machine integers:  *)
(* seconds times Second wraps around.  Certificates keep whole seconds.    *)
(***************************************************************************)
EXTENDS Integers, FiniteSetsExt

CONSTANTS SignRequests,  \* requests that run at the same time
          Second,        \* parts of a second (nanoseconds in the code)
          Modulus,       \* 2^64 in the code
          PolicyMax,     \* MaxValidity by requester type, in seconds
          Backdate,      \* signBackdate, in seconds
          MaxBackdate,   \* maxBackdate, in seconds
          Wanted,        \* ValiditySeconds a request may ask for; 0: default
          CIRules,       \* CI grants: maximal validity, protected refs only
          FirstMoment,   \* the clock at the start
          MaxMoment      \* bound on the clock

ASSUME SigningAssumption ==
    /\ {Second, Modulus, Backdate} \subseteq Nat \ {0} /\ Modulus % 2 = 0
    /\ {MaxBackdate, FirstMoment, MaxMoment} \subseteq Nat
    /\ Backdate <= MaxBackdate /\ Backdate * Second <= FirstMoment
    /\ \A k \in {"user", "ci"} : /\ PolicyMax[k] \in Nat
                               /\ PolicyMax[k] * Second < Modulus \div 2
    /\ Wanted \subseteq Nat
    /\ \A g \in CIRules : g.max \in Nat \ {0} /\ g.protectedOnly \in BOOLEAN

VARIABLES moment,    \* the clock
          grants,    \* the grants that are about the project or the user
          account,   \* the service account of the project
          switch,    \* history: what an administrator last set
          sreq       \* the requests; an answered one keeps its certificate

signVars == <<moment, grants, account, switch, sreq>>

NoRequester == [pc |-> "idle", kind |-> "user", wanted |-> 0, expires |-> 0,
                protected |-> FALSE, off |-> FALSE, matched |-> {},
                validAfter |-> 0, validBefore |-> 0, at |-> 0]

(* The latest end of a token, in seconds.                                  *)
LastExpiry == MaxMoment \div Second + 2

SignInit == /\ moment = FirstMoment
            /\ grants \in SUBSET CIRules
            /\ account = "none" /\ switch = "on"
            /\ sreq = [q \in SignRequests |-> NoRequester]

-----------------------------------------------------------------------------
SignTick == /\ moment < MaxMoment
            /\ moment' = moment + 1
            /\ UNCHANGED <<grants, account, switch, sreq>>

(* The rules are edited or reconciled.                                     *)
EditGrants == /\ grants' \in SUBSET CIRules \ {grants}
              /\ UNCHANGED <<moment, account, switch, sreq>>

(* SetServiceAccountActive; turning it on again ends what the requests     *)
(* under way owe to the kill switch.                                       *)
SetActive(on) ==
    /\ account # "none"
    /\ account' = IF on THEN "active" ELSE "disabled"
    /\ switch' = IF on THEN "on" ELSE "off"
    /\ sreq' = [q \in SignRequests |-> [sreq[q] EXCEPT !.off = @ /\ ~on]]
    /\ UNCHANGED <<moment, grants>>

(* A request whose token is valid now; a job token ends with the job.      *)
SignRequest(q, kind, wanted, expires, protected) ==
    /\ sreq[q].pc \in {"idle", "issued"}
    /\ expires * Second > moment
    /\ sreq' = [sreq EXCEPT ![q] =
                  [NoRequester EXCEPT !.pc = "verified", !.kind = kind, !.wanted = wanted,
                     !.expires = expires, !.protected = protected,
                     !.off = kind = "ci" /\ switch = "off"]]
    /\ UNCHANGED <<moment, grants, account, switch>>

Refusal(q) == sreq' = [sreq EXCEPT ![q] = NoRequester]

(* CIGrant.Matches, the paths and patterns of CIMatching aside.            *)
Matches(g, r) == g.protectedOnly => r.protected

(* ListGrantsForUser, MatchCIGrants: no grant, no certificate.             *)
MatchGrants(q) ==
    LET r       == sreq[q]
        matched == {g \in grants : r.kind = "ci" => Matches(g, r)}
    IN /\ r.pc = "verified"
       /\ IF matched = {} THEN Refusal(q)
          ELSE sreq' = [sreq EXCEPT ![q] = [r EXCEPT !.matched = matched,
                          !.pc = IF r.kind = "ci" THEN "matched" ELSE "allowed"]]
       /\ UNCHANGED <<moment, grants, account, switch>>

(* A mutant: the upsert sets the account active.                           *)
UpsertActive == "active"

(* The row after INSERT ... ON CONFLICT DO UPDATE.                         *)
Upserted == IF account = "none" THEN "active" ELSE account

(* EnsureCIServiceAccount and the check of Active.                         *)
EnsureAccount(q) ==
    /\ sreq[q].pc = "matched"
    /\ account' = Upserted
    /\ IF account' = "active" THEN sreq' = [sreq EXCEPT ![q].pc = "allowed"]
                              ELSE Refusal(q)
    /\ UNCHANGED <<moment, grants, switch>>

-----------------------------------------------------------------------------
(* time.Duration(seconds) * time.Second, a signed machine integer.         *)
Duration(seconds) ==
    LET n == (seconds * Second) % Modulus
    IN IF n >= Modulus \div 2 THEN n - Modulus ELSE n

(* maxGrantValidity, maxCIGrantValidity.                                   *)
MaxGrantValidity(gs) == Max({0} \cup {Duration(g.max) : g \in gs})

(* A mutant: what is asked for is only checked by the policy.              *)
ValidityOnlyWanted(r) ==
    IF r.wanted > 0 THEN Duration(r.wanted) ELSE Duration(PolicyMax[r.kind])

(* The default is the policy's maximum, for users and for CI.              *)
Validity(r) ==
    Min({IF r.wanted > 0 THEN Duration(r.wanted) ELSE Duration(PolicyMax[r.kind]),
         MaxGrantValidity(r.matched)})

(* The lifetime is counted from the backdated start; a CI certificate ends *)
(* with the job token.                                                     *)
Decide(q) ==
    LET r     == sreq[q]
        start == moment - Backdate * Second
        end   == start + Validity(r)
        until == IF r.kind = "ci" THEN Min({end, r.expires * Second}) ELSE end
    IN /\ r.pc = "allowed"
       /\ IF r.kind = "ci" /\ until <= start THEN Refusal(q)
          ELSE sreq' = [sreq EXCEPT ![q] = [r EXCEPT !.pc = "decided",
                          !.validAfter = start, !.validBefore = until]]
       /\ UNCHANGED <<moment, grants, account, switch>>

(* PolicyEngine.Validate; the handlers set type, principals and extensions *)
(* as the policies want them.                                              *)
PolicyAllows(r) == /\ r.validBefore > r.validAfter
                   /\ r.validBefore - r.validAfter <= PolicyMax[r.kind] * Second
                   /\ r.validAfter >= moment - MaxBackdate * Second

(* Issue: validate, sign and record; the signer truncates to seconds.      *)
IssueCert(q) ==
    LET r == sreq[q]
    IN /\ r.pc = "decided"
       /\ IF PolicyAllows(r)
          THEN sreq' = [sreq EXCEPT ![q] = [r EXCEPT !.pc = "issued", !.at = moment,
                          !.validAfter = r.validAfter \div Second,
                          !.validBefore = r.validBefore \div Second]]
          ELSE Refusal(q)
       /\ UNCHANGED <<moment, grants, account, switch>>

SignNext ==
    \/ SignTick \/ EditGrants
    \/ \E on \in BOOLEAN : SetActive(on)
    \/ \E q \in SignRequests :
         \/ \E wanted \in Wanted :
              \/ SignRequest(q, "user", wanted, LastExpiry, FALSE)
              \/ \E expires \in 0..LastExpiry, protected \in BOOLEAN :
                   SignRequest(q, "ci", wanted, expires, protected)
         \/ MatchGrants(q) \/ EnsureAccount(q) \/ Decide(q) \/ IssueCert(q)

SignSpec == SignInit /\ [][SignNext]_signVars

-----------------------------------------------------------------------------
(* Every certificate stays within all of its limits, in whole seconds and  *)
(* without wrapping: the policy, the longest grant, what was asked for,    *)
(* the end of the job; and it starts at most maxBackdate ago.  A request   *)
(* or a grant so large that its duration wraps around shortens the         *)
(* lifetime or is refused; it never lengthens it.                          *)
CertWithinLimits == \A q \in SignRequests : sreq[q].pc = "issued" =>
    LET r        == sreq[q]
        lifetime == r.validBefore - r.validAfter
    IN /\ lifetime <= PolicyMax[r.kind]
       /\ \E g \in r.matched : lifetime <= g.max
       /\ r.wanted > 0 => lifetime <= r.wanted
       /\ r.kind = "ci" => r.validBefore <= r.expires
       /\ r.validAfter * Second > r.at - (MaxBackdate + 1) * Second

(* The per-project kill switch: a request that came after the switch was   *)
(* set off, and not on again, gets no certificate, although signing        *)
(* itself creates and updates the account.                                 *)
KillSwitch == \A q \in SignRequests : sreq[q].pc = "issued" => ~sreq[q].off
=============================================================================
