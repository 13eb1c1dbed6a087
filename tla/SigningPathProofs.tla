------------------------- MODULE SigningPathProofs -------------------------
(***************************************************************************)
(* What is proved about the path of a signing request: the kill switch and *)
(* the limits of a certificate (module Signing), the adoption of mounted   *)
(* CA keys (module SelfManagedCA), the budgets of the rate limiter in      *)
(* front of the endpoints (module RateLimit), and the rules that the       *)
(* replicas and administrators keep for it (module AccessRules); for any   *)
(* number of clients, requests, replicas, keys and rules, and any widths   *)
(* of the integers.                                                        *)
(***************************************************************************)
EXTENDS Signing, SelfManagedCA, RateLimit, AccessRules,
        FiniteSetTheorems, WellFoundedInduction, TLAPS

-----------------------------------------------------------------------------
(* Integers.                                                               *)

(* Division with remainder.                                                *)
LEMMA Division ==
    ASSUME NEW x \in Int, NEW m \in Nat \ {0}
    PROVE  /\ x \div m \in Int /\ x % m \in Int /\ 0 <= x % m /\ x % m < m
           /\ x = m * (x \div m) + (x % m)
OBVIOUS

(* A common positive factor can be dropped.                                *)
LEMMA DropFactor ==
    ASSUME NEW m \in Nat \ {0}, NEW a \in Int, NEW b \in Int, m * a < m * b PROVE a < b
OBVIOUS

(* A multiple of m that is at most m below a natural number is not         *)
(* negative.                                                               *)
LEMMA ProductSign ==
    ASSUME NEW m \in Nat \ {0}, NEW a \in Int, NEW d \in Int, d < m, m * a + d >= 0
    PROVE  m * a >= 0
<1>1. m * a > m * (-1)
    OBVIOUS
<1>2. a > -1
    BY <1>1, DropFactor
<1> QED
    BY <1>2

(* Truncating both ends to seconds lengthens no interval beyond its limit  *)
(* in whole seconds.                                                       *)
LEMMA TruncatedLength ==
    ASSUME NEW x \in Int, NEW y \in Int, NEW m \in Nat \ {0}, NEW l \in Int, y - x <= l * m
    PROVE  (y \div m) - (x \div m) <= l
<1> DEFINE p == x \div m
           q == y \div m
           u == x % m
           v == y % m
<1>1. /\ p \in Int /\ q \in Int /\ u \in Int /\ v \in Int /\ 0 <= u /\ u < m /\ 0 <= v
      /\ x = m * p + u /\ y = m * q + v
    BY Division
<1> HIDE DEF p, q, u, v
<1>2. m * q < m * p + m + l * m
    BY <1>1
<1>3. m * q < m * (p + 1 + l)
    BY <1>1, <1>2
<1>4. q < p + 1 + l
    BY <1>1, <1>3, DropFactor
<1> QED
    BY <1>1, <1>4 DEF p, q

(* Nor does it move an end past a limit in whole seconds, or a start back  *)
(* by a second.                                                            *)
LEMMA TruncatedEnd ==
    ASSUME NEW x \in Int, NEW m \in Nat \ {0}
    PROVE  /\ \A e \in Int : x <= e * m => x \div m <= e
           /\ (x \div m) * m > x - m
<1>1. /\ x \div m \in Int /\ x % m \in Int /\ 0 <= x % m /\ x % m < m
      /\ x = m * (x \div m) + (x % m)
    BY Division
<1>2. ASSUME NEW e \in Int, x <= e * m PROVE x \div m <= e
    <2>1. m * (x \div m) < m * (e + 1)
        BY <1>1, <1>2
    <2> QED
        BY <1>1, <2>1, DropFactor
<1>3. (x \div m) * m > x - m
    BY <1>1
<1> QED
    BY <1>2, <1>3

(* A bounded set of integers has a largest element, which is what Max      *)
(* denotes.                                                                *)
LEMMA MaxOfBounded ==
    ASSUME NEW S, S \subseteq Int, S # {}, NEW b \in Int, \A x \in S : x <= b
    PROVE  Max(S) \in S /\ \A y \in S : Max(S) >= y
<1> DEFINE T == {b - x : x \in S}
           R == OpToRel(<, Nat)
<1>0. \A x \in S : b - x \in Nat
    OBVIOUS
<1>1. T \subseteq Nat /\ T # {}
    BY <1>0
<1>2. IsWellFoundedOn(R, Nat)
    BY NatLessThanWellFounded
<1>3. \E t \in T : \A u \in T : ~ (<<u, t>> \in R)
    <2> HIDE DEF T, R
    <2> QED
        BY <1>1, <1>2, WFMin
<1>4. PICK t \in T : \A u \in T : ~ (<<u, t>> \in R)
    BY <1>3
<1>5. \A u \in T : u \in Nat /\ t \in Nat /\ ~ (u < t)
    BY <1>1, <1>4 DEF OpToRel
<1>6. PICK x \in S : t = b - x
    OBVIOUS
<1>7. \A y \in S : x >= y
    BY <1>5, <1>6
<1> QED
    BY <1>7 DEF Max

(* The smaller of two integers.                                            *)
LEMMA MinOfTwo ==
    ASSUME NEW a \in Int, NEW b \in Int
    PROVE  Min({a, b}) \in {a, b} /\ Min({a, b}) <= a /\ Min({a, b}) <= b
<1>1. \E x \in {a, b} : \A y \in {a, b} : x <= y
    OBVIOUS
<1> QED
    BY <1>1 DEF Min

-----------------------------------------------------------------------------
(* Signing.                                                                *)

(* A duration may be cut short by the width of the machine's integers, and *)
(* is never lengthened.                                                    *)
LEMMA DurationBound ==
    ASSUME NEW s \in Nat
    PROVE  /\ Duration(s) \in Int
           /\ Duration(s) <= s * Second
           /\ Duration(s) <= Modulus
<1>0. Second \in Nat \ {0} /\ Modulus \in Nat \ {0}
    BY SigningAssumption
<1> DEFINE n == s * Second
           d == n % Modulus
           k == n \div Modulus
<1>1. n \in Nat
    BY <1>0
<1> HIDE DEF n
<1>2. d \in Int /\ 0 <= d /\ d < Modulus /\ d <= n
    <2>1. /\ k \in Int /\ d \in Int /\ 0 <= d /\ d < Modulus
          /\ n = Modulus * k + d
        BY <1>0, <1>1, Division
    <2> HIDE DEF d, k
    <2>2. Modulus * k >= 0
        BY <1>0, <1>1, <2>1, ProductSign
    <2> QED
        BY <1>0, <1>1, <2>1, <2>2
<1>3. Duration(s) = IF d >= Modulus \div 2 THEN d - Modulus ELSE d
    BY DEF Duration, n
<1> HIDE DEF d
<1> QED
    BY <1>0, <1>1, <1>2, <1>3 DEF n

(* The longest grant: a positive bound is the duration of one of them.     *)
LEMMA LongestGrant ==
    ASSUME NEW gs \in SUBSET CIRules
    PROVE  /\ MaxGrantValidity(gs) \in Int
           /\ MaxGrantValidity(gs) > 0 => \E g \in gs : MaxGrantValidity(gs) <= g.max * Second
<1> DEFINE S == {0} \cup {Duration(g.max) : g \in gs}
<1>1. \A g \in gs : g.max \in Nat
    BY SigningAssumption
<1>2. Modulus \in Int /\ 0 <= Modulus /\ Second \in Nat
    <2>1. Modulus \in Nat /\ Second \in Nat
        BY SigningAssumption
    <2> QED
        BY <2>1
<1>3. S \subseteq Int /\ S # {} /\ \A x \in S : x <= Modulus
    BY <1>1, <1>2, DurationBound
<1>4. Max(S) \in S
    <2> HIDE DEF S
    <2> QED
        BY <1>2, <1>3, MaxOfBounded
<1>5. MaxGrantValidity(gs) = Max(S)
    BY DEF MaxGrantValidity
<1>6. Max(S) \in Int
    BY <1>3, <1>4
<1>7. ASSUME Max(S) > 0 PROVE \E g \in gs : Max(S) <= g.max * Second
    <2>1. PICK g \in gs : Max(S) = Duration(g.max)
        <3>1. Max(S) # 0
            BY <1>6, <1>7
        <3> QED
            BY <1>4, <3>1
    <2> QED
        BY <1>1, <2>1, DurationBound
<1> HIDE DEF S
<1> QED
    BY <1>5, <1>6, <1>7

(* Types.                                                                  *)
Stages == {"idle", "verified", "matched", "allowed", "decided", "issued"}

Requesters == [pc : Stages, kind : {"user", "ci"}, wanted : Nat, expires : Int,
               protected : BOOLEAN, off : BOOLEAN, matched : SUBSET CIRules,
               validAfter : Int, validBefore : Int, at : Int]

SignTypes == /\ moment \in Nat
             /\ grants \in SUBSET CIRules
             /\ account \in {"none", "active", "disabled"}
             /\ switch \in {"on", "off"}
             /\ sreq \in [SignRequests -> Requesters]

(* The account's row says what the switch says.                            *)
SwitchOnRecord == switch = "off" <=> account = "disabled"

(* A request that came after the switch was set off does not get past the  *)
(* account's row.                                                          *)
SwitchHeeded(r) == r.off => switch = "off" /\ r.kind = "ci" /\ r.pc \in {"verified", "matched"}

(* What is decided is within the limits, in parts of a second, of the      *)
(* grants, of the request and of the job.                                  *)
DecidedWithin(r) ==
    LET length == r.validBefore - r.validAfter
    IN /\ length <= MaxGrantValidity(r.matched)
       /\ r.wanted > 0 => length <= Duration(r.wanted)
       /\ r.kind = "ci" => r.validBefore <= r.expires * Second

(* What is issued is within the limits in whole seconds.                   *)
IssuedWithin(r) ==
    LET lifetime == r.validBefore - r.validAfter
    IN /\ lifetime <= PolicyMax[r.kind]
       /\ \E g \in r.matched : lifetime <= g.max
       /\ r.wanted > 0 => lifetime <= r.wanted
       /\ r.kind = "ci" => r.validBefore <= r.expires
       /\ r.validAfter * Second > r.at - (MaxBackdate + 1) * Second

StageWithin(r) == /\ r.pc = "decided" => DecidedWithin(r)
                  /\ r.pc = "issued" => IssuedWithin(r)

(* The inductive invariant.                                                *)
SignInv == SignTypes /\ SwitchOnRecord
           /\ \A q \in SignRequests : SwitchHeeded(sreq[q]) /\ StageWithin(sreq[q])

(* A request that is not there is well typed.                              *)
LEMMA NoRequesterOK ==
    /\ NoRequester \in Requesters /\ NoRequester.pc = "idle" /\ ~NoRequester.off
    /\ SwitchHeeded(NoRequester) /\ StageWithin(NoRequester)
<1>1. /\ NoRequester \in Requesters /\ NoRequester.pc = "idle" /\ ~NoRequester.off
    BY DEF NoRequester, Requesters, Stages
<1> QED
    BY <1>1 DEF SwitchHeeded, StageWithin

(* Nothing is asked for.                                                   *)
LEMMA InitSignInv == SignInit => SignInv
<1> SUFFICES ASSUME SignInit PROVE SignInv
    OBVIOUS
<1>1. SignTypes
    BY NoRequesterOK, SigningAssumption DEF SignInit, SignTypes
<1>2. SwitchOnRecord
    BY DEF SignInit, SwitchOnRecord
<1>3. \A q \in SignRequests : sreq[q] = NoRequester
    BY DEF SignInit
<1> QED
    BY <1>1, <1>2, <1>3, NoRequesterOK DEF SignInv

(* A step that replaces the record of one request.                         *)
LEMMA OneRequest ==
    ASSUME SignInv, NEW q \in SignRequests, NEW r \in Requesters,
           SwitchHeeded(r), StageWithin(r), sreq' = [sreq EXCEPT ![q] = r],
           moment' = moment, grants' = grants, switch' = switch,
           account' = account \/ account' = Upserted
    PROVE  SignInv'
<1>1. SignTypes'
    BY DEF SignInv, SignTypes, Upserted
<1>2. SwitchOnRecord'
    BY DEF SignInv, SwitchOnRecord, Upserted
<1>3. \A x \in SignRequests : sreq'[x] = r \/ sreq'[x] = sreq[x]
    BY DEF SignInv, SignTypes
<1>4. \A x \in SignRequests : SwitchHeeded(sreq[x])' /\ StageWithin(sreq[x])'
    BY <1>3 DEF SignInv, SwitchHeeded, StageWithin, DecidedWithin, IssuedWithin
<1> QED
    BY <1>1, <1>2, <1>4 DEF SignInv

(* The record of a request, with its types.                                *)
LEMMA RequesterParts ==
    ASSUME SignInv, NEW q \in SignRequests
    PROVE  /\ sreq[q] \in Requesters /\ sreq[q].matched \in SUBSET CIRules
           /\ sreq[q].kind \in {"user", "ci"} /\ sreq[q].wanted \in Nat
           /\ sreq[q].expires \in Int /\ sreq[q].validAfter \in Int
           /\ sreq[q].validBefore \in Int /\ moment \in Nat
           /\ SwitchHeeded(sreq[q]) /\ StageWithin(sreq[q])
BY DEF SignInv, SignTypes, Requesters

(* The kill switch.  A step of the clock, of the rules or of an            *)
(* administrator.                                                          *)
LEMMA AdministratorStep ==
    ASSUME SignInv, SignTick \/ EditGrants \/ \E on \in BOOLEAN : SetActive(on) PROVE SignInv'
<1>1. CASE SignTick \/ EditGrants
    <2>1. /\ sreq' = sreq /\ account' = account /\ switch' = switch
          /\ moment' \in Nat /\ grants' \in SUBSET CIRules
        BY <1>1 DEF SignTick, EditGrants, SignInv, SignTypes
    <2>2. SignTypes' /\ SwitchOnRecord'
        BY <2>1 DEF SignInv, SignTypes, SwitchOnRecord
    <2>3. \A x \in SignRequests : SwitchHeeded(sreq[x])' /\ StageWithin(sreq[x])'
        BY <2>1 DEF SignInv, SwitchHeeded, StageWithin, DecidedWithin, IssuedWithin
    <2> QED
        BY <2>2, <2>3 DEF SignInv
<1>2. ASSUME NEW on \in BOOLEAN, SetActive(on) PROVE SignInv'
    <2>1. /\ account # "none"
          /\ account' = IF on THEN "active" ELSE "disabled"
          /\ switch' = IF on THEN "on" ELSE "off"
          /\ sreq' = [q \in SignRequests |-> [sreq[q] EXCEPT !.off = sreq[q].off /\ ~on]]
          /\ moment' = moment /\ grants' = grants
        BY <1>2 DEF SetActive
    <2>2. ASSUME NEW q \in SignRequests
          PROVE  /\ sreq'[q] \in Requesters /\ sreq'[q].off = (sreq[q].off /\ ~on)
                 /\ sreq'[q].pc = sreq[q].pc /\ sreq'[q].kind = sreq[q].kind
                 /\ sreq'[q].wanted = sreq[q].wanted /\ sreq'[q].expires = sreq[q].expires
                 /\ sreq'[q].matched = sreq[q].matched /\ sreq'[q].at = sreq[q].at
                 /\ sreq'[q].validAfter = sreq[q].validAfter
                 /\ sreq'[q].validBefore = sreq[q].validBefore
        <3>1. sreq[q] \in Requesters
            BY RequesterParts
        <3>2. sreq'[q] = [sreq[q] EXCEPT !.off = sreq[q].off /\ ~on]
            BY <2>1
        <3> DEFINE off == sreq[q].off /\ ~on
        <3>3. off \in BOOLEAN
            OBVIOUS
        <3>4. sreq'[q] = [sreq[q] EXCEPT !.off = off]
            BY <3>2
        <3> HIDE DEF off
        <3>5. /\ sreq'[q] \in Requesters /\ sreq'[q].off = off
              /\ sreq'[q].pc = sreq[q].pc /\ sreq'[q].kind = sreq[q].kind
              /\ sreq'[q].wanted = sreq[q].wanted /\ sreq'[q].expires = sreq[q].expires
              /\ sreq'[q].matched = sreq[q].matched /\ sreq'[q].at = sreq[q].at
              /\ sreq'[q].validAfter = sreq[q].validAfter
              /\ sreq'[q].validBefore = sreq[q].validBefore
            BY <3>1, <3>3, <3>4 DEF Requesters
        <3> QED
            BY <3>5 DEF off
    <2>3. SignTypes'
        BY <2>1, <2>2 DEF SignInv, SignTypes
    <2>4. SwitchOnRecord'
        BY <2>1 DEF SwitchOnRecord
    <2>5. ASSUME NEW q \in SignRequests PROVE SwitchHeeded(sreq[q])' /\ StageWithin(sreq[q])'
        <3>1. SwitchHeeded(sreq[q])'
            <4> SUFFICES ASSUME sreq'[q].off
                         PROVE  /\ switch' = "off" /\ sreq'[q].kind = "ci"
                                /\ sreq'[q].pc \in {"verified", "matched"}
                BY DEF SwitchHeeded
            <4>1. sreq[q].off /\ ~on
                BY <2>2
            <4>2. sreq[q].kind = "ci" /\ sreq[q].pc \in {"verified", "matched"}
                BY <4>1, RequesterParts DEF SwitchHeeded
            <4> QED
                BY <2>1, <2>2, <4>1, <4>2
        <3>2. StageWithin(sreq[q])'
            BY <2>2, RequesterParts DEF StageWithin, DecidedWithin, IssuedWithin
        <3> QED
            BY <3>1, <3>2
    <2> QED
        BY <2>3, <2>4, <2>5 DEF SignInv
<1> QED
    BY <1>1, <1>2

(* A request comes in, whether the switch is on or off.                    *)
LEMMA SignRequestStep ==
    ASSUME SignInv, NEW q \in SignRequests, NEW kind \in {"user", "ci"}, NEW wanted \in Nat,
           NEW expires \in Int, NEW protected \in BOOLEAN,
           SignRequest(q, kind, wanted, expires, protected)
    PROVE  SignInv'
<1> DEFINE off == kind = "ci" /\ switch = "off"
           r == [NoRequester EXCEPT !.pc = "verified", !.kind = kind, !.wanted = wanted,
                   !.expires = expires, !.protected = protected, !.off = off]
<1>1. sreq' = [sreq EXCEPT ![q] = r]
    BY DEF SignRequest
<1>2. /\ moment' = moment /\ grants' = grants /\ switch' = switch /\ account' = account
    BY DEF SignRequest
<1>3. off \in BOOLEAN
    OBVIOUS
<1>4. off => kind = "ci" /\ switch = "off"
    OBVIOUS
<1> HIDE DEF off
<1>5. r \in Requesters /\ r.pc = "verified" /\ r.kind = kind /\ r.off = off
    BY <1>3, NoRequesterOK DEF Requesters, Stages
<1> HIDE DEF r
<1>6. SwitchHeeded(r) /\ StageWithin(r)
    BY <1>4, <1>5 DEF SwitchHeeded, StageWithin
<1> QED
    BY <1>1, <1>2, <1>5, <1>6, OneRequest

(* A refusal forgets the request.                                          *)
LEMMA RefusalStep ==
    ASSUME SignInv, NEW q \in SignRequests, Refusal(q), moment' = moment, grants' = grants,
           switch' = switch, account' = account \/ account' = Upserted
    PROVE  SignInv'
BY NoRequesterOK, OneRequest DEF Refusal

(* The grants are read.                                                    *)
LEMMA MatchGrantsStep == ASSUME SignInv, NEW q \in SignRequests, MatchGrants(q) PROVE SignInv'
<1> DEFINE matched == {g \in grants : sreq[q].kind = "ci" => Matches(g, sreq[q])}
           r == [sreq[q] EXCEPT !.matched = matched,
                    !.pc = IF sreq[q].kind = "ci" THEN "matched" ELSE "allowed"]
<1>0. /\ moment' = moment /\ grants' = grants /\ switch' = switch /\ account' = account
    BY DEF MatchGrants
<1>1. CASE matched = {}
    BY <1>0, <1>1, RefusalStep DEF MatchGrants
<1>2. CASE matched # {}
    <2>1. sreq' = [sreq EXCEPT ![q] = r]
        BY <1>2 DEF MatchGrants
    <2>2. matched \in SUBSET CIRules
        BY DEF SignInv, SignTypes
    <2> HIDE DEF matched
    <2>3. /\ r \in Requesters /\ r.kind = sreq[q].kind /\ r.off = sreq[q].off
          /\ r.pc = IF sreq[q].kind = "ci" THEN "matched" ELSE "allowed"
        BY <2>2, RequesterParts DEF Requesters, Stages
    <2> HIDE DEF r
    <2>4. SwitchHeeded(r) /\ StageWithin(r)
        BY <2>3, RequesterParts DEF SwitchHeeded, StageWithin
    <2> QED
        BY <1>0, <2>1, <2>3, <2>4, OneRequest
<1> QED
    BY <1>1, <1>2

(* The account's row is written and looked at: whoever owes something to   *)
(* the switch is refused.                                                  *)
LEMMA EnsureAccountStep ==
    ASSUME SignInv, NEW q \in SignRequests, EnsureAccount(q) PROVE SignInv'
<1> DEFINE r == [sreq[q] EXCEPT !.pc = "allowed"]
<1>0. /\ moment' = moment /\ grants' = grants /\ switch' = switch /\ account' = Upserted
    BY DEF EnsureAccount
<1>1. CASE account' # "active"
    BY <1>0, <1>1, RefusalStep DEF EnsureAccount
<1>2. CASE account' = "active"
    <2>1. sreq' = [sreq EXCEPT ![q] = r]
        BY <1>2 DEF EnsureAccount
    <2>2. /\ r \in Requesters /\ r.kind = sreq[q].kind /\ r.off = sreq[q].off
          /\ r.pc = "allowed"
        BY RequesterParts DEF Requesters, Stages
    <2> HIDE DEF r
    <2>3. account # "disabled"
        BY <1>0, <1>2 DEF Upserted
    <2>4. ~sreq[q].off
        BY <2>3, RequesterParts DEF SwitchHeeded, SignInv, SwitchOnRecord
    <2>5. SwitchHeeded(r) /\ StageWithin(r)
        BY <2>2, <2>4 DEF SwitchHeeded, StageWithin
    <2> QED
        BY <1>0, <2>1, <2>2, <2>5, OneRequest
<1> QED
    BY <1>1, <1>2

-----------------------------------------------------------------------------
(* The limits of a certificate.  The lifetime that is decided.             *)
LEMMA ValidityBound ==
    ASSUME NEW r \in Requesters
    PROVE  /\ Validity(r) \in Int
           /\ Validity(r) <= MaxGrantValidity(r.matched)
           /\ r.wanted > 0 => Validity(r) <= Duration(r.wanted)
<1> DEFINE w == IF r.wanted > 0 THEN Duration(r.wanted) ELSE Duration(PolicyMax[r.kind])
           g == MaxGrantValidity(r.matched)
<1>1. r.wanted \in Nat /\ r.matched \in SUBSET CIRules /\ r.kind \in {"user", "ci"}
    BY DEF Requesters
<1>2. PolicyMax[r.kind] \in Nat
    BY <1>1, SigningAssumption
<1>3. w \in Int
    BY <1>1, <1>2, DurationBound
<1>4. g \in Int
    BY <1>1, LongestGrant
<1>5. Validity(r) = Min({w, g})
    BY DEF Validity
<1>6. r.wanted > 0 => w = Duration(r.wanted)
    OBVIOUS
<1> HIDE DEF w, g
<1>7. Validity(r) \in Int /\ Validity(r) <= w /\ Validity(r) <= g
    BY <1>3, <1>4, <1>5, MinOfTwo
<1> QED
    BY <1>6, <1>7 DEF g

(* The lifetime is counted from the backdated start.                       *)
LEMMA DecideStep == ASSUME SignInv, NEW q \in SignRequests, Decide(q) PROVE SignInv'
<1> DEFINE x == sreq[q]
           start == moment - Backdate * Second
           end == start + Validity(x)
           until == IF x.kind = "ci" THEN Min({end, x.expires * Second}) ELSE end
           r == [x EXCEPT !.pc = "decided", !.validAfter = start, !.validBefore = until]
<1>0. /\ moment' = moment /\ grants' = grants /\ switch' = switch /\ account' = account
      /\ x.pc = "allowed"
    BY DEF Decide
<1>1. CASE x.kind = "ci" /\ until <= start
    BY <1>0, <1>1, RefusalStep DEF Decide
<1>2. CASE ~(x.kind = "ci" /\ until <= start)
    <2>1. sreq' = [sreq EXCEPT ![q] = r]
        BY <1>2 DEF Decide
    <2>2. start \in Int
        <3>1. Backdate \in Nat /\ Second \in Nat /\ moment \in Nat
            BY SigningAssumption, RequesterParts
        <3> QED
            BY <3>1
    <2>3. /\ Validity(x) \in Int
          /\ Validity(x) <= MaxGrantValidity(x.matched)
          /\ x.wanted > 0 => Validity(x) <= Duration(x.wanted)
        BY ValidityBound, RequesterParts
    <2>4. end \in Int /\ x.expires * Second \in Int
        BY <2>2, <2>3, SigningAssumption, RequesterParts
    <2>5. until \in Int /\ until <= end /\ (x.kind = "ci" => until <= x.expires * Second)
        <3> HIDE DEF end, x
        <3>1. CASE x.kind = "ci"
            BY <2>4, <3>1, MinOfTwo
        <3>2. CASE x.kind # "ci"
            BY <2>4, <3>2
        <3> QED
            BY <3>1, <3>2
    <2>6. x \in Requesters /\ ~x.off
        BY <1>0, RequesterParts DEF SwitchHeeded
    <2>7. until - start <= Validity(x)
        <3> HIDE DEF until, start
        <3> QED
            BY <2>2, <2>3, <2>5 DEF end
    <2> HIDE DEF x, start, until, end
    <2>8. /\ r \in Requesters /\ r.kind = x.kind /\ r.off = x.off /\ r.pc = "decided"
          /\ r.matched = x.matched /\ r.wanted = x.wanted /\ r.expires = x.expires
          /\ r.validAfter = start /\ r.validBefore = until
        BY <2>2, <2>5, <2>6 DEF Requesters, Stages
    <2> HIDE DEF r
    <2>9. DecidedWithin(r)
        <3>1. MaxGrantValidity(x.matched) \in Int
            BY <2>6, LongestGrant DEF Requesters
        <3>2. x.wanted \in Nat
            BY <2>6 DEF Requesters
        <3>3. x.wanted > 0 => Duration(x.wanted) \in Int
            BY <3>2, DurationBound
        <3>4. until - start <= MaxGrantValidity(x.matched)
            BY <2>2, <2>3, <2>5, <2>7, <3>1
        <3>5. x.wanted > 0 => until - start <= Duration(x.wanted)
            BY <2>2, <2>3, <2>5, <2>7, <3>3
        <3> QED
            BY <2>5, <2>8, <3>4, <3>5 DEF DecidedWithin
    <2>10. SwitchHeeded(r) /\ StageWithin(r)
        BY <2>6, <2>8, <2>9 DEF SwitchHeeded, StageWithin
    <2> QED
        BY <1>0, <2>1, <2>8, <2>10, OneRequest
<1> QED
    BY <1>1, <1>2

(* What the policy allows keeps its limits when it is truncated to whole   *)
(* seconds.                                                                *)
LEMMA TruncationWithin ==
    ASSUME NEW x \in Requesters, DecidedWithin(x), PolicyAllows(x), moment \in Nat,
           NEW r, r.kind = x.kind, r.matched = x.matched, r.wanted = x.wanted,
           r.expires = x.expires, r.at = moment,
           r.validAfter = x.validAfter \div Second, r.validBefore = x.validBefore \div Second
    PROVE  IssuedWithin(r)
<1> DEFINE a == x.validAfter
           b == x.validBefore
           lifetime == (b \div Second) - (a \div Second)
<1>0. /\ a \in Int /\ b \in Int /\ x.wanted \in Nat /\ x.expires \in Int
      /\ x.matched \in SUBSET CIRules /\ x.kind \in {"user", "ci"}
    BY DEF Requesters
<1>1. /\ Second \in Nat \ {0} /\ MaxBackdate \in Nat /\ PolicyMax[x.kind] \in Nat
    BY <1>0, SigningAssumption
<1>2. /\ b > a /\ b - a <= PolicyMax[x.kind] * Second
      /\ a >= moment - MaxBackdate * Second
    BY DEF PolicyAllows
<1>3. /\ b - a <= MaxGrantValidity(x.matched)
      /\ x.wanted > 0 => b - a <= Duration(x.wanted)
      /\ x.kind = "ci" => b <= x.expires * Second
    BY DEF DecidedWithin
<1> HIDE DEF a, b
<1>4. \A l \in Int : b - a <= l * Second => lifetime <= l
    BY <1>0, <1>1, TruncatedLength
<1> HIDE DEF lifetime
<1>5. lifetime <= PolicyMax[x.kind]
    BY <1>1, <1>2, <1>4
<1>6. \E g \in x.matched : lifetime <= g.max
    <2>1. MaxGrantValidity(x.matched) \in Int
        BY <1>0, LongestGrant
    <2>2. MaxGrantValidity(x.matched) > 0
        BY <1>0, <1>2, <1>3, <2>1
    <2>3. PICK g \in x.matched : MaxGrantValidity(x.matched) <= g.max * Second
        BY <1>0, <2>2, LongestGrant
    <2>4. g.max \in Nat
        BY <1>0, SigningAssumption
    <2>5. b - a <= g.max * Second
        BY <1>0, <1>1, <1>3, <2>1, <2>3, <2>4
    <2> QED
        BY <1>4, <2>4, <2>5
<1>7. ASSUME x.wanted > 0 PROVE lifetime <= x.wanted
    <2>1. Duration(x.wanted) \in Int /\ Duration(x.wanted) <= x.wanted * Second
        BY <1>0, DurationBound
    <2>2. b - a <= x.wanted * Second
        BY <1>0, <1>1, <1>3, <1>7, <2>1
    <2> QED
        BY <1>0, <1>4, <2>2
<1>8. x.kind = "ci" => b \div Second <= x.expires
    BY <1>0, <1>1, <1>3, TruncatedEnd
<1>9. (a \div Second) * Second > moment - (MaxBackdate + 1) * Second
    <2>1. (a \div Second) * Second > a - Second
        BY <1>0, <1>1, TruncatedEnd
    <2> DEFINE p == (a \div Second) * Second
               m == MaxBackdate * Second
    <2>2. p \in Int /\ m \in Int /\ (MaxBackdate + 1) * Second = m + Second
        BY <1>0, <1>1, Division
    <2>3. p > a - Second /\ a >= moment - m
        BY <1>2, <2>1
    <2> HIDE DEF p, m
    <2>4. p > moment - (m + Second)
        BY <1>0, <1>1, <2>2, <2>3
    <2> QED
        BY <2>2, <2>4 DEF p
<1> QED
    BY <1>5, <1>6, <1>7, <1>8, <1>9 DEF IssuedWithin, lifetime, a, b

(* Validate, sign, record.                                                 *)
LEMMA IssueCertStep == ASSUME SignInv, NEW q \in SignRequests, IssueCert(q) PROVE SignInv'
<1> DEFINE x == sreq[q]
           from == x.validAfter \div Second
           until == x.validBefore \div Second
           r == [x EXCEPT !.pc = "issued", !.at = moment, !.validAfter = from,
                          !.validBefore = until]
<1>0. /\ moment' = moment /\ grants' = grants /\ switch' = switch /\ account' = account
      /\ x.pc = "decided"
    BY DEF IssueCert
<1>1. CASE ~PolicyAllows(x)
    BY <1>0, <1>1, RefusalStep DEF IssueCert
<1>2. CASE PolicyAllows(x)
    <2>1. sreq' = [sreq EXCEPT ![q] = r]
        BY <1>2 DEF IssueCert
    <2>2. x \in Requesters /\ ~x.off /\ DecidedWithin(x) /\ moment \in Nat
        BY <1>0, RequesterParts DEF SwitchHeeded, StageWithin
    <2>3. x.validAfter \in Int /\ x.validBefore \in Int
        BY <2>2 DEF Requesters
    <2>4. from \in Int /\ until \in Int
        <3>1. Second \in Nat \ {0}
            BY SigningAssumption
        <3> QED
            BY <2>3, <3>1, Division
    <2>6. from = x.validAfter \div Second /\ until = x.validBefore \div Second
        OBVIOUS
    <2>5. moment \in Int
        BY <2>2
    <2> HIDE DEF from, until, x
    <2>7. /\ r \in Requesters /\ r.kind = x.kind /\ r.off = x.off /\ r.pc = "issued"
          /\ r.matched = x.matched /\ r.wanted = x.wanted /\ r.expires = x.expires
          /\ r.at = moment /\ r.validAfter = from /\ r.validBefore = until
        BY <2>2, <2>4, <2>5 DEF Requesters, Stages
    <2> HIDE DEF r
    <2>8. IssuedWithin(r)
        BY <1>2, <2>2, <2>6, <2>7, TruncationWithin
    <2>9. SwitchHeeded(r) /\ StageWithin(r)
        BY <2>2, <2>7, <2>8 DEF SwitchHeeded, StageWithin
    <2> QED
        BY <1>0, <2>1, <2>7, <2>9, OneRequest
<1> QED
    BY <1>1, <1>2

(* Every step of the signing endpoints keeps the invariant.                *)
LEMMA SignNextStep == SignInv /\ [SignNext]_signVars => SignInv'
<1> SUFFICES ASSUME SignInv, [SignNext]_signVars PROVE SignInv'
    OBVIOUS
<1>1. CASE SignTick \/ EditGrants \/ \E on \in BOOLEAN : SetActive(on)
    BY <1>1, AdministratorStep
<1>2. ASSUME NEW q \in SignRequests, NEW wanted \in Wanted,
             \/ SignRequest(q, "user", wanted, LastExpiry, FALSE)
             \/ \E expires \in 0..LastExpiry, protected \in BOOLEAN :
                  SignRequest(q, "ci", wanted, expires, protected)
      PROVE  SignInv'
    <2>1. wanted \in Nat /\ LastExpiry \in Int
        <3>1. Second \in Nat \ {0} /\ MaxMoment \in Int
            <4>1. Second \in Nat \ {0} /\ MaxMoment \in Nat
                BY SigningAssumption
            <4> QED
                BY <4>1
        <3>2. MaxMoment \div Second \in Int
            BY <3>1, Division
        <3> QED
            BY <3>2, SigningAssumption DEF LastExpiry
    <2>2. CASE SignRequest(q, "user", wanted, LastExpiry, FALSE)
        BY <2>1, <2>2, SignRequestStep
    <2>3. ASSUME NEW expires \in 0..LastExpiry, NEW protected \in BOOLEAN,
                 SignRequest(q, "ci", wanted, expires, protected)
          PROVE  SignInv'
        <3>1. expires \in Int
            BY <2>1
        <3> QED
            BY <2>1, <2>3, <3>1, SignRequestStep
    <2> QED
        BY <1>2, <2>2, <2>3
<1>3. ASSUME NEW q \in SignRequests,
             MatchGrants(q) \/ EnsureAccount(q) \/ Decide(q) \/ IssueCert(q)
      PROVE  SignInv'
    BY <1>3, MatchGrantsStep, EnsureAccountStep, DecideStep, IssueCertStep
<1>4. CASE UNCHANGED signVars
    BY <1>4 DEF signVars, SignInv, SignTypes, SwitchOnRecord, SwitchHeeded, StageWithin,
       DecidedWithin, IssuedWithin
<1> QED
    BY <1>1, <1>2, <1>3, <1>4 DEF SignNext

(* The invariant of the signing endpoints.                                 *)
THEOREM SignInvHolds == SignSpec => []SignInv
<1> QED
    BY InitSignInv, SignNextStep, PTL DEF SignSpec

(* Every certificate is within the policy, the longest grant, the request  *)
(* and the job, in whole seconds, whatever wraps around on the way         *)
(* (sign.go, sign_ci.go, policy.go).                                       *)
THEOREM CertificatesWithinLimits == SignSpec => []CertWithinLimits
<1>1. SignInv => CertWithinLimits
    BY DEF SignInv, StageWithin, IssuedWithin, CertWithinLimits
<1> QED
    BY <1>1, SignInvHolds, PTL

(* A CI request that comes after the kill switch was set off gets no       *)
(* certificate, however it interleaves with others that create the account *)
(* (sign_ci.go over EnsureCIServiceAccount).                               *)
THEOREM KillSwitchHolds == SignSpec => []KillSwitch
<1>1. SignInv => KillSwitch
    BY DEF SignInv, SwitchHeeded, KillSwitch
<1> QED
    BY <1>1, SignInvHolds, PTL

-----------------------------------------------------------------------------
(* The adoption of mounted keys.                                           *)
AdoptingStages == {"inserted", "demoting", "locked"}

ServerStates == [pc : {"down", "loading", "loaded", "auditing", "serving"} \cup AdoptingStages,
                 key : Versions \cup {0}, demotes : SUBSET Versions, excused : BOOLEAN]

AdoptTypes == /\ secret \in Versions
              /\ mounted \in [KeyServers -> Versions]
              /\ keyRow \in [Versions -> {"none", "active", "retiring", "retired"}]
              /\ server \in [KeyServers -> ServerStates]
              /\ audits \in [Versions -> Nat]
              /\ demoted \in SUBSET Versions /\ unaudited \in SUBSET Versions

(* A replica that is starting or serving has a key.                        *)
KeyRead(r) == server[r].pc # "down" => server[r].key \in Versions

(* The row that a transaction has inserted is not there for the others,    *)
(* and no other transaction has inserted it.                               *)
InsertsAlone(r) ==
    server[r].pc \in AdoptingStages =>
        /\ keyRow[server[r].key] = "none"
        /\ \A o \in KeyServers : server[o].pc \in AdoptingStages
              /\ server[o].key = server[r].key => o = r

(* Nobody retires a row that a transaction has locked.                     *)
LocksLive(r) ==
    server[r].pc = "locked" => \A v \in server[r].demotes : keyRow[v] \in {"active", "retiring"}

(* What signs has a row.                                                   *)
SignsRegistered(r) ==
    server[r].pc \in {"auditing", "serving"} =>
        /\ keyRow[server[r].key] # "none"
        /\ ~server[r].excused => keyRow[server[r].key] \in {"active", "retiring"}

DemotedStay == \A v \in demoted : keyRow[v] \in {"retiring", "retired"}

Audits(r, v) == server[r].pc = "auditing" /\ server[r].key = v

(* An adoption is audited, or about to be by one replica, or its replica   *)
(* died.                                                                   *)
AuditCounts(v) ==
    /\ keyRow[v] = "none" => audits[v] = 0 /\ v \notin unaudited
    /\ keyRow[v] # "none" =>
          \/ /\ \A r \in KeyServers : ~Audits(r, v)
             /\ audits[v] = IF v \in unaudited THEN 0 ELSE 1
          \/ /\ audits[v] = 0 /\ v \notin unaudited
             /\ \E r \in KeyServers : /\ Audits(r, v)
                                      /\ \A o \in KeyServers : Audits(o, v) => o = r

(* The inductive invariant.                                                *)
AdoptInv == /\ AdoptTypes /\ DemotedStay
            /\ \A r \in KeyServers : /\ KeyRead(r) /\ InsertsAlone(r)
                                     /\ LocksLive(r) /\ SignsRegistered(r)
            /\ \A v \in Versions : AuditCounts(v)

(* The invariant says what AdoptionSound says.                             *)
LEMMA AdoptInvSound == AdoptInv => AdoptionSound
<1> SUFFICES ASSUME AdoptInv PROVE AdoptionSound
    OBVIOUS
<1>1. ASSUME NEW r \in KeyServers, server[r].pc = "serving", ~server[r].excused
      PROVE  keyRow[server[r].key] \in {"active", "retiring"}
    BY <1>1 DEF AdoptInv, SignsRegistered
<1>2. ASSUME NEW v \in demoted PROVE keyRow[v] # "active"
    BY DEF AdoptInv, DemotedStay
<1>3. ASSUME NEW v \in Versions, keyRow[v] # "none"
      PROVE  audits[v] + Cardinality({r \in KeyServers : server[r].pc = "auditing" /\
                                                          server[r].key = v})
               = IF v \in unaudited THEN 0 ELSE 1
    <2> DEFINE S == {r \in KeyServers : server[r].pc = "auditing" /\ server[r].key = v}
    <2>1. CASE /\ \A r \in KeyServers : ~Audits(r, v)
               /\ audits[v] = IF v \in unaudited THEN 0 ELSE 1
        <3>1. S = {}
            BY <2>1 DEF Audits
        <3>2. Cardinality(S) = 0
            BY <3>1, FS_EmptySet
        <3> QED
            BY <2>1, <3>2
    <2>2. ASSUME audits[v] = 0, v \notin unaudited, NEW r \in KeyServers, Audits(r, v),
                 \A o \in KeyServers : Audits(o, v) => o = r
          PROVE  audits[v] + Cardinality(S) = IF v \in unaudited THEN 0 ELSE 1
        <3>1. S = {r}
            BY <2>2 DEF Audits
        <3>2. Cardinality(S) = 1
            BY <3>1, FS_Singleton
        <3> QED
            BY <2>2, <3>2
    <2>3. AuditCounts(v)
        BY DEF AdoptInv
    <2> QED
        BY <1>3, <2>1, <2>2, <2>3 DEF AuditCounts
<1> QED
    BY <1>1, <1>2, <1>3 DEF AdoptionSound

(* A replica that is down is well typed.                                   *)
LEMMA StoppedOK == Stopped \in ServerStates /\ Stopped.pc = "down" /\ Stopped.demotes = {}
BY DEF Stopped, ServerStates

(* The table is empty and all replicas are down.                           *)
LEMMA InitAdoptInv == SelfManagedInit => AdoptInv
<1> SUFFICES ASSUME SelfManagedInit PROVE AdoptInv
    OBVIOUS
<1>1. AdoptTypes /\ DemotedStay
    BY StoppedOK DEF SelfManagedInit, AdoptTypes, DemotedStay
<1>2. \A r \in KeyServers : server[r] = Stopped
    BY DEF SelfManagedInit
<1>3. \A r \in KeyServers : KeyRead(r) /\ InsertsAlone(r) /\ LocksLive(r) /\ SignsRegistered(r)
    BY <1>2, StoppedOK DEF KeyRead, InsertsAlone, LocksLive, SignsRegistered, AdoptingStages
<1>4. \A v \in Versions : AuditCounts(v)
    BY DEF SelfManagedInit, AuditCounts
<1> QED
    BY <1>1, <1>3, <1>4 DEF AdoptInv

(* The parts of a replica's state.                                         *)
LEMMA ServerParts ==
    ASSUME AdoptInv, NEW r \in KeyServers
    PROVE  /\ server[r] \in ServerStates /\ server[r].demotes \in SUBSET Versions
           /\ KeyRead(r) /\ InsertsAlone(r) /\ LocksLive(r) /\ SignsRegistered(r)
BY DEF AdoptInv, AdoptTypes, ServerStates

(* A step of one replica that is not about its audit event and changes no  *)
(* row.                                                                    *)
LEMMA OneServer ==
    ASSUME AdoptInv, NEW r \in KeyServers, NEW s \in ServerStates,
           server' = [server EXCEPT ![r] = s], secret' = secret, mounted' = mounted,
           keyRow' = keyRow, audits' = audits, demoted' = demoted, unaudited' = unaudited,
           server[r].pc # "auditing", s.pc # "auditing",
           s.pc # "down" => s.key \in Versions,
           s.pc \in AdoptingStages =>
               /\ keyRow[s.key] = "none"
               /\ \A o \in KeyServers : server[o].pc \in AdoptingStages
                     /\ server[o].key = s.key => o = r,
           s.pc = "locked" => \A v \in s.demotes : keyRow[v] \in {"active", "retiring"},
           s.pc = "serving" =>
               /\ keyRow[s.key] # "none"
               /\ ~s.excused => keyRow[s.key] \in {"active", "retiring"}
    PROVE  AdoptInv'
<1>1. server'[r] = s /\ \A o \in KeyServers : o # r => server'[o] = server[o]
    BY DEF AdoptInv, AdoptTypes
<1>2. AdoptTypes' /\ DemotedStay'
    BY DEF AdoptInv, AdoptTypes, DemotedStay
<1>3. ASSUME NEW o \in KeyServers
      PROVE  KeyRead(o)' /\ InsertsAlone(o)' /\ LocksLive(o)' /\ SignsRegistered(o)'
    <2>1. CASE o = r
        <3>1. KeyRead(o)' /\ LocksLive(o)' /\ SignsRegistered(o)'
            BY <1>1, <2>1 DEF KeyRead, LocksLive, SignsRegistered
        <3>2. InsertsAlone(o)'
            BY <1>1, <2>1 DEF InsertsAlone
        <3> QED
            BY <3>1, <3>2
    <2>2. CASE o # r
        <3>1. KeyRead(o)' /\ LocksLive(o)' /\ SignsRegistered(o)'
            BY <1>1, <2>2, ServerParts DEF KeyRead, LocksLive, SignsRegistered
        <3>2. InsertsAlone(o)'
            BY <1>1, <2>2, ServerParts DEF InsertsAlone
        <3> QED
            BY <3>1, <3>2
    <2> QED
        BY <2>1, <2>2
<1>4. ASSUME NEW v \in Versions PROVE AuditCounts(v)'
    <2>1. \A o \in KeyServers : Audits(o, v)' <=> Audits(o, v)
        BY <1>1 DEF Audits
    <2>2. AuditCounts(v)
        BY DEF AdoptInv
    <2> QED
        BY <2>1, <2>2 DEF AuditCounts
<1> QED
    BY <1>2, <1>3, <1>4 DEF AdoptInv

(* The secret changes, or a replica's mount follows it.                    *)
LEMMA MountStep ==
    ASSUME AdoptInv, \/ \E v \in Versions : ChangeSecret(v)
                     \/ \E r \in KeyServers : SyncMount(r)
    PROVE  AdoptInv'
<1>1. /\ keyRow' = keyRow /\ server' = server /\ audits' = audits /\ demoted' = demoted
      /\ unaudited' = unaudited
    BY DEF ChangeSecret, SyncMount
<1>2. secret' \in Versions /\ mounted' \in [KeyServers -> Versions]
    BY DEF ChangeSecret, SyncMount, AdoptInv, AdoptTypes
<1>3. AdoptTypes' /\ DemotedStay'
    BY <1>1, <1>2 DEF AdoptInv, AdoptTypes, DemotedStay
<1>4. \A r \in KeyServers : KeyRead(r)' /\ InsertsAlone(r)' /\ LocksLive(r)' /\ SignsRegistered(r)'
    BY <1>1 DEF AdoptInv, KeyRead, InsertsAlone, LocksLive, SignsRegistered
<1>5. \A v \in Versions : AuditCounts(v)'
    BY <1>1 DEF AdoptInv, AuditCounts, Audits
<1> QED
    BY <1>3, <1>4, <1>5 DEF AdoptInv

(* The steps up to the transaction: the files are loaded, the row is       *)
(* inserted unless it is there, and the rows to demote are read.           *)
LEMMA LoadStep ==
    ASSUME AdoptInv, NEW r \in KeyServers, LoadKeyFile(r) \/ LoadCertFile(r) PROVE AdoptInv'
<1>0. /\ server[r] \in ServerStates /\ mounted[r] \in Versions
      /\ secret' = secret /\ mounted' = mounted /\ keyRow' = keyRow /\ audits' = audits
      /\ demoted' = demoted /\ unaudited' = unaudited
    BY ServerParts DEF LoadKeyFile, LoadCertFile, AdoptInv, AdoptTypes
<1>1. CASE LoadKeyFile(r)
    <2> DEFINE s == [server[r] EXCEPT !.pc = "loading", !.key = mounted[r]]
    <2>1. server' = [server EXCEPT ![r] = s] /\ server[r].pc = "down"
        BY <1>1 DEF LoadKeyFile
    <2>2. s \in ServerStates /\ s.pc = "loading" /\ s.key = mounted[r]
        BY <1>0 DEF ServerStates
    <2> HIDE DEF s
    <2> QED
        BY <1>0, <2>1, <2>2, OneServer DEF AdoptingStages
<1>2. CASE LoadCertFile(r) /\ mounted[r] = server[r].key
    <2> DEFINE s == [server[r] EXCEPT !.pc = "loaded"]
    <2>1. server' = [server EXCEPT ![r] = s] /\ server[r].pc = "loading"
        BY <1>2 DEF LoadCertFile
    <2>2. s \in ServerStates /\ s.pc = "loaded" /\ s.key = mounted[r]
        BY <1>0, <1>2 DEF ServerStates
    <2> HIDE DEF s
    <2> QED
        BY <1>0, <2>1, <2>2, OneServer DEF AdoptingStages
<1>3. CASE LoadCertFile(r) /\ mounted[r] # server[r].key
    <2>1. server' = [server EXCEPT ![r] = Stopped] /\ server[r].pc = "loading"
        BY <1>3 DEF LoadCertFile
    <2> QED
        BY <1>0, <2>1, StoppedOK, OneServer DEF AdoptingStages
<1> QED
    BY <1>1, <1>2, <1>3

(* AdoptCAKey inserts the row, takes it as it is, or refuses the key.      *)
LEMMA AdoptInsertStep == ASSUME AdoptInv, NEW r \in KeyServers, AdoptInsert(r) PROVE AdoptInv'
<1> DEFINE v == server[r].key
<1>0. /\ server[r] \in ServerStates /\ server[r].pc = "loaded" /\ v \in Versions
      /\ secret' = secret /\ mounted' = mounted /\ keyRow' = keyRow /\ audits' = audits
      /\ demoted' = demoted /\ unaudited' = unaudited
    BY ServerParts DEF AdoptInsert, KeyRead
<1>1. \A o \in KeyServers : server[o].pc \in AdoptingStages => server[o].key # v
    BY DEF AdoptInsert, Inserting, AdoptingStages
<1>2. CASE keyRow[v] = "none"
    <2> DEFINE s == [server[r] EXCEPT !.pc = "inserted"]
    <2>1. server' = [server EXCEPT ![r] = s]
        BY <1>2 DEF AdoptInsert
    <2>2. s \in ServerStates /\ s.pc = "inserted" /\ s.key = v
        BY <1>0 DEF ServerStates, AdoptingStages
    <2> HIDE DEF s, v
    <2> QED
        BY <1>0, <1>1, <1>2, <2>1, <2>2, OneServer
<1>3. CASE keyRow[v] = "retired"
    <2>1. server' = [server EXCEPT ![r] = Stopped]
        BY <1>3 DEF AdoptInsert, KeyRefused
    <2> QED
        BY <1>0, <2>1, StoppedOK, OneServer DEF AdoptingStages
<1>4. CASE keyRow[v] # "none" /\ keyRow[v] # "retired"
    <2> DEFINE s == [server[r] EXCEPT !.pc = "serving"]
    <2>1. server' = [server EXCEPT ![r] = s]
        BY <1>4 DEF AdoptInsert, KeyRefused
    <2>2. s \in ServerStates /\ s.pc = "serving" /\ s.key = v
        BY <1>0 DEF ServerStates
    <2>3. keyRow[v] \in {"active", "retiring"}
        BY <1>0, <1>4 DEF AdoptInv, AdoptTypes
    <2> HIDE DEF s, v
    <2> QED
        BY <1>0, <2>1, <2>2, <2>3, OneServer DEF AdoptingStages
<1> QED
    BY <1>2, <1>3, <1>4

(* The UPDATE of the transaction.                                          *)
LEMMA DemoteKeysStep ==
    ASSUME AdoptInv, NEW r \in KeyServers, DemoteBegin(r) \/ DemoteRows(r) PROVE AdoptInv'
<1>0. /\ server[r] \in ServerStates /\ server[r].pc \in AdoptingStages
      /\ server[r].key \in Versions /\ InsertsAlone(r) /\ server[r].demotes \in SUBSET Versions
      /\ secret' = secret /\ mounted' = mounted /\ keyRow' = keyRow /\ audits' = audits
      /\ demoted' = demoted /\ unaudited' = unaudited
    BY ServerParts DEF DemoteBegin, DemoteRows, KeyRead, AdoptingStages
<1>1. CASE DemoteBegin(r)
    <2> DEFINE d == {v \in Versions : keyRow[v] = "active"}
               s == [server[r] EXCEPT !.pc = "demoting", !.demotes = d]
    <2>1. server' = [server EXCEPT ![r] = s]
        BY <1>1 DEF DemoteBegin
    <2>2. s \in ServerStates /\ s.pc = "demoting" /\ s.key = server[r].key
        BY <1>0 DEF ServerStates, AdoptingStages
    <2> HIDE DEF s, d
    <2>3. /\ s.pc # "auditing" /\ s.pc # "down" /\ s.pc # "locked" /\ s.pc # "serving"
          /\ server[r].pc # "auditing"
        BY <1>0, <2>2 DEF AdoptingStages
    <2>4. /\ keyRow[s.key] = "none"
          /\ \A o \in KeyServers : server[o].pc \in AdoptingStages
                /\ server[o].key = s.key => o = r
        BY <1>0, <2>2 DEF InsertsAlone
    <2> QED
        BY <1>0, <2>1, <2>2, <2>3, <2>4, OneServer
<1>2. CASE DemoteRows(r)
    <2> DEFINE d == {v \in server[r].demotes : keyRow[v] = "active"}
               s == [server[r] EXCEPT !.pc = "locked", !.demotes = d]
    <2>1. server' = [server EXCEPT ![r] = s]
        BY <1>2 DEF DemoteRows
    <2>2. s \in ServerStates /\ s.pc = "locked" /\ s.key = server[r].key /\ s.demotes = d
        BY <1>0 DEF ServerStates, AdoptingStages
    <2>3. \A v \in d : keyRow[v] \in {"active", "retiring"}
        OBVIOUS
    <2> HIDE DEF s, d
    <2>4. /\ s.pc # "auditing" /\ s.pc # "down" /\ s.pc # "serving"
          /\ server[r].pc # "auditing"
        BY <1>0, <2>2 DEF AdoptingStages
    <2>5. /\ keyRow[s.key] = "none"
          /\ \A o \in KeyServers : server[o].pc \in AdoptingStages
                /\ server[o].key = s.key => o = r
        BY <1>0, <2>2 DEF InsertsAlone
    <2> QED
        BY <1>0, <2>1, <2>2, <2>3, <2>4, <2>5, OneServer
<1> QED
    BY <1>1, <1>2

(* The commit shows the new row and the demotions at once.                 *)
LEMMA AdoptCommitStep == ASSUME AdoptInv, NEW r \in KeyServers, AdoptCommit(r) PROVE AdoptInv'
<1> DEFINE k == server[r].key
           d == server[r].demotes
           s == [server[r] EXCEPT !.pc = "auditing", !.demotes = {}]
<1>0. /\ server[r] \in ServerStates /\ server[r].pc = "locked" /\ k \in Versions
      /\ d \in SUBSET Versions /\ InsertsAlone(r) /\ LocksLive(r)
      /\ secret' = secret /\ mounted' = mounted /\ audits' = audits /\ unaudited' = unaudited
      /\ demoted' = demoted \cup d /\ server' = [server EXCEPT ![r] = s]
      /\ keyRow' = [v \in Versions |-> IF v = k THEN "active"
                                       ELSE IF v \in d THEN "retiring" ELSE keyRow[v]]
    BY ServerParts DEF AdoptCommit, KeyRead
<1>1. /\ s \in ServerStates /\ s.pc = "auditing" /\ s.key = k /\ s.demotes = {}
    BY <1>0 DEF ServerStates
<1>2. /\ keyRow[k] = "none" /\ \A v \in d : keyRow[v] \in {"active", "retiring"}
      /\ \A o \in KeyServers : o # r /\ server[o].pc \in AdoptingStages => server[o].key # k
    BY <1>0 DEF InsertsAlone, LocksLive, AdoptingStages
<1> HIDE DEF s, k, d
<1>3. server'[r] = s /\ \A o \in KeyServers : o # r => server'[o] = server[o]
    BY <1>0 DEF AdoptInv, AdoptTypes
<1>4. /\ keyRow'[k] = "active" /\ k \notin d
      /\ \A v \in d : keyRow'[v] = "retiring" /\ keyRow[v] # "none"
      /\ \A v \in Versions : v # k /\ v \notin d => keyRow'[v] = keyRow[v]
    BY <1>0, <1>2
<1>5. AdoptTypes'
    BY <1>0, <1>1 DEF AdoptInv, AdoptTypes
<1>6. DemotedStay'
    BY <1>0, <1>2, <1>4 DEF AdoptInv, AdoptTypes, DemotedStay
<1>7. ASSUME NEW o \in KeyServers
      PROVE  KeyRead(o)' /\ InsertsAlone(o)' /\ LocksLive(o)' /\ SignsRegistered(o)'
    <2>1. CASE o = r
        BY <1>0, <1>1, <1>3, <1>4, <2>1
        DEF KeyRead, InsertsAlone, LocksLive, SignsRegistered, AdoptingStages
    <2>2. CASE o # r
        <3>1. /\ KeyRead(o) /\ InsertsAlone(o) /\ LocksLive(o) /\ SignsRegistered(o)
              /\ server'[o] = server[o] /\ server[o].demotes \in SUBSET Versions
            BY <1>3, <2>2, ServerParts
        <3>2. KeyRead(o)'
            BY <3>1 DEF KeyRead
        <3>3. InsertsAlone(o)'
            <4> SUFFICES ASSUME server[o].pc \in AdoptingStages PROVE InsertsAlone(o)'
                BY <3>1 DEF InsertsAlone
            <4>1. /\ server[o].key # k /\ keyRow[server[o].key] = "none"
                  /\ server[o].key \in Versions
                BY <1>2, <2>2, <3>1 DEF InsertsAlone, KeyRead, AdoptingStages
            <4>2. keyRow'[server[o].key] = "none"
                BY <1>4, <4>1
            <4>3. \A x \in KeyServers : server'[x].pc \in AdoptingStages
                     => x # r /\ server'[x] = server[x]
                BY <1>1, <1>3 DEF AdoptingStages
            <4> QED
                BY <3>1, <4>2, <4>3 DEF InsertsAlone
        <3>4. LocksLive(o)'
            <4> SUFFICES ASSUME server[o].pc = "locked", NEW v \in server[o].demotes
                         PROVE  keyRow'[v] \in {"active", "retiring"}
                BY <3>1 DEF LocksLive
            <4>1. keyRow[v] \in {"active", "retiring"} /\ v \in Versions
                BY <3>1 DEF LocksLive
            <4> QED
                BY <1>4, <4>1
        <3>5. SignsRegistered(o)'
            <4> SUFFICES ASSUME server[o].pc \in {"auditing", "serving"}
                         PROVE  /\ keyRow'[server[o].key] # "none"
                                /\ ~server[o].excused =>
                                      keyRow'[server[o].key] \in {"active", "retiring"}
                BY <3>1 DEF SignsRegistered
            <4>1. /\ keyRow[server[o].key] # "none" /\ server[o].key \in Versions
                  /\ ~server[o].excused => keyRow[server[o].key] \in {"active", "retiring"}
                BY <3>1 DEF SignsRegistered, KeyRead
            <4> QED
                BY <1>4, <4>1
        <3> QED
            BY <3>2, <3>3, <3>4, <3>5
    <2> QED
        BY <2>1, <2>2
<1>8. ASSUME NEW v \in Versions PROVE AuditCounts(v)'
    <2>0. AuditCounts(v)
        BY DEF AdoptInv
    <2>1. CASE v = k
        <3>1. audits[v] = 0 /\ v \notin unaudited
            BY <1>2, <2>0, <2>1 DEF AuditCounts
        <3>2. Audits(r, v)'
            BY <1>1, <1>3, <2>1 DEF Audits
        <3>3. \A o \in KeyServers : o # r => ~Audits(o, v)
            BY <1>2, <2>1, ServerParts DEF Audits, SignsRegistered
        <3>4. \A o \in KeyServers : Audits(o, v)' => o = r
            BY <1>3, <3>3 DEF Audits
        <3> QED
            BY <1>0, <3>1, <3>2, <3>4 DEF AuditCounts
    <2>2. CASE v # k
        <3>1. \A o \in KeyServers : Audits(o, v)' <=> Audits(o, v)
            BY <1>0, <1>1, <1>3, <2>2 DEF Audits
        <3>2. keyRow'[v] = "none" <=> keyRow[v] = "none"
            BY <1>4, <2>2
        <3> QED
            BY <1>0, <2>0, <3>1, <3>2 DEF AuditCounts
    <2> QED
        BY <2>1, <2>2
<1> QED
    BY <1>5, <1>6, <1>7, <1>8 DEF AdoptInv

(* The audit event of an adoption is written, or its replica dies.         *)
LEMMA AuditStep ==
    ASSUME AdoptInv, NEW r \in KeyServers, server[r].pc = "auditing", NEW s \in ServerStates,
           server' = [server EXCEPT ![r] = s],
           s.pc = "down" \/ (s.pc = "serving" /\ s.key = server[r].key
                                /\ s.excused = server[r].excused),
           \/ s.pc = "down" /\ audits' = audits /\ unaudited' = unaudited \cup {server[r].key}
           \/ /\ s.pc = "serving" /\ unaudited' = unaudited
              /\ audits' = [audits EXCEPT ![server[r].key] = @ + 1],
           secret' = secret, mounted' = mounted, keyRow' = keyRow, demoted' = demoted
    PROVE  AdoptInv'
<1> DEFINE k == server[r].key
<1>0. k \in Versions /\ keyRow[k] # "none" /\ SignsRegistered(r) /\ Audits(r, k)
    BY ServerParts DEF KeyRead, SignsRegistered, Audits
<1>1. server'[r] = s /\ \A o \in KeyServers : o # r => server'[o] = server[o]
    BY DEF AdoptInv, AdoptTypes
<1>2. AdoptTypes' /\ DemotedStay'
    <2>1. audits' \in [Versions -> Nat] /\ unaudited' \in SUBSET Versions
        BY <1>0 DEF AdoptInv, AdoptTypes
    <2> QED
        BY <2>1 DEF AdoptInv, AdoptTypes, DemotedStay
<1>3. ASSUME NEW o \in KeyServers
      PROVE  KeyRead(o)' /\ InsertsAlone(o)' /\ LocksLive(o)' /\ SignsRegistered(o)'
    <2>1. CASE o = r
        BY <1>0, <1>1, <2>1
        DEF KeyRead, InsertsAlone, LocksLive, SignsRegistered, AdoptingStages
    <2>2. CASE o # r
        <3>1. KeyRead(o)' /\ LocksLive(o)' /\ SignsRegistered(o)'
            BY <1>1, <2>2, ServerParts DEF KeyRead, LocksLive, SignsRegistered
        <3>2. \A x \in KeyServers : server'[x].pc \in AdoptingStages => server'[x] = server[x]
            BY <1>1 DEF AdoptingStages
        <3>3. InsertsAlone(o)'
            BY <1>1, <2>2, <3>2, ServerParts DEF InsertsAlone
        <3> QED
            BY <3>1, <3>3
    <2> QED
        BY <2>1, <2>2
<1>4. audits[k] = 0 /\ k \notin unaudited /\ \A o \in KeyServers : Audits(o, k) => o = r
    <2>1. AuditCounts(k)
        BY <1>0 DEF AdoptInv
    <2> QED
        BY <1>0, <2>1 DEF AuditCounts
<1>5. \A o \in KeyServers : \A v \in Versions : Audits(o, v)' <=> Audits(o, v) /\ v # k
    BY <1>1, <1>4 DEF Audits
<1>6. ASSUME NEW v \in Versions PROVE AuditCounts(v)'
    <2>0. AuditCounts(v)
        BY DEF AdoptInv
    <2>1. CASE v = k
        <3>1. audits'[v] = IF v \in unaudited' THEN 0 ELSE 1
            BY <1>0, <1>4, <2>1 DEF AdoptInv, AdoptTypes
        <3>2. \A o \in KeyServers : ~Audits(o, v)'
            BY <1>5, <2>1
        <3> QED
            BY <1>0, <2>1, <3>1, <3>2 DEF AuditCounts
    <2>2. CASE v # k
        <3>1. audits'[v] = audits[v] /\ (v \in unaudited' <=> v \in unaudited)
            BY <2>2 DEF AdoptInv, AdoptTypes
        <3>2. \A o \in KeyServers : Audits(o, v)' <=> Audits(o, v)
            BY <1>5, <2>2
        <3> QED
            BY <2>0, <3>1, <3>2 DEF AuditCounts
    <2> QED
        BY <2>1, <2>2
<1> QED
    BY <1>2, <1>3, <1>6 DEF AdoptInv

(* The last steps of a start, and the ways in which a replica stops.       *)
LEMMA StopStep ==
    ASSUME AdoptInv, NEW r \in KeyServers, AuditAdoption(r) \/ Redeploy(r) \/ StartBreaks(r)
    PROVE  AdoptInv'
<1>0. /\ secret' = secret /\ mounted' = mounted /\ keyRow' = keyRow /\ demoted' = demoted
      /\ server[r] \in ServerStates
    BY ServerParts DEF AuditAdoption, Redeploy, StartBreaks
<1>1. CASE AuditAdoption(r)
    <2> DEFINE s == [server[r] EXCEPT !.pc = "serving"]
    <2>1. /\ server[r].pc = "auditing" /\ server' = [server EXCEPT ![r] = s]
          /\ unaudited' = unaudited /\ audits' = [audits EXCEPT ![server[r].key] = @ + 1]
        BY <1>1 DEF AuditAdoption
    <2>2. s \in ServerStates /\ s.pc = "serving" /\ s.key = server[r].key
          /\ s.excused = server[r].excused
        BY <1>0 DEF ServerStates
    <2> HIDE DEF s
    <2> QED
        BY <1>0, <2>1, <2>2, AuditStep
<1>2. CASE StartBreaks(r) /\ server[r].pc = "auditing"
    <2>1. /\ server' = [server EXCEPT ![r] = Stopped] /\ audits' = audits
          /\ unaudited' = unaudited \cup {server[r].key}
        BY <1>2 DEF StartBreaks
    <2> QED
        BY <1>0, <1>2, <2>1, StoppedOK, AuditStep
<1>3. CASE Redeploy(r) \/ (StartBreaks(r) /\ server[r].pc # "auditing")
    <2>1. /\ server' = [server EXCEPT ![r] = Stopped] /\ audits' = audits
          /\ unaudited' = unaudited /\ server[r].pc # "auditing"
        BY <1>3 DEF StartBreaks, Redeploy
    <2> QED
        BY <1>0, <2>1, StoppedOK, OneServer DEF AdoptingStages
<1> QED
    BY <1>1, <1>2, <1>3

(* A key is retired: not one a transaction has locked, and with an excuse  *)
(* for the replicas that serve with it.                                    *)
LEMMA RetireRowStep == ASSUME AdoptInv, NEW k \in Versions, RetireRow(k) PROVE AdoptInv'
<1>0. /\ keyRow[k] \in {"active", "retiring"} /\ k \notin LockedRows
      /\ secret' = secret /\ mounted' = mounted /\ audits' = audits /\ demoted' = demoted
      /\ unaudited' = unaudited
      /\ keyRow' = [keyRow EXCEPT ![k] = "retired"]
      /\ server' = [r \in KeyServers |->
                      IF server[r].key = k /\ server[r].pc \in {"auditing", "serving"}
                      THEN [server[r] EXCEPT !.excused = TRUE] ELSE server[r]]
    BY DEF RetireRow
<1>1. keyRow'[k] = "retired" /\ \A v \in Versions : v # k => keyRow'[v] = keyRow[v]
    BY <1>0 DEF AdoptInv, AdoptTypes
<1>2. ASSUME NEW r \in KeyServers
      PROVE  /\ server'[r] \in ServerStates
             /\ server'[r].pc = server[r].pc /\ server'[r].key = server[r].key
             /\ server'[r].demotes = server[r].demotes
             /\ server[r].key = k /\ server[r].pc \in {"auditing", "serving"}
                   => server'[r].excused
             /\ server[r].excused => server'[r].excused
    <2>1. server[r] \in ServerStates
        BY ServerParts
    <2>2. CASE server[r].key = k /\ server[r].pc \in {"auditing", "serving"}
        <3>1. server'[r] = [server[r] EXCEPT !.excused = TRUE]
            BY <1>0, <2>2
        <3> QED
            BY <2>1, <3>1 DEF ServerStates
    <2>3. CASE ~(server[r].key = k /\ server[r].pc \in {"auditing", "serving"})
        <3>1. server'[r] = server[r]
            BY <1>0, <2>3
        <3> QED
            BY <2>1, <2>3, <3>1
    <2> QED
        BY <2>2, <2>3
<1>3. AdoptTypes'
    <2>1. server' \in [KeyServers -> ServerStates]
        BY <1>0, <1>2
    <2> QED
        BY <1>0, <2>1 DEF AdoptInv, AdoptTypes
<1>4. DemotedStay'
    BY <1>0, <1>1 DEF AdoptInv, AdoptTypes, DemotedStay
<1>5. ASSUME NEW r \in KeyServers
      PROVE  KeyRead(r)' /\ InsertsAlone(r)' /\ LocksLive(r)' /\ SignsRegistered(r)'
    <2>0. /\ KeyRead(r) /\ InsertsAlone(r) /\ LocksLive(r) /\ SignsRegistered(r)
          /\ server[r].demotes \in SUBSET Versions
        BY ServerParts
    <2>1. KeyRead(r)'
        BY <1>2, <2>0 DEF KeyRead
    <2>2. InsertsAlone(r)'
        <3> SUFFICES ASSUME server[r].pc \in AdoptingStages PROVE InsertsAlone(r)'
            BY <1>2 DEF InsertsAlone
        <3>1. keyRow[server[r].key] = "none" /\ server[r].key \in Versions
            BY <2>0 DEF InsertsAlone, KeyRead, AdoptingStages
        <3>2. keyRow'[server[r].key] = "none"
            BY <1>0, <1>1, <3>1
        <3> QED
            BY <1>2, <2>0, <3>2 DEF InsertsAlone
    <2>3. LocksLive(r)'
        <3> SUFFICES ASSUME server[r].pc = "locked", NEW v \in server[r].demotes
                     PROVE  keyRow'[v] \in {"active", "retiring"}
            BY <1>2 DEF LocksLive
        <3>1. v \in LockedRows
            BY DEF LockedRows
        <3>2. v # k /\ v \in Versions /\ keyRow[v] \in {"active", "retiring"}
            BY <1>0, <2>0, <3>1 DEF LocksLive
        <3> QED
            BY <1>1, <3>2
    <2>4. SignsRegistered(r)'
        <3> SUFFICES ASSUME server[r].pc \in {"auditing", "serving"}
                     PROVE  /\ keyRow'[server[r].key] # "none"
                            /\ ~server'[r].excused =>
                                  keyRow'[server[r].key] \in {"active", "retiring"}
            BY <1>2 DEF SignsRegistered
        <3>1. /\ keyRow[server[r].key] # "none" /\ server[r].key \in Versions
              /\ ~server[r].excused => keyRow[server[r].key] \in {"active", "retiring"}
            BY <2>0 DEF SignsRegistered, KeyRead
        <3> QED
            BY <1>1, <1>2, <3>1
    <2> QED
        BY <2>1, <2>2, <2>3, <2>4
<1>6. ASSUME NEW v \in Versions PROVE AuditCounts(v)'
    <2>0. AuditCounts(v)
        BY DEF AdoptInv
    <2>1. \A o \in KeyServers : Audits(o, v)' <=> Audits(o, v)
        BY <1>2 DEF Audits
    <2>2. keyRow'[v] = "none" <=> keyRow[v] = "none"
        BY <1>0, <1>1
    <2> QED
        BY <1>0, <2>0, <2>1, <2>2 DEF AuditCounts
<1> QED
    BY <1>3, <1>4, <1>5, <1>6 DEF AdoptInv

(* Every step of the adoption keeps the invariant.                         *)
LEMMA AdoptNextStep == AdoptInv /\ [SelfManagedNext]_keyVars => AdoptInv'
<1> SUFFICES ASSUME AdoptInv, [SelfManagedNext]_keyVars PROVE AdoptInv'
    OBVIOUS
<1>1. ASSUME NEW v \in Versions, ChangeSecret(v) \/ RetireRow(v) PROVE AdoptInv'
    BY <1>1, MountStep, RetireRowStep
<1>2. ASSUME NEW r \in KeyServers,
             \/ SyncMount(r) \/ LoadKeyFile(r) \/ LoadCertFile(r)
             \/ AdoptInsert(r) \/ DemoteBegin(r) \/ DemoteRows(r) \/ AdoptCommit(r)
             \/ AuditAdoption(r) \/ Redeploy(r) \/ StartBreaks(r)
      PROVE  AdoptInv'
    BY <1>2, MountStep, LoadStep, AdoptInsertStep, DemoteKeysStep, AdoptCommitStep, StopStep
<1>3. CASE UNCHANGED keyVars
    <2>1. /\ keyRow' = keyRow /\ server' = server /\ audits' = audits /\ demoted' = demoted
          /\ unaudited' = unaudited /\ secret' = secret /\ mounted' = mounted
        BY <1>3 DEF keyVars
    <2>2. AdoptTypes' /\ DemotedStay'
        BY <2>1 DEF AdoptInv, AdoptTypes, DemotedStay
    <2>3. \A r \in KeyServers : KeyRead(r)' /\ InsertsAlone(r)' /\ LocksLive(r)' /\ SignsRegistered(r)'
        BY <2>1 DEF AdoptInv, KeyRead, InsertsAlone, LocksLive, SignsRegistered
    <2>4. \A v \in Versions : AuditCounts(v)'
        BY <2>1 DEF AdoptInv, AuditCounts, Audits
    <2> QED
        BY <2>2, <2>3, <2>4 DEF AdoptInv
<1> QED
    BY <1>1, <1>2, <1>3 DEF SelfManagedNext

(* While replicas with different files start, restart and die in any       *)
(* order, what signs is in the bundle, what was replaced is not active     *)
(* again, and an adoption is audited once (keyfiles.go: AdoptExternalKeys, *)
(* over AdoptCAKey), for every number of replicas and keys.                *)
THEOREM AdoptionSoundAlways == SelfManagedSpec => []AdoptionSound
<1> QED
    BY InitAdoptInv, AdoptNextStep, AdoptInvSound, PTL DEF SelfManagedSpec

-----------------------------------------------------------------------------
(* The rate limiter.                                                       *)

LEMMA RateConstants ==
    /\ Unit \in Nat \ {0} /\ RequestRate \in Nat \ {0} /\ FailureRate \in Nat \ {0}
    /\ Burst \in Nat /\ FailureBurst \in Nat /\ ClientIdleTTL \in Nat
    /\ MaxLag \in Nat /\ MaxHandling \in Nat
    /\ IsFiniteSet(Requests) /\ Cardinality(Requests) \in Nat
BY RateAssumption, FS_CardinalityType

(* Products grow with their factors.                                       *)
LEMMA Scaled ==
    ASSUME NEW m \in Nat, NEW a \in Int, NEW b \in Int, a <= b
    PROVE  m * a <= m * b /\ m * a \in Int /\ m * b \in Int
OBVIOUS

Buckets == [tokens : Int, last : Nat \cup {Zero}]

Entries == [requests : Buckets, failures : Buckets, lastSeen : Nat \cup {Zero}]

(* The stamp t of a request that holds the lock at n.                      *)
Recent(t, n) == t \in Nat /\ t <= n /\ n - t <= MaxLag

(* When the accounting began, after a request stamped t.                   *)
Since(s, t) == IF s = Zero \/ t < s THEN t ELSE s

(* The request bucket b of a client accounted since s, at n: what was      *)
(* admitted and what is left are within burst and rate; a refill with an   *)
(* older time may leave a debt, which time pays.  Without a bucket, what   *)
(* was admitted has been refilled whatever the stamp of the next request.  *)
GrantOK(b, s, g, n) ==
    IF b.last = Zero
    THEN g = 0 \/ (s # Zero /\ g * Unit <= RequestRate * (n - MaxLag - s))
    ELSE /\ s # Zero
         /\ g * Unit + b.tokens <= Burst + RequestRate * (b.last - s)
         /\ b.tokens + RequestRate * (n - b.last) >= 0
         /\ b.tokens + RequestRate * MaxLag >= 0

LEMMA GrantTick ==
    ASSUME NEW b \in Buckets, NEW s \in Nat \cup {Zero}, NEW g \in Nat, NEW n \in Nat,
           GrantOK(b, s, g, n)
    PROVE  GrantOK(b, s, g, n + 1)
<1> USE RateConstants DEF Zero
<1>1. b.tokens \in Int /\ b.last \in Int /\ s \in Int
    BY DEF Buckets
<1>2. RequestRate * (n - MaxLag - s) <= RequestRate * (n + 1 - MaxLag - s)
    BY <1>1, Scaled
<1>3. RequestRate * (n - b.last) <= RequestRate * (n + 1 - b.last)
    BY <1>1, Scaled
<1>4. RequestRate * (n - MaxLag - s) \in Int /\ RequestRate * (n + 1 - MaxLag - s) \in Int
      /\ RequestRate * (n - b.last) \in Int /\ RequestRate * (n + 1 - b.last) \in Int
    BY <1>1
<1> QED
    BY <1>1, <1>2, <1>3, <1>4 DEF GrantOK

(* A request moves the start of the accounting to its stamp, if that is    *)
(* older.                                                                  *)
LEMMA GrantSince ==
    ASSUME NEW b \in Buckets, NEW s \in Nat \cup {Zero}, NEW g \in Nat, NEW n \in Nat,
           NEW t, Recent(t, n), GrantOK(b, s, g, n)
    PROVE  GrantOK(b, Since(s, t), g, n)
<1> USE RateConstants DEF Zero
<1>1. b.tokens \in Int /\ b.last \in Int /\ s \in Int /\ t \in Nat
    BY DEF Buckets, Recent
<1>2. CASE s # Zero /\ t >= s
    BY <1>1, <1>2 DEF Since
<1>3. CASE s = Zero
    BY <1>1, <1>3 DEF GrantOK, Since
<1>4. CASE s # Zero /\ t < s
    <2>1. Since(s, t) = t /\ t # Zero
        BY <1>1, <1>4 DEF Since
    <2>2. RequestRate * (b.last - s) <= RequestRate * (b.last - t)
        BY <1>1, <1>4, Scaled
    <2>3. RequestRate * (n - MaxLag - s) <= RequestRate * (n - MaxLag - t)
        BY <1>1, <1>4, Scaled
    <2>4. RequestRate * (b.last - s) \in Int /\ RequestRate * (b.last - t) \in Int
          /\ RequestRate * (n - MaxLag - s) \in Int /\ RequestRate * (n - MaxLag - t) \in Int
        BY <1>1
    <2> QED
        BY <1>1, <1>4, <2>1, <2>2, <2>3, <2>4 DEF GrantOK
<1> QED
    BY <1>2, <1>3, <1>4, <1>1

(* The lock is taken with stamp t: the bucket is refilled.                 *)
LEMMA GrantRefill ==
    ASSUME NEW b \in Buckets, NEW s \in Nat \cup {Zero}, NEW g \in Nat, NEW n \in Nat,
           NEW t, Recent(t, n), GrantOK(b, s, g, n)
    PROVE  /\ refill(b, t, RequestRate, Burst) \in Buckets
           /\ GrantOK(refill(b, t, RequestRate, Burst), Since(s, t), g, n)
<1> USE RateConstants DEF Zero
<1> DEFINE a == refill(b, t, RequestRate, Burst)
           z == Since(s, t)
<1>1. b.tokens \in Int /\ b.last \in Int /\ s \in Int /\ t \in Nat /\ n - t <= MaxLag /\ t <= n
    BY DEF Buckets, Recent
<1>2. z \in Nat /\ z <= t /\ z # Zero /\ GrantOK(b, z, g, n)
    BY <1>1, GrantSince DEF Since
<1>3. /\ a.last = t /\ t # Zero
      /\ b.last = Zero => a.tokens = Burst
      /\ b.last # Zero => a.tokens = Smaller(Burst, b.tokens + (t - b.last) * RequestRate)
    BY <1>1 DEF refill
<1>4. /\ b.tokens + (t - b.last) * RequestRate \in Int /\ a \in Buckets
    BY <1>1 DEF refill, Buckets, Smaller
<1>5. /\ RequestRate * (t - z) \in Int /\ RequestRate * (t - z) >= 0
      /\ RequestRate * (n - t) \in Int /\ RequestRate * (n - t) >= 0
      /\ RequestRate * (n - t) <= RequestRate * MaxLag
      /\ RequestRate * MaxLag \in Nat
    <2>1. RequestRate * 0 <= RequestRate * (t - z) /\ RequestRate * 0 <= RequestRate * (n - t)
        BY <1>1, <1>2, Scaled
    <2>2. RequestRate * (n - t) <= RequestRate * MaxLag
        BY <1>1, Scaled
    <2> QED
        BY <1>1, <1>2, <2>1, <2>2
<1>6. CASE b.last = Zero
    <2>1. g * Unit <= RequestRate * (t - z)
        <3>1. CASE g = 0
            BY <1>5, <3>1
        <3>2. CASE g * Unit <= RequestRate * (n - MaxLag - z)
            <4>1. RequestRate * (n - MaxLag - z) <= RequestRate * (t - z)
                BY <1>1, <1>2, Scaled
            <4> QED
                BY <1>1, <1>2, <3>2, <4>1
        <3> QED
            BY <1>2, <1>6, <3>1, <3>2 DEF GrantOK
    <2> HIDE DEF a, z
    <2> QED
        BY <1>2, <1>3, <1>4, <1>5, <1>6, <2>1 DEF GrantOK, a, z
<1>7. CASE b.last # Zero
    <2>1. /\ g * Unit + b.tokens <= Burst + RequestRate * (b.last - z)
          /\ b.tokens + RequestRate * (n - b.last) >= 0
        BY <1>2, <1>7 DEF GrantOK
    <2>2. a.tokens \in Int /\ a.tokens <= b.tokens + (t - b.last) * RequestRate
          /\ (a.tokens = Burst \/ a.tokens = b.tokens + (t - b.last) * RequestRate)
        BY <1>3, <1>4, <1>7 DEF Smaller, Buckets
    <2> DEFINE p == RequestRate * (t - b.last)
    <2>3. /\ p \in Int /\ (t - b.last) * RequestRate = p
          /\ RequestRate * (t - z) = RequestRate * (b.last - z) + p
          /\ RequestRate * (n - b.last) = RequestRate * (n - t) + p
          /\ RequestRate * (b.last - z) \in Int /\ g * Unit \in Nat
        BY <1>1, <1>2
    <2> HIDE DEF p
    <2>4. g * Unit + a.tokens <= Burst + RequestRate * (t - z)
        BY <1>1, <2>1, <2>2, <2>3
    <2>5. a.tokens + RequestRate * (n - t) >= 0 /\ a.tokens + RequestRate * MaxLag >= 0
        BY <1>1, <1>5, <2>1, <2>2, <2>3
    <2> QED
        BY <1>2, <1>3, <1>4, <2>4, <2>5 DEF GrantOK
<1> QED
    BY <1>4, <1>6, <1>7

(* A token is taken.                                                       *)
LEMMA GrantTake ==
    ASSUME NEW b \in Buckets, NEW s \in Nat \cup {Zero}, NEW g \in Nat, NEW n \in Nat,
           b.last # Zero, b.last <= n, b.tokens >= Unit, GrantOK(b, s, g, n)
    PROVE  take(b) \in Buckets /\ take(b).last = b.last /\ GrantOK(take(b), s, g + 1, n)
<1> USE RateConstants DEF Zero
<1>1. b.tokens \in Int /\ b.last \in Nat /\ s \in Int
    BY DEF Buckets
<1>2. take(b) \in Buckets /\ take(b).last = b.last /\ take(b).tokens = b.tokens - Unit
    BY <1>1 DEF take, Buckets
<1>3. (g + 1) * Unit = g * Unit + Unit /\ g * Unit \in Nat
    OBVIOUS
<1>4. /\ RequestRate * (b.last - s) \in Int /\ RequestRate * MaxLag \in Nat
      /\ RequestRate * (n - b.last) \in Int /\ RequestRate * 0 <= RequestRate * (n - b.last)
    BY <1>1, Scaled
<1> QED
    BY <1>1, <1>2, <1>3, <1>4 DEF GrantOK

(* An idle entry goes: by then all was refilled.                           *)
LEMMA GrantDrop ==
    ASSUME NEW b \in Buckets, NEW s \in Nat \cup {Zero}, NEW g \in Nat, NEW n \in Nat,
           b.last # Zero => n - b.last > ClientIdleTTL, GrantOK(b, s, g, n)
    PROVE  GrantOK(NewBucket, s, g, n)
<1> USE RateConstants DEF Zero
<1>1. b.tokens \in Int /\ b.last \in Int /\ s \in Int /\ NewBucket.last = Zero
    BY DEF Buckets, NewBucket
<1>2. CASE b.last = Zero
    BY <1>1, <1>2 DEF GrantOK
<1>3. CASE b.last # Zero
    <2> DEFINE p == RequestRate * (b.last - s)
               q == RequestRate * (ClientIdleTTL + 1 - 2 * MaxLag)
               l == RequestRate * MaxLag
    <2>1. /\ s # Zero /\ g * Unit + b.tokens <= Burst + p /\ b.tokens + l >= 0
        BY <1>3 DEF GrantOK
    <2>2. q >= Burst
        BY RateAssumption
    <2>3. RequestRate * (b.last + ClientIdleTTL + 1 - MaxLag - s)
             <= RequestRate * (n - MaxLag - s)
        BY <1>1, <1>3, Scaled
    <2>4. RequestRate * (b.last + ClientIdleTTL + 1 - MaxLag - s) = p + q + l
        BY <1>1
    <2>6. p \in Int /\ q \in Int /\ l \in Int
        BY <1>1
    <2>7. g * Unit \in Nat /\ RequestRate * (n - MaxLag - s) \in Int
        BY <1>1
    <2> HIDE DEF p, q, l
    <2>5. g * Unit <= RequestRate * (n - MaxLag - s)
        BY <1>1, <2>1, <2>2, <2>3, <2>4, <2>6, <2>7
    <2> QED
        BY <1>1, <2>1, <2>5 DEF GrantOK
<1> QED
    BY <1>2, <1>3

(* The first part of BudgetsHold.                                          *)
LEMMA GrantBound ==
    ASSUME NEW b \in Buckets, NEW s \in Nat \cup {Zero}, NEW g \in Nat, NEW n \in Nat,
           GrantOK(b, s, g, n), s <= n
    PROVE  g * Unit <= Burst + RequestRate * (IF s = Zero THEN 0 ELSE n - s)
<1> USE RateConstants DEF Zero
<1>1. b.tokens \in Int /\ b.last \in Int /\ s \in Int /\ g * Unit \in Nat
    BY DEF Buckets
<1>2. CASE g = 0
    BY <1>1, <1>2
<1>3. CASE b.last = Zero /\ g # 0
    <2>1. s # Zero /\ g * Unit <= RequestRate * (n - MaxLag - s)
        BY <1>3 DEF GrantOK
    <2>2. RequestRate * (n - MaxLag - s) <= RequestRate * (n - s)
        BY <1>1, Scaled
    <2>3. RequestRate * (n - MaxLag - s) \in Int /\ RequestRate * (n - s) \in Int
        BY <1>1
    <2> QED
        BY <1>1, <2>1, <2>2, <2>3
<1>4. CASE b.last # Zero
    <2>1. /\ s # Zero /\ g * Unit + b.tokens <= Burst + RequestRate * (b.last - s)
          /\ b.tokens + RequestRate * (n - b.last) >= 0
        BY <1>4 DEF GrantOK
    <2>2. /\ RequestRate * (b.last - s) + RequestRate * (n - b.last) = RequestRate * (n - s)
          /\ RequestRate * (b.last - s) \in Int /\ RequestRate * (n - b.last) \in Int
        BY <1>1
    <2> QED
        BY <1>1, <2>1, <2>2
<1> QED
    BY <1>2, <1>3, <1>4

-----------------------------------------------------------------------------
(* The failure budget.  What a bucket is worth at a time it is refilled    *)
(* with, and what has been debited from it since s.                        *)
Worth(b, t) == b.tokens + FailureRate * (t - b.last)

Debited(b, s) == FailureBurst + FailureRate * (b.last - s) - b.tokens

Slots == Cardinality(Requests)

(* y rejected answers for d debited, Slots for every token.                *)
Paid(y, d) == y * Unit <= Slots * d

(* y rejected answers are accounted for, Slots for every token debited; an *)
(* older refill may leave a debt, which is paid at n and by the time the   *)
(* entry is idle.                                                          *)
FailOK(b, seen, s, y, n) ==
    /\ Paid(y, Debited(b, s))
    /\ Worth(b, n) >= 0
    /\ Worth(b, seen + MaxLag + MaxHandling) >= 0

LEMMA SlotsNat == Slots \in Nat
BY RateConstants DEF Slots

LEMMA WorthType ==
    ASSUME NEW b \in Buckets, NEW t \in Int
    PROVE  Worth(b, t) \in Int /\ b.tokens \in Int /\ b.last \in Int
<1>1. b.tokens \in Int /\ b.last \in Int
    BY DEF Buckets, Zero
<1>2. FailureRate * (t - b.last) \in Int
    BY <1>1, RateConstants
<1> QED
    BY <1>1, <1>2 DEF Worth

LEMMA DebitedType ==
    ASSUME NEW b \in Buckets, NEW s \in Int
    PROVE  Debited(b, s) \in Int
<1>1. b.tokens \in Int /\ b.last \in Int
    BY DEF Buckets, Zero
<1>2. FailureRate * (b.last - s) \in Int
    BY <1>1, RateConstants
<1> QED
    BY <1>1, <1>2, RateConstants DEF Debited

LEMMA DebitedAndWorth ==
    ASSUME NEW b \in Buckets, NEW t \in Int, NEW s \in Int
    PROVE  /\ Debited(b, s) + Worth(b, t) = FailureBurst + FailureRate * (t - s)
           /\ FailureRate * (t - s) \in Int
<1> USE RateConstants DEF Zero
<1>1. b.tokens \in Int /\ b.last \in Int
    BY DEF Buckets
<1>2. /\ FailureRate * (t - b.last) \in Int /\ FailureRate * (b.last - s) \in Int
      /\ FailureRate * (t - s) \in Int
      /\ FailureRate * (t - b.last) + FailureRate * (b.last - s) = FailureRate * (t - s)
    BY <1>1
<1> QED
    BY <1>1, <1>2 DEF Worth, Debited

LEMMA WorthGrows ==
    ASSUME NEW b \in Buckets, NEW t \in Int, NEW u \in Int, t <= u
    PROVE  Worth(b, t) <= Worth(b, u)
<1> USE RateConstants DEF Zero
<1>1. b.tokens \in Int /\ b.last \in Int
    BY DEF Buckets
<1>2. FailureRate * (t - b.last) <= FailureRate * (u - b.last)
    BY <1>1, Scaled
<1>3. FailureRate * (t - b.last) \in Int /\ FailureRate * (u - b.last) \in Int
    BY <1>1
<1> QED
    BY <1>1, <1>2, <1>3 DEF Worth

(* What has been debited counts from an earlier start.                     *)
LEMMA DebitedGrows ==
    ASSUME NEW b \in Buckets, NEW s \in Int, NEW z \in Int, z <= s
    PROVE  Debited(b, s) <= Debited(b, z)
<1> USE RateConstants DEF Zero
<1>1. b.tokens \in Int /\ b.last \in Int
    BY DEF Buckets
<1>2. FailureRate * (b.last - s) <= FailureRate * (b.last - z)
    BY <1>1, Scaled
<1>3. FailureRate * (b.last - s) \in Int /\ FailureRate * (b.last - z) \in Int
    BY <1>1
<1> QED
    BY <1>1, <1>2, <1>3 DEF Debited

LEMMA DebitedBound ==
    ASSUME NEW b \in Buckets, NEW s \in Int, NEW z \in Int, NEW y \in Int,
           y * Unit <= Slots * Debited(b, s), z <= s
    PROVE  y * Unit <= Slots * Debited(b, z)
<1> USE RateConstants, SlotsNat
<1>1. Debited(b, s) \in Int /\ Debited(b, z) \in Int /\ Debited(b, s) <= Debited(b, z)
    BY DebitedType, DebitedGrows
<1>2. Slots * Debited(b, s) <= Slots * Debited(b, z)
      /\ Slots * Debited(b, s) \in Int /\ Slots * Debited(b, z) \in Int
    BY <1>1, Scaled
<1>3. y * Unit \in Int
    OBVIOUS
<1> QED
    BY <1>2, <1>3

(* A full bucket is worth a token for every request in flight.             *)
LEMMA FullBucket ==
    ASSUME NEW b \in Buckets, b.tokens = FailureBurst, b.last \in Nat,
           NEW t \in Int, b.last - t <= MaxLag
    PROVE  Worth(b, t) >= Unit
<1> USE RateConstants
<1>1. FailureRate * (b.last - t) <= FailureRate * MaxLag
    BY Scaled
<1>2. /\ FailureRate * (t - b.last) = - (FailureRate * (b.last - t))
      /\ FailureRate * (t - b.last) \in Int /\ FailureRate * (b.last - t) \in Int
      /\ FailureRate * MaxLag \in Nat
    OBVIOUS
<1>3. FailureBurst >= Unit + FailureRate * MaxLag
    BY RateAssumption
<1> QED
    BY <1>1, <1>2, <1>3 DEF Worth

(* A refill leaves what the bucket is worth at any time as it was, unless  *)
(* it fills the bucket; it never lessens what counts as debited.           *)
LEMMA FailRefill ==
    ASSUME NEW b \in Buckets, NEW t \in Nat
    PROVE  LET a == refill(b, t, FailureRate, FailureBurst)
           IN /\ a \in Buckets /\ a.last = t /\ a.last # Zero
              /\ b.last = Zero => a.tokens = FailureBurst
              /\ b.last # Zero =>
                    /\ \A s \in Int : Debited(b, s) <= Debited(a, s)
                    /\ \/ a.tokens = FailureBurst
                       \/ \A x \in Int : Worth(a, x) = Worth(b, x)
<1> USE RateConstants DEF Zero
<1> DEFINE a == refill(b, t, FailureRate, FailureBurst)
           p == (t - b.last) * FailureRate
<1>1. b.tokens \in Int /\ b.last \in Int
    BY DEF Buckets
<1>2. p \in Int
    BY <1>1
<1>3. /\ a.last = t /\ a.last # Zero
      /\ b.last = Zero => a.tokens = FailureBurst
      /\ b.last # Zero => a.tokens = Smaller(FailureBurst, b.tokens + p)
    BY <1>1 DEF refill
<1>4. a \in Buckets
    BY <1>1, <1>2 DEF refill, Buckets, Smaller
<1>5. b.last # Zero => /\ a.tokens \in Int /\ a.tokens <= b.tokens + p
                       /\ a.tokens = FailureBurst \/ a.tokens = b.tokens + p
    BY <1>1, <1>2, <1>3 DEF Smaller
<1>6. ASSUME NEW s \in Int PROVE FailureRate * (t - s) = FailureRate * (b.last - s) + p
    BY <1>1
<1>7. \A s \in Int : FailureRate * (t - s) \in Int /\ FailureRate * (b.last - s) \in Int
    BY <1>1
<1>8. ASSUME NEW x \in Int PROVE FailureRate * (x - b.last) = FailureRate * (x - t) + p
    BY <1>1
<1>9. \A x \in Int : FailureRate * (x - t) \in Int /\ FailureRate * (x - b.last) \in Int
    BY <1>1
<1> HIDE DEF a, p
<1>10. ASSUME b.last # Zero, NEW s \in Int PROVE Debited(b, s) <= Debited(a, s)
    <2> DEFINE u == FailureRate * (t - s)
               v == FailureRate * (b.last - s)
    <2>1. u \in Int /\ v \in Int /\ u = v + p
        BY <1>6, <1>7
    <2>2. Debited(a, s) = FailureBurst + u - a.tokens /\ Debited(b, s) = FailureBurst + v - b.tokens
        BY <1>3 DEF Debited
    <2> HIDE DEF u, v
    <2> QED
        BY <1>1, <1>2, <1>5, <1>10, <2>1, <2>2
<1>11. ASSUME b.last # Zero, a.tokens = b.tokens + p, NEW x \in Int
       PROVE  Worth(a, x) = Worth(b, x)
    BY <1>1, <1>2, <1>3, <1>8, <1>9, <1>11 DEF Worth
<1> QED
    BY <1>3, <1>4, <1>5, <1>10, <1>11 DEF a

(* A token is taken from the failure bucket, if it has one.                *)
LEMMA FailTake ==
    ASSUME NEW b \in Buckets
    PROVE  LET a == take(b)
           IN /\ a \in Buckets /\ a.last = b.last
              /\ b.tokens < Unit => a = b
              /\ b.tokens >= Unit =>
                    /\ a.tokens = b.tokens - Unit
                    /\ \A s \in Int : Debited(a, s) = Debited(b, s) + Unit
<1> USE RateConstants DEF Zero
<1> DEFINE a == take(b)
<1>1. b.tokens \in Int /\ b.last \in Int
    BY DEF Buckets
<1>2. a \in Buckets /\ a.last = b.last /\ (b.tokens < Unit => a = b)
      /\ (b.tokens >= Unit => a.tokens = b.tokens - Unit)
    BY <1>1 DEF take, Buckets
<1>3. \A s \in Int : FailureRate * (b.last - s) \in Int
    BY <1>1
<1> HIDE DEF a
<1>4. ASSUME b.tokens >= Unit, NEW s \in Int PROVE Debited(a, s) = Debited(b, s) + Unit
    BY <1>1, <1>2, <1>3, <1>4 DEF Debited
<1> QED
    BY <1>2, <1>4 DEF a

-----------------------------------------------------------------------------
(* The requests in flight of a client, and those among them whose failure  *)
(* the bucket would not be debited for, were it recorded now.              *)
Flights == [pc : {"idle", "arrived", "handling", "rejected"},
            key : Clients \cup {NoRequest.key}, at : Nat]

FlightOK(x, n) ==
    /\ x.at <= n
    /\ x.pc # "idle" => x.key \in Clients
    /\ x.pc \in {"arrived", "rejected"} => n - x.at <= MaxLag
    /\ x.pc = "handling" => n - x.at <= MaxHandling

Handled(c, q) == {r \in Requests : q[r].pc = "handling" /\ q[r].key = c}

Rejected(c, q) == {r \in Requests : q[r].pc = "rejected" /\ q[r].key = c}

Exposed(b, c, q, n) ==
    {r \in Requests : \/ r \in Handled(c, q) /\ Worth(b, n) < Unit
                      \/ r \in Rejected(c, q) /\ Worth(b, q[r].at) < Unit}

(* The rejected answers that what was debited has to account for: those    *)
(* recorded, and those whose record will debit nothing.                    *)
Charged(b, c, f, q, n) == f - Cardinality(Rejected(c, q)) + Cardinality(Exposed(b, c, q, n))

(* An entry of the map: a request in flight keeps it from being idle.      *)
TrackedOK(c, e, s, f, q, n) ==
    /\ s \in Nat /\ e.lastSeen \in Nat /\ e.failures.last \in Nat
    /\ e.requests.last \in {Zero, e.lastSeen}
    /\ \A r \in Handled(c, q) : q[r].at - MaxLag <= e.lastSeen
    /\ \A r \in Rejected(c, q) : q[r].at - MaxLag - MaxHandling <= e.lastSeen
    /\ FailOK(e.failures, e.lastSeen, s, Charged(e.failures, c, f, q, n), n)

(* No entry: the client starts over, or all it did was refilled.           *)
DroppedOK(c, s, f, q, n) ==
    /\ s = Zero => f <= Cardinality(Rejected(c, q))
    /\ s # Zero => /\ Handled(c, q) = {} /\ Rejected(c, q) = {}
                   /\ f = 0 \/ f * Unit <= Slots * (FailureRate * (n - MaxLag - s))

ClientOK(c, e, s, g, f, q, n) ==
    /\ s <= n
    /\ GrantOK(e.requests, s, g, n)
    /\ e # NoClient => TrackedOK(c, e, s, f, q, n)
    /\ e = NoClient => DroppedOK(c, s, f, q, n)

LEMMA FlightSets ==
    ASSUME NEW c, NEW q
    PROVE  /\ Handled(c, q) \subseteq Requests /\ IsFiniteSet(Handled(c, q))
           /\ Rejected(c, q) \subseteq Requests /\ IsFiniteSet(Rejected(c, q))
           /\ Cardinality(Rejected(c, q)) \in Nat /\ Cardinality(Rejected(c, q)) <= Slots
<1>1. Handled(c, q) \subseteq Requests /\ Rejected(c, q) \subseteq Requests
    BY DEF Handled, Rejected
<1> QED
    BY <1>1, RateConstants, FS_Subset, FS_CardinalityType DEF Slots

LEMMA ExposedSet ==
    ASSUME NEW b, NEW c, NEW q, NEW n
    PROVE  /\ Exposed(b, c, q, n) \subseteq Requests /\ IsFiniteSet(Exposed(b, c, q, n))
           /\ Cardinality(Exposed(b, c, q, n)) \in Nat
<1>1. Exposed(b, c, q, n) \subseteq Requests
    BY DEF Exposed
<1> QED
    BY <1>1, RateConstants, FS_Subset, FS_CardinalityType

(* Fewer rejected answers to account for.                                  *)
LEMMA FailFewer ==
    ASSUME NEW b \in Buckets, NEW seen, NEW s \in Int, NEW y \in Int, NEW z \in Int, NEW n,
           FailOK(b, seen, s, y, n), z <= y
    PROVE  FailOK(b, seen, s, z, n)
<1> USE RateConstants, SlotsNat
<1>1. Debited(b, s) \in Int
    BY DebitedType
<1>2. Slots * Debited(b, s) \in Int
    BY <1>1
<1>3. Unit * z <= Unit * y /\ Unit * z \in Int /\ Unit * y \in Int
    BY Scaled
<1>4. z * Unit = Unit * z /\ y * Unit = Unit * y
    OBVIOUS
<1> QED
    BY <1>2, <1>3, <1>4 DEF FailOK, Paid

(* A subset of the exposed requests, of the same rejected ones.            *)
LEMMA ChargedFewer ==
    ASSUME NEW b \in Buckets, NEW a \in Buckets, NEW c, NEW f \in Nat, NEW q, NEW p,
           NEW n, NEW m,
           Cardinality(Rejected(c, p)) = Cardinality(Rejected(c, q)),
           Exposed(a, c, p, m) \subseteq Exposed(b, c, q, n)
    PROVE  /\ Charged(a, c, f, p, m) \in Int /\ Charged(b, c, f, q, n) \in Int
           /\ Charged(a, c, f, p, m) <= Charged(b, c, f, q, n)
<1>1. Cardinality(Exposed(a, c, p, m)) <= Cardinality(Exposed(b, c, q, n))
    BY ExposedSet, FS_Subset
<1>2. /\ Cardinality(Exposed(a, c, p, m)) \in Nat /\ Cardinality(Exposed(b, c, q, n)) \in Nat
      /\ Cardinality(Rejected(c, p)) \in Nat /\ Cardinality(Rejected(c, q)) \in Nat
    BY FlightSets, ExposedSet
<1> QED
    BY <1>1, <1>2 DEF Charged

(* Time passes.                                                            *)
LEMMA ClientTick ==
    ASSUME NEW c \in Clients, NEW e \in Entries, NEW s \in Nat \cup {Zero},
           NEW g \in Nat, NEW f \in Nat, NEW q \in [Requests -> Flights], NEW n \in Nat,
           ClientOK(c, e, s, g, f, q, n)
    PROVE  ClientOK(c, e, s, g, f, q, n + 1)
<1> USE RateConstants, SlotsNat DEF Zero
<1>1. e.requests \in Buckets /\ e.failures \in Buckets
    BY DEF Entries
<1>2. s <= n + 1 /\ GrantOK(e.requests, s, g, n + 1)
    BY <1>1, GrantTick DEF ClientOK
<1>3. ASSUME e # NoClient PROVE TrackedOK(c, e, s, f, q, n + 1)
    <2>1. TrackedOK(c, e, s, f, q, n)
        BY <1>3 DEF ClientOK
    <2>2. Worth(e.failures, n) <= Worth(e.failures, n + 1)
          /\ Worth(e.failures, n) \in Int /\ Worth(e.failures, n + 1) \in Int
        <3>1. n \in Int /\ n + 1 \in Int /\ n <= n + 1
            OBVIOUS
        <3> QED
            BY <1>1, <3>1, WorthGrows, WorthType
    <2>3. Exposed(e.failures, c, q, n + 1) \subseteq Exposed(e.failures, c, q, n)
        BY <2>2 DEF Exposed
    <2>4. /\ Charged(e.failures, c, f, q, n) \in Int
          /\ Charged(e.failures, c, f, q, n + 1) \in Int
          /\ Charged(e.failures, c, f, q, n + 1) <= Charged(e.failures, c, f, q, n)
        BY <1>1, <2>3, ChargedFewer
    <2>5. FailOK(e.failures, e.lastSeen, s, Charged(e.failures, c, f, q, n + 1), n)
        BY <1>1, <2>1, <2>4, FailFewer DEF TrackedOK
    <2>6. FailOK(e.failures, e.lastSeen, s, Charged(e.failures, c, f, q, n + 1), n + 1)
        BY <2>2, <2>5 DEF FailOK
    <2> QED
        BY <2>1, <2>6 DEF TrackedOK
<1>4. ASSUME e = NoClient PROVE DroppedOK(c, s, f, q, n + 1)
    <2>1. DroppedOK(c, s, f, q, n)
        BY <1>4 DEF ClientOK
    <2>2. FailureRate * (n - MaxLag - s) <= FailureRate * (n + 1 - MaxLag - s)
          /\ FailureRate * (n - MaxLag - s) \in Int /\ FailureRate * (n + 1 - MaxLag - s) \in Int
        BY Scaled
    <2>3. Slots * (FailureRate * (n - MaxLag - s)) <= Slots * (FailureRate * (n + 1 - MaxLag - s))
          /\ Slots * (FailureRate * (n - MaxLag - s)) \in Int
          /\ Slots * (FailureRate * (n + 1 - MaxLag - s)) \in Int
        BY <2>2, Scaled
    <2>4. f * Unit \in Nat
        OBVIOUS
    <2> QED
        BY <2>1, <2>3, <2>4 DEF DroppedOK
<1> QED
    BY <1>2, <1>3, <1>4 DEF ClientOK

(* A step of a request that neither enters nor leaves the requests in      *)
(* flight of this client.                                                  *)
LEMMA ClientSame ==
    ASSUME NEW c, NEW e, NEW s, NEW g, NEW f, NEW q, NEW p, NEW n,
           Handled(c, p) = Handled(c, q), Rejected(c, p) = Rejected(c, q),
           \A r \in Handled(c, q) \cup Rejected(c, q) : p[r].at = q[r].at,
           ClientOK(c, e, s, g, f, q, n)
    PROVE  ClientOK(c, e, s, g, f, p, n)
<1>1. Exposed(e.failures, c, p, n) = Exposed(e.failures, c, q, n)
    BY DEF Exposed
<1>2. Charged(e.failures, c, f, p, n) = Charged(e.failures, c, f, q, n)
    BY <1>1 DEF Charged
<1>3. TrackedOK(c, e, s, f, q, n) => TrackedOK(c, e, s, f, p, n)
    BY <1>2 DEF TrackedOK
<1>4. DroppedOK(c, s, f, q, n) => DroppedOK(c, s, f, p, n)
    BY DEF DroppedOK
<1> QED
    BY <1>3, <1>4 DEF ClientOK

(* An entry dropped while the client is active.                            *)
LEMMA ClientForgotten ==
    ASSUME NEW c, NEW q, NEW n \in Nat
    PROVE  ClientOK(c, NoClient, Zero, 0, 0, q, n)
<1>1. GrantOK(NoClient.requests, Zero, 0, n)
    BY DEF GrantOK, NoClient, NewBucket
<1>2. DroppedOK(c, Zero, 0, q, n)
    <2>1. Cardinality(Rejected(c, q)) \in Nat
        BY FlightSets
    <2> QED
        BY <2>1 DEF DroppedOK
<1> QED
    BY <1>1, <1>2 DEF ClientOK, Zero

(* An idle entry dropped: by then the client has nothing in flight and all *)
(* its failures were refilled.                                             *)
LEMMA ClientIdle ==
    ASSUME NEW c \in Clients, NEW e \in Entries, NEW s \in Nat \cup {Zero},
           NEW g \in Nat, NEW f \in Nat, NEW q \in [Requests -> Flights], NEW n \in Nat,
           \A r \in Requests : FlightOK(q[r], n),
           e # NoClient, n - e.lastSeen > ClientIdleTTL,
           ClientOK(c, e, s, g, f, q, n)
    PROVE  ClientOK(c, NoClient, s, g, f, q, n)
<1> USE RateConstants, SlotsNat DEF Zero
<1> DEFINE b == e.failures
           seen == e.lastSeen
           late == seen + MaxLag + MaxHandling
<1>1. e.requests \in Buckets /\ b \in Buckets
    BY DEF Entries
<1>2. TrackedOK(c, e, s, f, q, n)
    BY DEF ClientOK
<1>3. s \in Nat /\ seen \in Nat /\ b.last \in Nat /\ e.requests.last \in {Zero, seen}
    BY <1>2 DEF TrackedOK
<1>4. GrantOK(NoClient.requests, s, g, n)
    <2>1. GrantOK(NewBucket, s, g, n)
        BY <1>1, <1>3, GrantDrop DEF ClientOK
    <2> QED
        BY <2>1 DEF NoClient
<1>5. ClientIdleTTL >= 2 * MaxLag + MaxHandling
    <2> DEFINE w == ClientIdleTTL + 1 - 2 * MaxLag - MaxHandling
    <2>1. FailureRate * w >= FailureBurst /\ FailureBurst >= Unit + FailureRate * MaxLag
        BY RateAssumption
    <2>2. FailureRate * MaxLag \in Nat /\ w \in Int
        OBVIOUS
    <2>3. FailureRate * w \in Int
        BY <2>2
    <2>4. FailureRate * w >= 1
        BY <2>1, <2>2, <2>3
    <2>5. CASE w <= 0
        <3>1. FailureRate * w <= FailureRate * 0
            BY <2>2, <2>5, Scaled
        <3> QED
            BY <2>3, <2>4, <3>1
    <2> QED
        BY <2>2, <2>5
<1>6. Handled(c, q) = {} /\ Rejected(c, q) = {}
    <2>1. ASSUME NEW r \in Handled(c, q) PROVE FALSE
        <3>1. r \in Requests /\ q[r].at \in Nat /\ n - q[r].at <= MaxHandling
            BY DEF Handled, FlightOK, Flights
        <3>2. q[r].at - MaxLag <= seen
            BY <1>2 DEF TrackedOK
        <3> QED
            BY <1>3, <1>5, <3>1, <3>2
    <2>2. ASSUME NEW r \in Rejected(c, q) PROVE FALSE
        <3>1. r \in Requests /\ q[r].at \in Nat /\ n - q[r].at <= MaxLag
            BY DEF Rejected, FlightOK, Flights
        <3>2. q[r].at - MaxLag - MaxHandling <= seen
            BY <1>2 DEF TrackedOK
        <3> QED
            BY <1>3, <1>5, <3>1, <3>2
    <2> QED
        BY <2>1, <2>2
<1>7. Charged(b, c, f, q, n) = f
    <2>1. Exposed(b, c, q, n) = {}
        BY <1>6 DEF Exposed
    <2> QED
        BY <1>6, <2>1, FS_EmptySet DEF Charged
<1>8. f * Unit <= Slots * Debited(b, s) /\ Worth(b, late) >= 0
    BY <1>2, <1>7 DEF TrackedOK, FailOK, Paid
<1>9. Debited(b, s) <= FailureRate * (n - MaxLag - s)
    <2> DEFINE w == ClientIdleTTL + 1 - 2 * MaxLag - MaxHandling
    <2>1. FailureRate * w >= FailureBurst
        BY RateAssumption
    <2>2. /\ Worth(b, late) \in Int /\ Debited(b, s) \in Int
          /\ Debited(b, s) + Worth(b, late) = FailureBurst + FailureRate * (late - s)
          /\ FailureRate * (late - s) \in Int
        <3>1. late \in Int /\ s \in Int
            BY <1>3
        <3> QED
            BY <1>1, <3>1, WorthType, DebitedType, DebitedAndWorth
    <2>3. FailureRate * (w + (late - s)) <= FailureRate * (n - MaxLag - s)
        BY <1>3, Scaled
    <2>4. FailureRate * (w + (late - s)) = FailureRate * w + FailureRate * (late - s)
        BY <1>3
    <2>5. FailureRate * w \in Int /\ FailureRate * (n - MaxLag - s) \in Int
        BY <1>3
    <2> HIDE DEF w, late, b
    <2> QED
        BY <1>8, <2>1, <2>2, <2>3, <2>4, <2>5
<1>10. Slots * Debited(b, s) <= Slots * (FailureRate * (n - MaxLag - s))
       /\ Slots * Debited(b, s) \in Int /\ Slots * (FailureRate * (n - MaxLag - s)) \in Int
    <2>1. Debited(b, s) \in Int /\ FailureRate * (n - MaxLag - s) \in Int
        BY <1>1, <1>3, DebitedType
    <2> QED
        BY <1>9, <2>1, Scaled
<1>11. DroppedOK(c, s, f, q, n)
    <2>1. f * Unit \in Nat
        OBVIOUS
    <2> QED
        BY <1>3, <1>6, <1>8, <1>10, <2>1 DEF DroppedOK
<1> QED
    BY <1>4, <1>11 DEF ClientOK

(* The lock is taken with stamp t and the failure bucket refilled: the     *)
(* rejected answers stay accounted for.                                    *)
LEMMA ClientRefill ==
    ASSUME NEW c \in Clients, NEW e \in Entries, NEW s \in Nat \cup {Zero},
           NEW g \in Nat, NEW f \in Nat, NEW q \in [Requests -> Flights], NEW n \in Nat,
           \A r \in Requests : FlightOK(q[r], n),
           NEW t, Recent(t, n), ClientOK(c, e, s, g, f, q, n)
    PROVE  LET a == refill(e.failures, t, FailureRate, FailureBurst)
           IN /\ a \in Buckets /\ a.last = t
              /\ Charged(a, c, f, q, n) \in Int
              /\ Paid(Charged(a, c, f, q, n), Debited(a, Since(s, t)))
              /\ \A x \in Int : /\ x >= t
                                /\ \/ x >= n
                                   \/ e # NoClient /\ x = e.lastSeen + MaxLag + MaxHandling
                                => Worth(a, x) >= 0
<1> USE RateConstants, SlotsNat DEF Zero
<1> DEFINE b == e.failures
           a == refill(b, t, FailureRate, FailureBurst)
           z == Since(s, t)
           R == Cardinality(Rejected(c, q))
<1>1. b \in Buckets /\ t \in Nat /\ n - t <= MaxLag /\ t <= n
    BY DEF Entries, Recent
<1>2. /\ a \in Buckets /\ a.last = t
      /\ b.last = Zero => a.tokens = FailureBurst
      /\ b.last # Zero => /\ \A x \in Int : Debited(b, x) <= Debited(a, x)
                          /\ \/ a.tokens = FailureBurst
                             \/ \A x \in Int : Worth(a, x) = Worth(b, x)
    BY <1>1, FailRefill
<1>3. z \in Nat /\ z <= t /\ (s # Zero => z <= s)
    BY <1>1 DEF Since
<1>4. R \in Nat /\ Cardinality(Exposed(a, c, q, n)) \in Nat
      /\ Cardinality(Exposed(b, c, q, n)) \in Nat
    BY FlightSets, ExposedSet DEF R
<1>5. Charged(a, c, f, q, n) \in Int /\ Charged(b, c, f, q, n) \in Int
    BY <1>4 DEF Charged, R
<1>6. Debited(a, z) \in Int
    BY <1>2, <1>3, DebitedType
<1> HIDE DEF a, b, z, R
<1>7. ASSUME a.tokens = FailureBurst PROVE Charged(a, c, f, q, n) = f - R
    <2>1. ASSUME NEW r \in Requests, r \in Handled(c, q) PROVE Worth(a, n) >= Unit
        BY <1>1, <1>2, <1>7, FullBucket
    <2>2. ASSUME NEW r \in Requests, r \in Rejected(c, q) PROVE Worth(a, q[r].at) >= Unit
        <3>1. q[r].at \in Nat /\ n - q[r].at <= MaxLag
            BY <2>2 DEF Rejected, FlightOK, Flights
        <3>2. q[r].at \in Int /\ a.last - q[r].at <= MaxLag
            BY <1>1, <1>2, <3>1
        <3> QED
            BY <1>1, <1>2, <1>7, <3>2, FullBucket
    <2>3. ASSUME NEW r \in Requests, r \in Rejected(c, q) PROVE Worth(a, q[r].at) \in Int
        BY <1>2, <2>3, WorthType DEF Flights
    <2>4. Worth(a, n) \in Int
        BY <1>2, WorthType
    <2>5. Exposed(a, c, q, n) = {}
        BY <2>1, <2>2, <2>3, <2>4 DEF Exposed
    <2> QED
        BY <1>4, <2>5, FS_EmptySet DEF Charged, R
<1>8. ASSUME a.tokens = FailureBurst, NEW x \in Int, x >= t PROVE Worth(a, x) >= 0
    BY <1>1, <1>2, <1>8, FullBucket, WorthType
<1>9. CASE e # NoClient
    <2>1. /\ TrackedOK(c, e, s, f, q, n) /\ s \in Nat /\ b.last # Zero
          /\ FailOK(b, e.lastSeen, s, Charged(b, c, f, q, n), n)
          /\ e.lastSeen \in Nat
        BY <1>9 DEF ClientOK, TrackedOK, b
    <2>2. Charged(a, c, f, q, n) <= Charged(b, c, f, q, n)
        <3>1. CASE a.tokens = FailureBurst
            BY <1>4, <1>7, <3>1 DEF Charged, R
        <3>2. CASE \A x \in Int : Worth(a, x) = Worth(b, x)
            <4>1. Exposed(a, c, q, n) = Exposed(b, c, q, n)
                <5>1. \A r \in Requests : q[r].at \in Int
                    BY DEF Flights
                <5> QED
                    BY <3>2, <5>1 DEF Exposed
            <4> QED
                BY <1>5, <4>1 DEF Charged
        <3> QED
            BY <1>2, <2>1, <3>1, <3>2
    <2>3. Charged(a, c, f, q, n) * Unit <= Slots * Debited(b, s)
        <3>1. FailOK(b, e.lastSeen, s, Charged(a, c, f, q, n), n)
            BY <1>1, <1>5, <2>1, <2>2, FailFewer
        <3> QED
            BY <3>1 DEF FailOK, Paid
    <2>4. Debited(b, s) \in Int /\ Debited(a, s) \in Int /\ Debited(b, s) <= Debited(a, s)
        BY <1>1, <1>2, <2>1, DebitedType
    <2>5. Slots * Debited(b, s) <= Slots * Debited(a, s)
          /\ Slots * Debited(b, s) \in Int /\ Slots * Debited(a, s) \in Int
        BY <2>4, Scaled
    <2>6. Charged(a, c, f, q, n) * Unit <= Slots * Debited(a, s)
        BY <1>5, <2>3, <2>5
    <2>7. Charged(a, c, f, q, n) * Unit <= Slots * Debited(a, z)
        <3>1. s \in Int /\ z \in Int /\ z <= s /\ a \in Buckets
            BY <1>2, <1>3, <2>1
        <3> QED
            BY <1>5, <2>6, <3>1, DebitedBound
    <2>8. ASSUME NEW x \in Int, x >= t,
                 x >= n \/ x = e.lastSeen + MaxLag + MaxHandling
          PROVE  Worth(a, x) >= 0
        <3>1. CASE a.tokens = FailureBurst
            BY <1>8, <2>8, <3>1
        <3>2. CASE \A y \in Int : Worth(a, y) = Worth(b, y)
            <4>1. CASE x = e.lastSeen + MaxLag + MaxHandling
                BY <2>1, <3>2, <4>1 DEF FailOK
            <4>2. CASE x >= n
                <5>1. /\ Worth(b, n) <= Worth(b, x) /\ Worth(b, n) \in Int /\ Worth(b, x) \in Int
                    BY <1>1, <4>2, WorthGrows, WorthType
                <5> QED
                    BY <2>1, <3>2, <5>1 DEF FailOK
            <4> QED
                BY <2>8, <4>1, <4>2
        <3> QED
            BY <1>2, <2>1, <3>1, <3>2
    <2> QED
        BY <1>2, <1>5, <2>7, <2>8 DEF a, b, z, Paid
<1>10. CASE e = NoClient
    <2>1. b.last = Zero /\ DroppedOK(c, s, f, q, n)
        BY <1>10 DEF ClientOK, NoClient, NewBucket, b
    <2>2. a.tokens = FailureBurst /\ Charged(a, c, f, q, n) = f - R
        BY <1>2, <1>7, <2>1
    <2>3. Debited(a, z) = FailureRate * (t - z)
        <3>1. FailureRate * (t - z) \in Int
            BY <1>1, <1>3
        <3> QED
            BY <1>2, <2>2, <3>1 DEF Debited
    <2>4. (f - R) * Unit <= Slots * (FailureRate * (t - z))
        <3>1. FailureRate * 0 <= FailureRate * (t - z) /\ FailureRate * (t - z) \in Int
            BY <1>1, <1>3, Scaled
        <3>2. Slots * 0 <= Slots * (FailureRate * (t - z))
              /\ Slots * (FailureRate * (t - z)) \in Int
            BY <3>1, Scaled
        <3>3. CASE f - R <= 0
            <4>1. Unit * (f - R) <= Unit * 0 /\ Unit * (f - R) \in Int
                BY <1>4, <3>3, Scaled
            <4>2. (f - R) * Unit = Unit * (f - R)
                BY <1>4
            <4> QED
                BY <3>2, <4>1, <4>2
        <3>4. CASE s # Zero /\ R = 0 /\ f * Unit <= Slots * (FailureRate * (n - MaxLag - s))
            <4>1. n - MaxLag - s <= t - z /\ n - MaxLag - s \in Int /\ t - z \in Int
                BY <1>1, <1>3, <3>4
            <4>2. FailureRate * (n - MaxLag - s) <= FailureRate * (t - z)
                  /\ FailureRate * (n - MaxLag - s) \in Int
                BY <4>1, Scaled
            <4>3. Slots * (FailureRate * (n - MaxLag - s)) <= Slots * (FailureRate * (t - z))
                  /\ Slots * (FailureRate * (n - MaxLag - s)) \in Int
                BY <3>1, <4>2, Scaled
            <4>4. f * Unit \in Nat /\ f - R = f
                BY <3>4
            <4> QED
                BY <3>2, <3>4, <4>3, <4>4
        <3>5. s = Zero => f - R <= 0
            BY <1>4, <2>1 DEF DroppedOK, R
        <3>6. s # Zero => R = 0
            BY <2>1, FS_EmptySet DEF DroppedOK, R
        <3> QED
            BY <1>4, <2>1, <3>3, <3>4, <3>5, <3>6 DEF DroppedOK
    <2> QED
        BY <1>2, <1>5, <1>8, <1>10, <2>2, <2>3, <2>4 DEF a, b, z, Paid
<1> QED
    BY <1>9, <1>10

(* What allow makes of the entry and of the request.                       *)
Refilled(e, t) == [requests |-> refill(e.requests, t, RequestRate, Burst),
                   failures |-> refill(e.failures, t, FailureRate, FailureBurst),
                   lastSeen |-> t]

Served(d) == IF Covered(d) THEN [d EXCEPT !.requests = take(@)] ELSE d

Admitted(d) == IF Covered(d) THEN 1 ELSE 0

Passed(k, d, n) == IF Covered(d) THEN [k EXCEPT !.pc = "handling", !.at = n] ELSE NoRequest

(* allow, for the client of the request.                                   *)
LEMMA ClientAllow ==
    ASSUME NEW c \in Clients, NEW e \in Entries, NEW s \in Nat \cup {Zero},
           NEW g \in Nat, NEW f \in Nat, NEW q \in [Requests -> Flights], NEW n \in Nat,
           \A r \in Requests : FlightOK(q[r], n),
           NEW r \in Requests, q[r].pc = "arrived", q[r].key = c,
           ClientOK(c, e, s, g, f, q, n)
    PROVE  LET d == Refilled(e, q[r].at)
           IN /\ Served(d) \in Entries
              /\ ClientOK(c, Served(d), Since(s, q[r].at), g + Admitted(d), f,
                          [q EXCEPT ![r] = Passed(q[r], d, n)], n)
<1> DEFINE d == Refilled(e, q[r].at)
           x == Served(d)
           p == [q EXCEPT ![r] = Passed(q[r], d, n)]
<1> USE RateConstants, SlotsNat DEF Zero
<1> DEFINE t == q[r].at
           z == Since(s, t)
           a == refill(e.failures, t, FailureRate, FailureBurst)
           h == refill(e.requests, t, RequestRate, Burst)
           late == t + MaxLag + MaxHandling
<1>1. t \in Nat /\ t <= n /\ n - t <= MaxLag /\ Recent(t, n)
    BY DEF Flights, FlightOK, Recent
<1>2. e.requests \in Buckets /\ e.failures \in Buckets
    BY DEF Entries
<1>3. z \in Nat /\ z <= n
    BY <1>1 DEF Since
<1>4. h \in Buckets /\ h.last = t /\ GrantOK(h, z, g, n)
    <2>1. GrantOK(e.requests, s, g, n)
        BY DEF ClientOK
    <2>2. h.last = t
        BY DEF refill
    <2> QED
        BY <1>1, <1>2, <2>1, <2>2, GrantRefill
<1>5. /\ a \in Buckets /\ a.last = t
      /\ Charged(a, c, f, q, n) \in Int
      /\ Paid(Charged(a, c, f, q, n), Debited(a, z))
      /\ \A y \in Int : y >= t /\ y >= n => Worth(a, y) >= 0
    <2>1. a \in Buckets /\ a.last = t
        BY <1>1, <1>2, FailRefill
    <2>4. Charged(a, c, f, q, n) \in Int
        <3>1. Cardinality(Rejected(c, q)) \in Nat /\ Cardinality(Exposed(a, c, q, n)) \in Nat
            BY FlightSets, ExposedSet
        <3> QED
            BY <3>1 DEF Charged
    <2>2. Paid(Charged(a, c, f, q, n), Debited(a, z))
        BY <1>1, ClientRefill
    <2>3. \A y \in Int : y >= t /\ y >= n => Worth(a, y) >= 0
        BY <1>1, ClientRefill
    <2> QED
        BY <2>1, <2>2, <2>3, <2>4
<1>6. d = [requests |-> h, failures |-> a, lastSeen |-> t]
    BY DEF Refilled
<1>17. x = IF Covered(d) THEN [d EXCEPT !.requests = take(@)] ELSE d
    BY DEF Served
<1>18. p = [q EXCEPT ![r] = IF Covered(d) THEN [@ EXCEPT !.pc = "handling", !.at = n]
                                         ELSE NoRequest]
    BY DEF Passed
<1>19. /\ Covered(d) => Admitted(d) = 1
       /\ ~Covered(d) => Admitted(d) = 0
    BY DEF Admitted
<1> HIDE DEF a, h, z, d, x, p
<1>7. /\ x \in Entries /\ x.failures = a /\ x.lastSeen = t /\ x.requests.last = t
      /\ GrantOK(x.requests, z, g + Admitted(d), n)
    <2>1. CASE Covered(d)
        <3>1. h.tokens >= Unit
            BY <1>6, <2>1 DEF Covered
        <3>2. take(h) \in Buckets /\ take(h).last = t /\ GrantOK(take(h), z, g + 1, n)
            BY <1>1, <1>3, <1>4, <3>1, GrantTake
        <3>3. x = [requests |-> take(h), failures |-> a, lastSeen |-> t]
            BY <1>6, <1>17, <2>1
        <3> QED
            BY <1>1, <1>5, <1>19, <2>1, <3>2, <3>3 DEF Entries
    <2>2. CASE ~Covered(d)
        <3>1. x = [requests |-> h, failures |-> a, lastSeen |-> t]
            BY <1>6, <1>17, <2>2
        <3>2. g + Admitted(d) = g
            BY <1>19, <2>2
        <3> QED
            BY <1>1, <1>4, <1>5, <3>1, <3>2 DEF Entries
    <2> QED
        BY <2>1, <2>2
<1>8. /\ \A k \in Requests : k # r => p[k] = q[k]
      /\ Covered(d) => p[r].pc = "handling" /\ p[r].key = c /\ p[r].at = n
      /\ ~Covered(d) => p[r].pc = "idle"
    BY <1>18 DEF NoRequest, Flights
<1>9. Rejected(c, p) = Rejected(c, q) /\ Handled(c, p) \subseteq Handled(c, q) \cup {r}
    BY <1>8 DEF Rejected, Handled
<1>10. r \in Handled(c, p) => Worth(a, n) >= Unit
    <2>1. SUFFICES ASSUME Covered(d) PROVE Worth(a, n) >= Unit
        BY <1>8 DEF Handled
    <2>2. a.tokens >= Unit
        BY <1>6, <2>1 DEF Covered
    <2>3. Worth(a, t) <= Worth(a, n) /\ Worth(a, n) \in Int /\ Worth(a, t) \in Int
        BY <1>1, <1>5, WorthGrows, WorthType
    <2>4. Worth(a, t) = a.tokens
        BY <1>1, <1>5, WorthType DEF Worth
    <2> QED
        BY <2>2, <2>3, <2>4
<1>11. Exposed(a, c, p, n) \subseteq Exposed(a, c, q, n)
    <2>1. Worth(a, n) \in Int
        BY <1>5, WorthType
    <2>2. \A k \in Rejected(c, p) : p[k].at = q[k].at
        BY <1>8, <1>9 DEF Rejected
    <2> QED
        <3>1. ASSUME NEW k \in Exposed(a, c, p, n) PROVE k \in Exposed(a, c, q, n)
            <4>1. CASE k \in Handled(c, p) /\ Worth(a, n) < Unit
                <5>1. k # r
                    BY <1>10, <2>1, <4>1
                <5>2. k \in Handled(c, q) /\ k \in Requests
                    BY <1>9, <4>1, <5>1 DEF Handled
                <5> QED
                    BY <4>1, <5>2 DEF Exposed
            <4>2. CASE k \in Rejected(c, p) /\ Worth(a, p[k].at) < Unit
                BY <1>9, <2>2, <4>2 DEF Exposed, Rejected
            <4> QED
                BY <4>1, <4>2 DEF Exposed
        <3> QED
            BY <3>1
<1>12. FailOK(a, t, z, Charged(a, c, f, p, n), n)
    <2>1. Charged(a, c, f, p, n) \in Int /\ Charged(a, c, f, p, n) <= Charged(a, c, f, q, n)
        BY <1>5, <1>9, <1>11, ChargedFewer
    <2>2. late \in Int /\ late >= t /\ late >= n /\ n \in Int /\ n >= t
        BY <1>1
    <2>3. Worth(a, n) >= 0 /\ Worth(a, late) >= 0
        BY <1>5, <2>2
    <2>4. FailOK(a, t, z, Charged(a, c, f, q, n), n)
        BY <1>5, <2>3 DEF FailOK
    <2> QED
        BY <1>3, <1>5, <2>1, <2>4, FailFewer
<1>13. \A k \in Handled(c, p) : p[k].at - MaxLag <= t
    BY <1>1, <1>8 DEF Handled, Flights, FlightOK
<1>14. \A k \in Rejected(c, p) : p[k].at - MaxLag - MaxHandling <= t
    BY <1>1, <1>8 DEF Rejected, Flights, FlightOK
<1>15. x # NoClient
    BY <1>1, <1>7 DEF NoClient
<1>16. TrackedOK(c, x, z, f, p, n)
    BY <1>1, <1>3, <1>5, <1>7, <1>12, <1>13, <1>14 DEF TrackedOK
<1> QED
    BY <1>3, <1>7, <1>15, <1>16 DEF ClientOK, z, x, p, d

(* The handler answers, for the client of the request.                     *)
LEMMA ClientAnswered ==
    ASSUME NEW c \in Clients, NEW e \in Entries, NEW s \in Nat \cup {Zero},
           NEW g \in Nat, NEW f \in Nat, NEW q \in [Requests -> Flights], NEW n \in Nat,
           NEW r \in Requests, q[r].pc = "handling", ClientOK(c, e, s, g, f, q, n),
           NEW p, p = [q EXCEPT ![r] = NoRequest]
    PROVE  ClientOK(c, e, s, g, f, p, n)
<1> USE DEF Zero
<1>1. p[r].pc = "idle" /\ \A k \in Requests : k # r => p[k] = q[k]
    BY DEF NoRequest
<1>2. Rejected(c, p) = Rejected(c, q) /\ Handled(c, p) \subseteq Handled(c, q)
      /\ \A k \in Handled(c, p) \cup Rejected(c, p) : p[k].at = q[k].at
    BY <1>1 DEF Rejected, Handled
<1>3. ASSUME e # NoClient PROVE TrackedOK(c, e, s, f, p, n)
    <2>1. TrackedOK(c, e, s, f, q, n) /\ e.failures \in Buckets /\ s \in Int
        BY <1>3 DEF ClientOK, Entries
    <2>2. Exposed(e.failures, c, p, n) \subseteq Exposed(e.failures, c, q, n)
        BY <1>2 DEF Exposed
    <2>3. /\ Charged(e.failures, c, f, p, n) \in Int /\ Charged(e.failures, c, f, q, n) \in Int
          /\ Charged(e.failures, c, f, p, n) <= Charged(e.failures, c, f, q, n)
        BY <1>2, <2>1, <2>2, ChargedFewer
    <2>4. FailOK(e.failures, e.lastSeen, s, Charged(e.failures, c, f, p, n), n)
        BY <2>1, <2>3, FailFewer DEF TrackedOK
    <2> QED
        BY <1>2, <2>1, <2>4 DEF TrackedOK
<1>4. DroppedOK(c, s, f, q, n) => DroppedOK(c, s, f, p, n)
    BY <1>2 DEF DroppedOK
<1> QED
    BY <1>3, <1>4 DEF ClientOK

(* The answer is 401 or 403, for the client of the request: a rejected     *)
(* answer more, of a request that was as exposed while it was handled.     *)
LEMMA ClientRefused ==
    ASSUME NEW c \in Clients, NEW e \in Entries, NEW s \in Nat \cup {Zero},
           NEW g \in Nat, NEW f \in Nat, NEW q \in [Requests -> Flights], NEW n \in Nat,
           \A r \in Requests : FlightOK(q[r], n),
           NEW r \in Requests, q[r].pc = "handling", q[r].key = c,
           ClientOK(c, e, s, g, f, q, n),
           NEW p, p = [q EXCEPT ![r] = [@ EXCEPT !.pc = "rejected", !.at = n]]
    PROVE  ClientOK(c, e, s, g, f + 1, p, n)
<1> USE RateConstants DEF Zero
<1>1. p[r].pc = "rejected" /\ p[r].key = c /\ p[r].at = n
      /\ \A k \in Requests : k # r => p[k] = q[k]
    BY DEF Flights
<1>2. /\ r \in Handled(c, q) /\ r \notin Rejected(c, q)
      /\ Handled(c, p) = Handled(c, q) \ {r} /\ Rejected(c, p) = Rejected(c, q) \cup {r}
    BY <1>1 DEF Rejected, Handled
<1>3. Cardinality(Rejected(c, p)) = Cardinality(Rejected(c, q)) + 1
      /\ Cardinality(Rejected(c, q)) \in Nat
    <2>1. IsFiniteSet(Rejected(c, q)) /\ Cardinality(Rejected(c, q)) \in Nat
        BY FlightSets
    <2>2. Cardinality(Rejected(c, q) \cup {r}) = Cardinality(Rejected(c, q)) + 1
        BY <1>2, <2>1, FS_AddElement
    <2> QED
        BY <1>2, <2>1, <2>2
<1>4. ASSUME e # NoClient PROVE TrackedOK(c, e, s, f + 1, p, n)
    <2>1. TrackedOK(c, e, s, f, q, n) /\ e.failures \in Buckets /\ e.lastSeen \in Nat
        BY <1>4 DEF ClientOK, Entries, TrackedOK
    <2>2. Exposed(e.failures, c, p, n) = Exposed(e.failures, c, q, n)
        BY <1>1, <1>2 DEF Exposed
    <2>3. Cardinality(Exposed(e.failures, c, q, n)) \in Nat
        BY ExposedSet
    <2>4. Charged(e.failures, c, f + 1, p, n) = Charged(e.failures, c, f, q, n)
        BY <1>3, <2>2, <2>3 DEF Charged
    <2>5. \A k \in Handled(c, p) : p[k].at - MaxLag <= e.lastSeen
        BY <1>1, <1>2, <2>1 DEF TrackedOK, Handled
    <2>6. \A k \in Rejected(c, p) : p[k].at - MaxLag - MaxHandling <= e.lastSeen
        <3>1. p[r].at - MaxLag - MaxHandling <= e.lastSeen
            <4>1. q[r].at - MaxLag <= e.lastSeen
                BY <1>2, <2>1 DEF TrackedOK
            <4>2. q[r].at \in Nat /\ n - q[r].at <= MaxHandling
                BY DEF Flights, FlightOK
            <4> QED
                BY <1>1, <2>1, <4>1, <4>2
        <3> QED
            BY <1>1, <1>2, <2>1, <3>1 DEF TrackedOK, Rejected
    <2> QED
        BY <2>1, <2>4, <2>5, <2>6 DEF TrackedOK
<1>5. ASSUME e = NoClient PROVE DroppedOK(c, s, f + 1, p, n)
    <2>1. DroppedOK(c, s, f, q, n)
        BY <1>5 DEF ClientOK
    <2>2. s = Zero /\ f <= Cardinality(Rejected(c, q))
        BY <1>2, <2>1 DEF DroppedOK
    <2> QED
        BY <1>3, <2>2 DEF DroppedOK
<1> QED
    BY <1>4, <1>5 DEF ClientOK

(* What recordFailure makes of the entry.                                  *)
Present(e, t) == IF e = NoClient THEN NewClient(t) ELSE e

Debit(e, t) == [e EXCEPT !.failures = take(refill(@, t, FailureRate, FailureBurst))]

(* recordFailure, for the client of the request: a token debited accounts  *)
(* for every request in flight; a record that debits nothing was counted   *)
(* before.                                                                 *)
LEMMA ClientRecord ==
    ASSUME NEW c \in Clients, NEW e \in Entries, NEW s \in Nat \cup {Zero},
           NEW g \in Nat, NEW f \in Nat, NEW q \in [Requests -> Flights], NEW n \in Nat,
           \A r \in Requests : FlightOK(q[r], n),
           NEW r \in Requests, q[r].pc = "rejected", q[r].key = c,
           ClientOK(c, e, s, g, f, q, n)
    PROVE  LET x == Debit(Present(e, q[r].at), q[r].at)
           IN /\ x \in Entries
              /\ ClientOK(c, x, Since(s, q[r].at), g, f, [q EXCEPT ![r] = NoRequest], n)
<1> DEFINE m == Present(e, q[r].at)
           x == Debit(m, q[r].at)
           p == [q EXCEPT ![r] = NoRequest]
<1> USE RateConstants, SlotsNat DEF Zero
<1> DEFINE t == q[r].at
           z == Since(s, t)
           a == refill(e.failures, t, FailureRate, FailureBurst)
           b == take(a)
           late == m.lastSeen + MaxLag + MaxHandling
           old == Charged(a, c, f, q, n)
           new == Charged(b, c, f, p, n)
<1>1. t \in Nat /\ t <= n /\ n - t <= MaxLag /\ Recent(t, n)
    BY DEF Flights, FlightOK, Recent
<1>2. e.requests \in Buckets /\ e.failures \in Buckets
    BY DEF Entries
<1>3. z \in Nat /\ z <= n
    BY <1>1 DEF Since
<1>4. a \in Buckets /\ a.last = t
    BY <1>1, <1>2, FailRefill
<1>5. /\ b \in Buckets /\ b.last = t /\ (a.tokens < Unit => b = a)
      /\ a.tokens >= Unit => \A k \in Int : Debited(b, k) = Debited(a, k) + Unit
      /\ a.tokens >= Unit => b.tokens = a.tokens - Unit
    BY <1>4, FailTake
<1>6. /\ m.requests = e.requests /\ m.failures = e.failures /\ m.lastSeen \in Nat
      /\ e = NoClient => m.lastSeen = t
      /\ e # NoClient => m = e
      /\ m \in Entries
    <2>1. CASE e = NoClient
        BY <1>1, <2>1 DEF Present, NewClient, NoClient, Entries, Buckets, NewBucket
    <2>2. CASE e # NoClient
        BY <2>2 DEF Present, ClientOK, TrackedOK
    <2> QED
        BY <2>1, <2>2
<1>7. /\ x \in Entries /\ x.requests = e.requests /\ x.failures = b /\ x.lastSeen = m.lastSeen
    BY <1>5, <1>6 DEF Debit, Entries
<1>8. late \in Int /\ late >= t
    <2>1. CASE e = NoClient
        BY <1>1, <1>6, <2>1
    <2>2. CASE e # NoClient
        <3>1. q[r].at - MaxLag - MaxHandling <= e.lastSeen
            BY <2>2 DEF ClientOK, TrackedOK, Rejected
        <3> QED
            BY <1>1, <1>6, <2>2, <3>1
    <2> QED
        BY <2>1, <2>2
<1>9. Paid(old, Debited(a, z))
    BY <1>1, ClientRefill
<1>10. Worth(a, n) >= 0
    <2>1. \A y \in Int : y >= t /\ y >= n => Worth(a, y) >= 0
        BY <1>1, ClientRefill
    <2> QED
        BY <1>1, <2>1
<1>11. Worth(a, late) >= 0
    <2>1. CASE e = NoClient
        <3>1. \A y \in Int : y >= t /\ y >= n => Worth(a, y) >= 0
            BY <1>1, ClientRefill
        <3> QED
            BY <1>1, <1>6, <1>8, <2>1, <3>1
    <2>2. CASE e # NoClient
        <3>1. \A y \in Int : y >= t /\ y = e.lastSeen + MaxLag + MaxHandling => Worth(a, y) >= 0
            BY <1>1, <2>2, ClientRefill
        <3> QED
            BY <1>6, <1>8, <2>2, <3>1
    <2> QED
        BY <2>1, <2>2
<1>24. p = [q EXCEPT ![r] = NoRequest]
    OBVIOUS
<1> HIDE DEF a, b, z, late, m, x, p
<1>12. p[r].pc = "idle" /\ \A k \in Requests : k # r => p[k] = q[k]
    BY <1>24 DEF NoRequest
<1>13. /\ r \in Rejected(c, q) /\ r \notin Handled(c, q)
       /\ Handled(c, p) = Handled(c, q) /\ Rejected(c, p) = Rejected(c, q) \ {r}
    BY <1>12 DEF Rejected, Handled
<1>14. Cardinality(Rejected(c, p)) = Cardinality(Rejected(c, q)) - 1
       /\ Cardinality(Rejected(c, q)) \in Nat
    <2>1. IsFiniteSet(Rejected(c, q)) /\ Cardinality(Rejected(c, q)) \in Nat
        BY FlightSets
    <2>2. Cardinality(Rejected(c, q) \ {r}) = Cardinality(Rejected(c, q)) - 1
        BY <1>13, <2>1, FS_RemoveElement
    <2> QED
        BY <1>13, <2>1, <2>2
<1>15. Cardinality(Exposed(a, c, q, n)) \in Nat /\ Cardinality(Exposed(b, c, p, n)) \in Nat
    BY ExposedSet
<1>16. old \in Int /\ new \in Int
    BY <1>14, <1>15 DEF Charged
<1>17. FailOK(b, m.lastSeen, z, new, n)
    <2>1. CASE a.tokens < Unit
        <3>1. b = a
            BY <1>5, <2>1
        <3>2. Exposed(b, c, p, n) = Exposed(a, c, q, n) \ {r} /\ r \in Exposed(a, c, q, n)
            <4>1. Worth(a, t) = a.tokens
                BY <1>1, <1>4, WorthType DEF Worth
            <4> QED
                BY <1>12, <1>13, <2>1, <3>1, <4>1 DEF Exposed, Rejected, Handled
        <3>3. Cardinality(Exposed(b, c, p, n)) = Cardinality(Exposed(a, c, q, n)) - 1
            <4>1. IsFiniteSet(Exposed(a, c, q, n))
                BY ExposedSet
            <4>2. Cardinality(Exposed(a, c, q, n) \ {r}) = Cardinality(Exposed(a, c, q, n)) - 1
                BY <3>2, <4>1, FS_RemoveElement
            <4> QED
                BY <3>2, <4>2
        <3>4. new = old
            BY <1>14, <1>15, <3>3 DEF Charged
        <3> HIDE DEF old, new
        <3> QED
            BY <1>9, <1>10, <1>11, <3>1, <3>4 DEF FailOK, late
    <2>2. CASE a.tokens >= Unit
        <3>1. Cardinality(Exposed(b, c, p, n)) <= Slots - 1
            <4>1. Exposed(b, c, p, n) \subseteq Requests \ {r}
                BY <1>13 DEF Exposed
            <4>2. IsFiniteSet(Requests \ {r}) /\ Cardinality(Requests \ {r}) = Slots - 1
                BY FS_RemoveElement DEF Slots
            <4> QED
                BY <4>1, <4>2, FS_Subset
        <3>2. new <= old + Slots
            BY <1>14, <1>15, <3>1 DEF Charged
        <3> HIDE DEF old, new
        <3> DEFINE d == Debited(a, z)
        <3>3. d \in Int /\ Debited(b, z) = d + Unit
            BY <1>3, <1>4, <1>5, <2>2, DebitedType
        <3>4. old * Unit <= Slots * d
            BY <1>9 DEF Paid
        <3> HIDE DEF d
        <3>5. Unit * new <= Unit * (old + Slots)
            BY <1>16, <3>2, Scaled
        <3>6. /\ Unit * (old + Slots) = old * Unit + Slots * Unit
              /\ Slots * (d + Unit) = Slots * d + Slots * Unit
              /\ new * Unit = Unit * new
            BY <1>16, <3>3
        <3>7. /\ old * Unit \in Int /\ Slots * Unit \in Int /\ Slots * d \in Int
              /\ Unit * new \in Int
            BY <1>16, <3>3
        <3>8. new * Unit <= Slots * (d + Unit)
            BY <3>4, <3>5, <3>6, <3>7
        <3>9. Paid(new, Debited(b, z))
            BY <3>3, <3>8 DEF Paid
        <3>10. ASSUME NEW y \in Int, y >= t PROVE Worth(b, y) >= 0
            <4>1. Worth(b, t) <= Worth(b, y) /\ Worth(b, t) \in Int /\ Worth(b, y) \in Int
                BY <1>1, <1>5, <3>10, WorthGrows, WorthType
            <4>2. Worth(b, t) = b.tokens
                BY <1>1, <1>5, WorthType DEF Worth
            <4>3. b.tokens >= 0
                BY <1>4, <1>5, <2>2 DEF Buckets
            <4> QED
                BY <4>1, <4>2, <4>3
        <3>11. Worth(b, n) >= 0 /\ Worth(b, late) >= 0
            BY <1>1, <1>8, <3>10
        <3> QED
            BY <3>9, <3>11 DEF FailOK, late
    <2> QED
        BY <1>1, <1>4, <2>1, <2>2, WorthType
<1>18. GrantOK(x.requests, z, g, n)
    BY <1>1, <1>2, <1>7, GrantSince DEF ClientOK, z
<1>19. x.requests.last \in {Zero, x.lastSeen}
    <2>1. CASE e = NoClient
        BY <1>7, <2>1 DEF NoClient, NewBucket
    <2>2. CASE e # NoClient
        BY <1>6, <1>7, <2>2 DEF ClientOK, TrackedOK
    <2> QED
        BY <2>1, <2>2
<1>20. \A k \in Handled(c, p) : p[k].at - MaxLag <= x.lastSeen
    <2>1. CASE e = NoClient
        <3>1. \A k \in Handled(c, q) : q[k].at \in Nat /\ q[k].at <= n
            BY DEF Handled, Flights, FlightOK
        <3> QED
            BY <1>1, <1>6, <1>7, <1>12, <1>13, <2>1, <3>1 DEF Handled
    <2>2. CASE e # NoClient
        BY <1>6, <1>7, <1>12, <1>13, <2>2 DEF ClientOK, TrackedOK, Handled
    <2> QED
        BY <2>1, <2>2
<1>21. \A k \in Rejected(c, p) : p[k].at - MaxLag - MaxHandling <= x.lastSeen
    <2>1. CASE e = NoClient
        <3>1. \A k \in Rejected(c, q) : q[k].at \in Nat /\ q[k].at <= n
            BY DEF Rejected, Flights, FlightOK
        <3> QED
            BY <1>1, <1>6, <1>7, <1>12, <1>13, <2>1, <3>1 DEF Rejected
    <2>2. CASE e # NoClient
        BY <1>6, <1>7, <1>12, <1>13, <2>2 DEF ClientOK, TrackedOK, Rejected
    <2> QED
        BY <2>1, <2>2
<1>22. TrackedOK(c, x, z, f, p, n)
    BY <1>1, <1>3, <1>5, <1>6, <1>7, <1>17, <1>19, <1>20, <1>21 DEF TrackedOK
<1>23. x # NoClient
    BY <1>6, <1>7 DEF NoClient
<1> QED
    BY <1>3, <1>7, <1>18, <1>22, <1>23 DEF ClientOK, z, x, p, m

(* The second part of BudgetsHold.                                         *)
LEMMA FailBound ==
    ASSUME NEW c \in Clients, NEW e \in Entries, NEW s \in Nat \cup {Zero},
           NEW g \in Nat, NEW f \in Nat, NEW q \in [Requests -> Flights], NEW n \in Nat,
           \A r \in Requests : FlightOK(q[r], n),
           ClientOK(c, e, s, g, f, q, n)
    PROVE  f * Unit <= Slots * (FailureBurst + FailureRate * (IF s = Zero THEN 0 ELSE n - s))
<1> USE RateConstants, SlotsNat DEF Zero
<1> DEFINE R == Rejected(c, q)
           b == e.failures
           E == Exposed(b, c, q, n)
           d == FailureRate * (n - s)
<1>1. s <= n /\ s \in Int /\ b \in Buckets
    BY DEF ClientOK, Entries
<1>2. /\ R \subseteq Requests /\ IsFiniteSet(R)
      /\ Cardinality(R) \in Nat /\ Cardinality(R) <= Slots
      /\ Cardinality(E) \in Nat /\ IsFiniteSet(E)
    BY FlightSets, ExposedSet
<1>3. d \in Int
    BY <1>1
<1>4. s # Zero => d >= 0
    <2>1. FailureRate * 0 <= FailureRate * (n - s)
        BY <1>1, Scaled
    <2> QED
        BY <1>3, <2>1
<1>5. f * Unit \in Nat /\ Unit * f = f * Unit
    OBVIOUS
<1> HIDE DEF R, E, b, d
<1>6. CASE e = NoClient /\ s = Zero
    <2>1. f <= Slots
        BY <1>2, <1>6 DEF ClientOK, DroppedOK, R
    <2>2. FailureRate * MaxLag \in Nat /\ FailureBurst >= Unit + FailureRate * MaxLag
        BY RateAssumption
    <2>3. Unit * f <= Unit * Slots /\ Unit * Slots \in Int
        BY <2>1, Scaled
    <2>4. Slots * Unit <= Slots * FailureBurst /\ Slots * FailureBurst \in Int
        BY <2>2, Scaled
    <2>5. Slots * Unit = Unit * Slots
        OBVIOUS
    <2> QED
        BY <1>5, <1>6, <2>3, <2>4, <2>5
<1>7. CASE e = NoClient /\ s # Zero
    <2>1. f = 0 \/ f * Unit <= Slots * (FailureRate * (n - MaxLag - s))
        BY <1>7 DEF ClientOK, DroppedOK
    <2>2. FailureRate * (n - MaxLag - s) <= d /\ FailureRate * (n - MaxLag - s) \in Int
        BY <1>1, Scaled DEF d
    <2>3. Slots * (FailureRate * (n - MaxLag - s)) <= Slots * (FailureBurst + d)
          /\ Slots * (FailureRate * (n - MaxLag - s)) \in Int
          /\ Slots * (FailureBurst + d) \in Int
        BY <1>3, <2>2, Scaled
    <2>4. Slots * 0 <= Slots * (FailureBurst + d)
        BY <1>3, <1>4, <1>7, Scaled
    <2>5. f * Unit <= Slots * (FailureBurst + d)
        BY <1>5, <2>1, <2>3, <2>4
    <2> QED
        BY <1>7, <2>5 DEF d
<1>8. CASE e # NoClient
    <2> DEFINE y == Charged(b, c, f, q, n)
               w == Debited(b, s)
               v == Worth(b, n)
    <2>1. s \in Nat /\ y * Unit <= Slots * w /\ v >= 0
        BY <1>8 DEF ClientOK, TrackedOK, FailOK, Paid, b
    <2>2. w \in Int /\ v \in Int
        BY <1>1, WorthType, DebitedType
    <2>3. w + v = FailureBurst + d
        BY <1>1, DebitedAndWorth DEF d
    <2>4. y = f - Cardinality(R) + Cardinality(E) /\ y \in Int
        BY <1>2 DEF Charged, R, E
    <2> HIDE DEF y, w, v
    <2>5. CASE R \subseteq E
        <3>1. f <= y
            BY <1>2, <2>4, <2>5, FS_Subset
        <3>2. Unit * f <= Unit * y /\ Unit * y \in Int /\ Unit * y = y * Unit
            BY <2>4, <3>1, Scaled
        <3>3. Slots * w <= Slots * (w + v) /\ Slots * w \in Int /\ Slots * (w + v) \in Int
            BY <2>1, <2>2, Scaled
        <3>4. f * Unit <= Slots * (w + v)
            BY <1>5, <2>1, <3>2, <3>3
        <3> QED
            BY <2>1, <2>3, <3>4 DEF d
    <2>6. CASE ~(R \subseteq E)
        <3>1. PICK r \in R : r \notin E
            BY <2>6
        <3>2. v >= Unit
            <4>1. q[r].at \in Int /\ q[r].at <= n
                BY <1>2 DEF Flights, FlightOK
            <4>2. Worth(b, q[r].at) <= Worth(b, n) /\ Worth(b, q[r].at) \in Int
                BY <1>1, <4>1, WorthGrows, WorthType
            <4>3. ~(Worth(b, q[r].at) < Unit)
                BY <1>2, <3>1 DEF Exposed, E, R
            <4> QED
                BY <2>2, <4>2, <4>3 DEF v
        <3>3. f <= y + Slots
            BY <1>2, <2>4
        <3>4. Unit * f <= Unit * (y + Slots)
            BY <2>4, <3>3, Scaled
        <3>5. Slots * (w + Unit) <= Slots * (w + v)
              /\ Slots * (w + Unit) \in Int /\ Slots * (w + v) \in Int
            BY <2>2, <3>2, Scaled
        <3>6. /\ Unit * (y + Slots) = y * Unit + Slots * Unit
              /\ Slots * (w + Unit) = Slots * w + Slots * Unit
            BY <2>2, <2>4
        <3>7. y * Unit \in Int /\ Slots * Unit \in Int /\ Slots * w \in Int
            BY <2>2, <2>4
        <3>8. f * Unit <= Slots * (w + v)
            BY <1>5, <2>1, <3>4, <3>5, <3>6, <3>7
        <3> QED
            BY <2>1, <2>3, <3>8 DEF d
    <2> QED
        BY <2>5, <2>6
<1> QED
    BY <1>6, <1>7, <1>8

-----------------------------------------------------------------------------
(* The inductive invariant of the rate limiter.                            *)
LimitInv ==
    /\ tick \in Nat
    /\ clients \in [Clients -> Entries]
    /\ req \in [Requests -> Flights]
    /\ since \in [Clients -> Nat \cup {Zero}]
    /\ granted \in [Clients -> Nat]
    /\ failed \in [Clients -> Nat]
    /\ \A r \in Requests : FlightOK(req[r], tick)
    /\ \A c \in Clients :
         ClientOK(c, clients[c], since[c], granted[c], failed[c], req, tick)

(* The entries that a lookup leaves to the other clients.                  *)
LEMMA LookupOthers ==
    ASSUME LimitInv, NEW key \in Clients, NEW t \in Nat, t <= tick,
           NEW m \in client(key, t)
    PROVE  /\ m \in [Clients -> Entries]
           /\ m[key] = IF clients[key] = NoClient THEN NewClient(t) ELSE clients[key]
           /\ \A c \in Clients \ {key} :
                \/ m[c] = clients[c] /\ ~Forgotten(c, m, t)
                \/ m[c] = NoClient /\ Idle(c, t) /\ ~Forgotten(c, m, t)
                \/ m[c] = NoClient /\ Forgotten(c, m, t)
           /\ ~Forgotten(key, m, t)
<1> DEFINE K == KeptByEvict(t)
<1>1. clients \in [Clients -> Entries]
    BY DEF LimitInv
<1>2. NoClient \in Entries /\ NewClient(t) \in Entries /\ NewClient(t) # NoClient
    BY DEF NoClient, NewClient, NewBucket, Entries, Buckets, Zero
<1>3. /\ K \in [Clients -> Entries]
      /\ \A c \in Clients : K[c] = IF Idle(c, t) THEN NoClient ELSE clients[c]
    BY <1>1, <1>2 DEF KeptByEvict
<1> HIDE DEF K
<1>4. CASE clients[key] # NoClient
    <2>1. m = clients
        BY <1>4 DEF client
    <2>2. \A c \in Clients : Forgotten(c, m, t) => K[c] # NoClient /\ m[c] = NoClient
        BY DEF Forgotten, Tracked, K
    <2> QED
        BY <1>1, <1>3, <1>4, <2>1, <2>2
<1>5. CASE clients[key] = NoClient
    <2>1. PICK w \in {clients} \cup evict(t) : m = [w EXCEPT ![key] = NewClient(t)]
        BY <1>5 DEF client
    <2>2. /\ w \in [Clients -> Entries]
          /\ \A c \in Clients : w[c] = clients[c] \/ w[c] = K[c] \/ w[c] = NoClient
        <3>1. CASE w = clients
            BY <1>1, <3>1
        <3>2. CASE w \in evict(t)
            <4>1. w = K \/ \E v \in Tracked(K) : w = [K EXCEPT ![v] = NoClient]
                BY <3>2 DEF evict, K
            <4> QED
                BY <1>2, <1>3, <4>1 DEF Tracked
        <3> QED
            BY <2>1, <3>1, <3>2
    <2>3. /\ m \in [Clients -> Entries] /\ m[key] = NewClient(t)
          /\ \A c \in Clients \ {key} : m[c] = w[c]
        BY <1>2, <2>1, <2>2
    <2>4. \A c \in Clients : Forgotten(c, m, t) <=> K[c] # NoClient /\ m[c] = NoClient
        BY DEF Forgotten, Tracked, K
    <2>5. \A c \in Clients : Idle(c, t) => clients[c] # NoClient
        BY DEF Idle
    <2> QED
        BY <1>2, <1>3, <1>5, <2>2, <2>3, <2>4, <2>5
<1> QED
    BY <1>4, <1>5

LEMMA LookupAccount ==
    ASSUME LimitInv, NEW key \in Clients, NEW t, Recent(t, tick),
           NEW m \in client(key, t), clients' = [m EXCEPT ![key] = clients'[key]],
           clients'[key] \in Entries, NEW admitted \in {0, 1},
           NEW r \in Requests, req[r].key = key, req' = [req EXCEPT ![r] = req'[r]],
           req'[r].pc = "idle" \/ req'[r].key = key,
           UNCHANGED tick, Account(m, key, t, admitted)
    PROVE  /\ clients' \in [Clients -> Entries]
           /\ since' \in [Clients -> Nat \cup {Zero}]
           /\ granted' \in [Clients -> Nat] /\ failed' \in [Clients -> Nat]
           /\ since'[key] = Since(since[key], t)
           /\ granted'[key] = granted[key] + admitted
           /\ failed'[key] = failed[key]
           /\ \A c \in Clients \ {key} :
                ClientOK(c, clients'[c], since'[c], granted'[c], failed'[c], req', tick')
<1> USE DEF Zero
<1>1. t \in Nat /\ t <= tick /\ tick \in Nat /\ since \in [Clients -> Nat \cup {Zero}]
      /\ granted \in [Clients -> Nat] /\ failed \in [Clients -> Nat]
      /\ clients \in [Clients -> Entries] /\ req \in [Requests -> Flights]
    BY DEF LimitInv, Recent
<1>2. /\ m \in [Clients -> Entries]
      /\ \A c \in Clients \ {key} :
           \/ m[c] = clients[c] /\ ~Forgotten(c, m, t)
           \/ m[c] = NoClient /\ Idle(c, t) /\ ~Forgotten(c, m, t)
           \/ m[c] = NoClient /\ Forgotten(c, m, t)
      /\ ~Forgotten(key, m, t)
    BY <1>1, LookupOthers
<1>3. clients' \in [Clients -> Entries] /\ \A c \in Clients \ {key} : clients'[c] = m[c]
    BY <1>2
<1>4. /\ since' \in [Clients -> Nat \cup {Zero}]
      /\ since'[key] = Since(since[key], t)
    BY <1>1, <1>2 DEF Account, Since
<1>5. granted' \in [Clients -> Nat] /\ granted'[key] = granted[key] + admitted
    BY <1>1, <1>2 DEF Account
<1>6. failed' \in [Clients -> Nat] /\ failed'[key] = failed[key]
    BY <1>1, <1>2 DEF Account
<1>7. ASSUME NEW c \in Clients \ {key}
      PROVE  ClientOK(c, clients'[c], since'[c], granted'[c], failed'[c], req', tick')
    <2>1. /\ Forgotten(c, m, t) => since'[c] = Zero /\ granted'[c] = 0 /\ failed'[c] = 0
          /\ ~Forgotten(c, m, t) => /\ since'[c] = since[c] /\ granted'[c] = granted[c]
                                    /\ failed'[c] = failed[c]
        BY DEF Account
    <2>2. ClientOK(c, clients[c], since[c], granted[c], failed[c], req, tick)
        BY DEF LimitInv
    <2>3. ClientOK(c, clients'[c], since'[c], granted'[c], failed'[c], req, tick)
        <3>1. CASE m[c] = clients[c] /\ ~Forgotten(c, m, t)
            BY <1>3, <2>1, <2>2, <3>1
        <3>2. CASE m[c] = NoClient /\ Idle(c, t) /\ ~Forgotten(c, m, t)
            <4>1. clients[c] # NoClient /\ tick - clients[c].lastSeen > ClientIdleTTL
                <5>1. clients[c] # NoClient /\ t - clients[c].lastSeen > ClientIdleTTL
                    BY <3>2 DEF Idle
                <5>2. clients[c].lastSeen \in Int
                    BY <1>1 DEF Entries
                <5> QED
                    BY <1>1, <5>1, <5>2, RateConstants
            <4>2. \A k \in Requests : FlightOK(req[k], tick)
                BY DEF LimitInv
            <4>3. clients[c] \in Entries /\ since[c] \in Nat \cup {Zero}
                  /\ granted[c] \in Nat /\ failed[c] \in Nat
                BY <1>1
            <4>4. ClientOK(c, NoClient, since[c], granted[c], failed[c], req, tick)
                BY <1>1, <2>2, <4>1, <4>2, <4>3, ClientIdle
            <4> QED
                BY <1>3, <2>1, <3>2, <4>4
        <3>3. CASE m[c] = NoClient /\ Forgotten(c, m, t)
            BY <1>1, <1>3, <2>1, <3>3, ClientForgotten
        <3> QED
            BY <1>2, <3>1, <3>2, <3>3
    <2>4. \A k \in Requests : k # r => req'[k] = req[k]
        BY <1>1
    <2>5. /\ Handled(c, req') = Handled(c, req) /\ Rejected(c, req') = Rejected(c, req)
          /\ \A k \in Handled(c, req) \cup Rejected(c, req) : req'[k].at = req[k].at
        BY <2>4 DEF Handled, Rejected
    <2>6. ClientOK(c, clients'[c], since'[c], granted'[c], failed'[c], req', tick)
        BY <2>3, <2>5, ClientSame
    <2> QED
        BY <2>6
<1> QED
    BY <1>3, <1>4, <1>5, <1>6, <1>7

LEMMA FlightMoves ==
    ASSUME NEW k \in Flights, NEW n \in Nat,
           NEW p \in {"idle", "arrived", "handling", "rejected"}
    PROVE  LET m == [k EXCEPT !.pc = p, !.at = n]
           IN m \in Flights /\ m.pc = p /\ m.key = k.key /\ m.at = n
BY DEF Flights

LEMMA LimitInitInv == LimitInit => LimitInv
<1> SUFFICES ASSUME LimitInit PROVE LimitInv
    OBVIOUS
<1> USE DEF LimitInit, Zero
<1>1. NoClient \in Entries /\ NoRequest \in Flights
    BY DEF NoClient, NewBucket, Entries, Buckets, NoRequest, Flights
<1>2. \A r \in Requests : FlightOK(req[r], tick)
    BY DEF FlightOK, NoRequest
<1>3. ASSUME NEW c \in Clients
      PROVE  ClientOK(c, clients[c], since[c], granted[c], failed[c], req, tick)
    BY ClientForgotten
<1> QED
    BY <1>1, <1>2, <1>3 DEF LimitInv

LEMMA LimitTickInv ==
    ASSUME LimitInv, LimitTick
    PROVE  LimitInv'
<1>1. tick \in Nat /\ tick' = tick + 1 /\ UNCHANGED <<clients, req, since, granted, failed>>
      /\ clients \in [Clients -> Entries] /\ req \in [Requests -> Flights]
      /\ since \in [Clients -> Nat \cup {Zero}]
      /\ granted \in [Clients -> Nat] /\ failed \in [Clients -> Nat]
    BY DEF LimitInv, LimitTick
<1>2. ASSUME NEW r \in Requests PROVE FlightOK(req[r], tick)'
    <2>1. FlightOK(req[r], tick) /\ req[r].at \in Nat
        BY <1>1 DEF LimitInv, Flights
    <2> QED
        BY <1>1, <2>1, RateConstants DEF FlightOK, LimitTick
<1>3. ASSUME NEW c \in Clients
      PROVE  ClientOK(c, clients'[c], since'[c], granted'[c], failed'[c], req', tick')
    <2>1. ClientOK(c, clients[c], since[c], granted[c], failed[c], req, tick)
        BY DEF LimitInv
    <2>2. ClientOK(c, clients[c], since[c], granted[c], failed[c], req, tick + 1)
        BY <1>1, <2>1, ClientTick
    <2> QED
        BY <1>1, <2>2
<1> QED
    BY <1>1, <1>2, <1>3 DEF LimitInv

(* A step of request r that touches no map entry.                          *)
LEMMA ArriveInv ==
    ASSUME LimitInv, NEW r \in Requests, NEW k \in Clients, Arrive(r, k)
    PROVE  LimitInv'
<1> DEFINE x == [pc |-> "arrived", key |-> k, at |-> tick]
<1>1. /\ tick \in Nat /\ clients \in [Clients -> Entries] /\ req \in [Requests -> Flights]
      /\ since \in [Clients -> Nat \cup {Zero}]
      /\ granted \in [Clients -> Nat] /\ failed \in [Clients -> Nat]
    BY DEF LimitInv
<1>2. req[r].pc = "idle" /\ req' = [req EXCEPT ![r] = x]
      /\ UNCHANGED <<tick, clients, since, granted, failed>>
    BY DEF Arrive
<1>3. x \in Flights /\ FlightOK(x, tick)
    BY <1>1, RateConstants DEF Flights, FlightOK
<1>4. req' \in [Requests -> Flights] /\ \A i \in Requests : FlightOK(req'[i], tick)
    BY <1>1, <1>2, <1>3 DEF LimitInv
<1>5. ASSUME NEW c \in Clients
      PROVE  ClientOK(c, clients'[c], since'[c], granted'[c], failed'[c], req', tick')
    <2>1. ClientOK(c, clients[c], since[c], granted[c], failed[c], req, tick)
        BY DEF LimitInv
    <2>2. /\ Handled(c, req') = Handled(c, req) /\ Rejected(c, req') = Rejected(c, req)
          /\ \A i \in Handled(c, req) \cup Rejected(c, req) : req'[i].at = req[i].at
        BY <1>1, <1>2 DEF Handled, Rejected
    <2>3. ClientOK(c, clients[c], since[c], granted[c], failed[c], req', tick)
        BY <2>1, <2>2, ClientSame
    <2> QED
        BY <1>2, <2>3
<1> QED
    BY <1>1, <1>2, <1>4, <1>5 DEF LimitInv

LEMMA AnsweredInv ==
    ASSUME LimitInv, NEW r \in Requests, Answered(r)
    PROVE  LimitInv'
<1>1. /\ tick \in Nat /\ clients \in [Clients -> Entries] /\ req \in [Requests -> Flights]
      /\ since \in [Clients -> Nat \cup {Zero}]
      /\ granted \in [Clients -> Nat] /\ failed \in [Clients -> Nat]
    BY DEF LimitInv
<1>2. req[r].pc = "handling" /\ req' = [req EXCEPT ![r] = NoRequest]
      /\ UNCHANGED <<tick, clients, since, granted, failed>>
    BY DEF Answered
<1>3. NoRequest \in Flights /\ FlightOK(NoRequest, tick)
    BY <1>1 DEF NoRequest, Flights, FlightOK
<1>4. req' \in [Requests -> Flights] /\ \A i \in Requests : FlightOK(req'[i], tick)
    BY <1>1, <1>2, <1>3 DEF LimitInv
<1>5. ASSUME NEW c \in Clients
      PROVE  ClientOK(c, clients'[c], since'[c], granted'[c], failed'[c], req', tick')
    <2>1. ClientOK(c, clients[c], since[c], granted[c], failed[c], req, tick)
        BY DEF LimitInv
    <2>2. ClientOK(c, clients[c], since[c], granted[c], failed[c], req', tick)
        BY <1>1, <1>2, <2>1, ClientAnswered
    <2> QED
        BY <1>2, <2>2
<1> QED
    BY <1>1, <1>2, <1>4, <1>5 DEF LimitInv

LEMMA RefusedInv ==
    ASSUME LimitInv, NEW r \in Requests, Refused(r)
    PROVE  LimitInv'
<1> DEFINE key == req[r].key
           x == [req[r] EXCEPT !.pc = "rejected", !.at = tick]
<1>1. /\ tick \in Nat /\ clients \in [Clients -> Entries] /\ req \in [Requests -> Flights]
      /\ since \in [Clients -> Nat \cup {Zero}]
      /\ granted \in [Clients -> Nat] /\ failed \in [Clients -> Nat]
      /\ \A i \in Requests : FlightOK(req[i], tick)
    BY DEF LimitInv
<1>2. /\ req[r].pc = "handling" /\ req' = [req EXCEPT ![r] = x]
      /\ failed' = [failed EXCEPT ![key] = @ + 1]
      /\ UNCHANGED <<tick, clients, since, granted>>
    BY DEF Refused
<1>3. x \in Flights /\ FlightOK(x, tick) /\ key \in Clients
    <2>1. req[r] \in Flights /\ FlightOK(req[r], tick)
        BY <1>1
    <2>2. key \in Clients
        BY <1>2, <2>1 DEF FlightOK
    <2>3. x \in Flights /\ x.pc = "rejected" /\ x.key = key /\ x.at = tick
        BY <1>1, <2>1, FlightMoves
    <2> HIDE DEF x, key
    <2> QED
        BY <1>1, <2>2, <2>3, RateConstants DEF FlightOK
<1>4. req' \in [Requests -> Flights] /\ \A i \in Requests : FlightOK(req'[i], tick)
    BY <1>1, <1>2, <1>3
<1>5. failed' \in [Clients -> Nat] /\ failed'[key] = failed[key] + 1
      /\ \A c \in Clients : c # key => failed'[c] = failed[c]
    BY <1>1, <1>2, <1>3
<1>6. ASSUME NEW c \in Clients
      PROVE  ClientOK(c, clients'[c], since'[c], granted'[c], failed'[c], req', tick')
    <2>1. ClientOK(c, clients[c], since[c], granted[c], failed[c], req, tick)
        BY DEF LimitInv
    <2>2. CASE c = key
        <3>1. ClientOK(c, clients[c], since[c], granted[c], failed[c] + 1, req', tick)
            BY <1>1, <1>2, <2>1, <2>2, ClientRefused
        <3> QED
            BY <1>2, <1>5, <2>2, <3>1
    <2>3. CASE c # key
        <3>1. /\ Handled(c, req') = Handled(c, req) /\ Rejected(c, req') = Rejected(c, req)
              /\ \A i \in Handled(c, req) \cup Rejected(c, req) : req'[i].at = req[i].at
            <4>1. req'[r].key = key /\ \A i \in Requests : i # r => req'[i] = req[i]
                BY <1>1, <1>2 DEF Flights
            <4> QED
                BY <2>3, <4>1 DEF Handled, Rejected
        <3>2. ClientOK(c, clients[c], since[c], granted[c], failed[c], req', tick)
            BY <2>1, <3>1, ClientSame
        <3> QED
            BY <1>2, <1>5, <2>3, <3>2
    <2> QED
        BY <2>2, <2>3
<1> QED
    BY <1>1, <1>2, <1>4, <1>5, <1>6 DEF LimitInv

LEMMA AllowInv ==
    ASSUME LimitInv, NEW r \in Requests, Allow(r)
    PROVE  LimitInv'
<1> DEFINE key == req[r].key
           t == req[r].at
           d == Refilled(clients[key], t)
           x == Served(d)
           y == Passed(req[r], d, tick)
           one == Admitted(d)
<1>1. /\ tick \in Nat /\ clients \in [Clients -> Entries] /\ req \in [Requests -> Flights]
      /\ since \in [Clients -> Nat \cup {Zero}]
      /\ granted \in [Clients -> Nat] /\ failed \in [Clients -> Nat]
      /\ \A i \in Requests : FlightOK(req[i], tick)
    BY DEF LimitInv
<1>2. req[r].pc = "arrived" /\ tick' = tick
    BY DEF Allow
<1>3. key \in Clients /\ Recent(t, tick) /\ t \in Nat /\ t <= tick
    BY <1>1, <1>2 DEF FlightOK, Flights, Recent
<1>4. PICK m \in client(key, t) :
         LET c == [requests |-> refill(m[key].requests, t, RequestRate, Burst),
                   failures |-> refill(m[key].failures, t, FailureRate, FailureBurst),
                   lastSeen |-> t]
         IN /\ clients' = [m EXCEPT ![key] =
                             IF Covered(c) THEN [c EXCEPT !.requests = take(@)] ELSE c]
            /\ req' = [req EXCEPT ![r] =
                         IF Covered(c) THEN [@ EXCEPT !.pc = "handling", !.at = tick]
                                       ELSE NoRequest]
            /\ Account(m, key, t, IF Covered(c) THEN 1 ELSE 0)
    BY DEF Allow
<1>5. m \in [Clients -> Entries] /\ m[key].requests = clients[key].requests
      /\ m[key].failures = clients[key].failures
    <2>1. /\ m \in [Clients -> Entries]
          /\ m[key] = IF clients[key] = NoClient THEN NewClient(t) ELSE clients[key]
        BY <1>3, LookupOthers
    <2> QED
        BY <2>1 DEF NewClient, NoClient
<1>6. /\ clients' = [m EXCEPT ![key] = x] /\ req' = [req EXCEPT ![r] = y]
      /\ Account(m, key, t, one)
    BY <1>4, <1>5 DEF Refilled, Served, Passed, Admitted
<1>7. /\ x \in Entries
      /\ ClientOK(key, x, Since(since[key], t), granted[key] + one, failed[key],
                  [req EXCEPT ![r] = y], tick)
    <2>1. ClientOK(key, clients[key], since[key], granted[key], failed[key], req, tick)
        BY <1>3 DEF LimitInv
    <2>2. clients[key] \in Entries /\ since[key] \in Nat \cup {Zero}
          /\ granted[key] \in Nat /\ failed[key] \in Nat
        BY <1>1, <1>3
    <2> QED
        BY <1>1, <1>2, <1>3, <2>1, <2>2, ClientAllow
<1>8. y \in Flights /\ FlightOK(y, tick) /\ (y.pc = "idle" \/ y.key = key)
    <2>1. NoRequest \in Flights /\ FlightOK(NoRequest, tick) /\ NoRequest.pc = "idle"
        BY <1>1 DEF NoRequest, Flights, FlightOK
    <2>2. \/ y = NoRequest
          \/ y \in Flights /\ y.pc = "handling" /\ y.key = key /\ y.at = tick
        <3>1. CASE Covered(d)
            <4>1. y = [req[r] EXCEPT !.pc = "handling", !.at = tick]
                BY <3>1 DEF Passed
            <4>2. req[r] \in Flights
                BY <1>1
            <4>3. tick \in Nat
                BY <1>1
            <4> HIDE DEF y
            <4> QED
                BY <4>1, <4>2, <4>3 DEF Flights
        <3>2. CASE ~Covered(d)
            BY <3>2 DEF Passed
        <3> QED
            BY <3>1, <3>2
    <2> HIDE DEF y, key
    <2> QED
        BY <1>1, <1>3, <2>1, <2>2, RateConstants DEF FlightOK
<1>9. one \in {0, 1}
    BY DEF Admitted
<1> HIDE DEF x, y, one, d, key, t
<1>10. req' \in [Requests -> Flights] /\ req'[r] = y
       /\ \A i \in Requests : FlightOK(req'[i], tick)
    BY <1>1, <1>6, <1>8
<1>11. clients'[key] = x /\ clients' = [m EXCEPT ![key] = clients'[key]]
       /\ req' = [req EXCEPT ![r] = req'[r]]
    BY <1>3, <1>5, <1>6, <1>10
<1>12. /\ clients' \in [Clients -> Entries]
       /\ since' \in [Clients -> Nat \cup {Zero}]
       /\ granted' \in [Clients -> Nat] /\ failed' \in [Clients -> Nat]
       /\ since'[key] = Since(since[key], t)
       /\ granted'[key] = granted[key] + one
       /\ failed'[key] = failed[key]
       /\ \A c \in Clients \ {key} :
            ClientOK(c, clients'[c], since'[c], granted'[c], failed'[c], req', tick')
    <2>1. req[r].key = key
        BY DEF key
    <2>2. clients'[key] \in Entries /\ (req'[r].pc = "idle" \/ req'[r].key = key)
        BY <1>7, <1>8, <1>10, <1>11
    <2>3. m \in client(key, t)
        BY <1>4
    <2>4. Account(m, key, t, one) /\ UNCHANGED tick
        BY <1>2, <1>6
    <2>5. clients' = [m EXCEPT ![key] = clients'[key]] /\ req' = [req EXCEPT ![r] = req'[r]]
        BY <1>11
    <2> QED
        BY <1>3, <1>9, <2>1, <2>2, <2>3, <2>4, <2>5, LookupAccount
<1>13. ClientOK(key, clients'[key], since'[key], granted'[key], failed'[key], req', tick')
    BY <1>2, <1>6, <1>7, <1>11, <1>12
<1> QED
    BY <1>1, <1>2, <1>10, <1>12, <1>13 DEF LimitInv

LEMMA RecordFailureInv ==
    ASSUME LimitInv, NEW r \in Requests, RecordFailure(r)
    PROVE  LimitInv'
<1> DEFINE key == req[r].key
           t == req[r].at
           e == Present(clients[key], t)
           x == Debit(e, t)
<1>1. /\ tick \in Nat /\ clients \in [Clients -> Entries] /\ req \in [Requests -> Flights]
      /\ since \in [Clients -> Nat \cup {Zero}]
      /\ granted \in [Clients -> Nat] /\ failed \in [Clients -> Nat]
      /\ \A i \in Requests : FlightOK(req[i], tick)
    BY DEF LimitInv
<1>2. req[r].pc = "rejected" /\ tick' = tick /\ req' = [req EXCEPT ![r] = NoRequest]
    BY DEF RecordFailure
<1>3. key \in Clients /\ Recent(t, tick) /\ t \in Nat /\ t <= tick
    BY <1>1, <1>2 DEF FlightOK, Flights, Recent
<1>4. PICK m \in client(key, t) :
         /\ clients' = [m EXCEPT ![key].failures =
                             take(refill(@, t, FailureRate, FailureBurst))]
         /\ Account(m, key, t, 0)
    BY DEF RecordFailure
<1>5. m \in [Clients -> Entries] /\ m[key] = e
    BY <1>3, LookupOthers DEF Present
<1>6. clients' = [m EXCEPT ![key] = x]
    BY <1>4, <1>5 DEF Debit
<1>7. /\ x \in Entries
      /\ ClientOK(key, x, Since(since[key], t), granted[key], failed[key],
                  [req EXCEPT ![r] = NoRequest], tick)
    <2>1. ClientOK(key, clients[key], since[key], granted[key], failed[key], req, tick)
        BY <1>3 DEF LimitInv
    <2>2. clients[key] \in Entries /\ since[key] \in Nat \cup {Zero}
          /\ granted[key] \in Nat /\ failed[key] \in Nat
        BY <1>1, <1>3
    <2> QED
        BY <1>1, <1>2, <1>3, <2>1, <2>2, ClientRecord
<1>8. NoRequest \in Flights /\ FlightOK(NoRequest, tick) /\ NoRequest.pc = "idle"
    BY <1>1 DEF Flights, FlightOK, NoRequest
<1> HIDE DEF x, e, key, t
<1>9. req' \in [Requests -> Flights] /\ req'[r] = NoRequest
      /\ \A i \in Requests : FlightOK(req'[i], tick)
    BY <1>1, <1>2, <1>8
<1>10. clients'[key] = x /\ clients' = [m EXCEPT ![key] = clients'[key]]
       /\ req' = [req EXCEPT ![r] = req'[r]]
    BY <1>2, <1>3, <1>5, <1>6, <1>9
<1>11. /\ clients' \in [Clients -> Entries]
       /\ since' \in [Clients -> Nat \cup {Zero}]
       /\ granted' \in [Clients -> Nat] /\ failed' \in [Clients -> Nat]
       /\ since'[key] = Since(since[key], t)
       /\ granted'[key] = granted[key] + 0
       /\ failed'[key] = failed[key]
       /\ \A c \in Clients \ {key} :
            ClientOK(c, clients'[c], since'[c], granted'[c], failed'[c], req', tick')
    <2>1. req[r].key = key
        BY DEF key
    <2> QED
        BY <1>2, <1>3, <1>4, <1>7, <1>8, <1>9, <1>10, <2>1, LookupAccount
<1>12. ClientOK(key, clients'[key], since'[key], granted'[key], failed'[key], req', tick')
    <2>1. granted'[key] = granted[key]
        BY <1>1, <1>3, <1>11
    <2> QED
        BY <1>2, <1>7, <1>10, <1>11, <2>1
<1> QED
    BY <1>1, <1>2, <1>9, <1>11, <1>12 DEF LimitInv

LEMMA LimitInvInductive == LimitInv /\ [LimitNext]_limitVars => LimitInv'
<1> SUFFICES ASSUME LimitInv, [LimitNext]_limitVars PROVE LimitInv'
    OBVIOUS
<1>1. CASE LimitTick
    BY <1>1, LimitTickInv
<1>2. ASSUME NEW r \in Requests, NEW c \in Clients, Arrive(r, c) PROVE LimitInv'
    BY <1>2, ArriveInv
<1>3. ASSUME NEW r \in Requests, Allow(r) PROVE LimitInv'
    BY <1>3, AllowInv
<1>4. ASSUME NEW r \in Requests, Answered(r) PROVE LimitInv'
    BY <1>4, AnsweredInv
<1>5. ASSUME NEW r \in Requests, Refused(r) PROVE LimitInv'
    BY <1>5, RefusedInv
<1>6. ASSUME NEW r \in Requests, RecordFailure(r) PROVE LimitInv'
    BY <1>6, RecordFailureInv
<1>7. CASE UNCHANGED limitVars
    BY <1>7 DEF limitVars, LimitInv
<1> QED
    BY <1>1, <1>2, <1>3, <1>4, <1>5, <1>6, <1>7 DEF LimitNext

LEMMA LimitInvBudgets == LimitInv => BudgetsHold
<1> SUFFICES ASSUME LimitInv, NEW c \in Clients
             PROVE  /\ granted[c] * Unit <= Burst + RequestRate * Elapsed(c)
                    /\ failed[c] * Unit <=
                          Cardinality(Requests) * (FailureBurst + FailureRate * Elapsed(c))
    BY DEF BudgetsHold
<1>1. /\ tick \in Nat /\ clients[c] \in Entries /\ req \in [Requests -> Flights]
      /\ since[c] \in Nat \cup {Zero} /\ granted[c] \in Nat /\ failed[c] \in Nat
      /\ \A r \in Requests : FlightOK(req[r], tick)
      /\ ClientOK(c, clients[c], since[c], granted[c], failed[c], req, tick)
    BY DEF LimitInv
<1>2. clients[c].requests \in Buckets
      /\ GrantOK(clients[c].requests, since[c], granted[c], tick) /\ since[c] <= tick
    BY <1>1 DEF ClientOK, Entries
<1>3. granted[c] * Unit <= Burst + RequestRate * Elapsed(c)
    BY <1>1, <1>2, GrantBound DEF Elapsed
<1>4. failed[c] * Unit <= Slots * (FailureBurst + FailureRate * Elapsed(c))
    BY <1>1, FailBound DEF Elapsed
<1> QED
    BY <1>3, <1>4 DEF Slots

(* BudgetsHold, for any number of clients, requests in flight and entries: *)
(* allow and recordFailure keep what they admit and what is rejected       *)
(* within the configured budgets.                                          *)
THEOREM BudgetsAlwaysHold == LimitSpec => []BudgetsHold
<1>1. LimitInit => LimitInv
    BY LimitInitInv
<1>2. LimitInv /\ [LimitNext]_limitVars => LimitInv'
    BY LimitInvInductive
<1>3. LimitInv => BudgetsHold
    BY LimitInvBudgets
<1> QED
    BY <1>1, <1>2, <1>3, PTL DEF LimitSpec

-----------------------------------------------------------------------------
(* Access rules.  A transaction is known by its plan: the rows it removes, *)
(* the rows it changes and the rules it adds, done or still to do.         *)
TxShape(t) == t = [open |-> t.open, todo |-> t.todo, rest |-> t.rest, group |-> t.group,
                   base |-> t.base, ins |-> t.ins, upd |-> t.upd, del |-> t.del, grp |-> t.grp]

Removals(t) == t.rest \cup t.del \cup {op.id : op \in {o \in t.todo : o.do = "delete"}}

Changes(t) == {op \in t.todo : op.do = "update"} \cup t.upd

Additions(t) == {op \in t.todo : op.do = "insert"} \cup t.ins

(* It cannot commit: an entry is incomplete or the second for its key.     *)
Doomed(t) == \E op \in t.todo : op.do = "fail"

(* A strict total order.                                                   *)
StrictOrder(S, O) ==
    /\ O \subseteq S \X S
    /\ \A i \in S : <<i, i>> \notin O
    /\ \A i, j \in S : i = j \/ <<i, j>> \in O \/ <<j, i>> \in O
    /\ \A i, j, l \in S : <<i, j>> \in O /\ <<j, l>> \in O => <<i, l>> \in O

FileDeclared(c) == Valid(c) => Rules(ToSet(c.specs)) \subseteq declared

FilesDeclared == FileDeclared(published) /\ \A r \in Replicas : FileDeclared(file[r])

Restricted == owner = "file" \/ ~manual

(* What the plan of a transaction is, whatever other transactions commit   *)
(* meanwhile: it adds and changes to declared rules only, and a replica    *)
(* removes or changes every rule that is not declared;                     *)
PlanDeclared(t) == \A p \in Additions(t) \cup Changes(t) : Rule(p) \in declared

PlanComplete(t) == \A row \in table : \/ Rule(row) \in declared
                                      \/ row.id \in Removals(t) \cup Ids(Changes(t))

(* it touches rows it has read and leaves them their keys, and it never    *)
(* removes the oldest row of a rule that every file declares.              *)
PlanOld(t) == Removals(t) \cup Ids(Changes(t)) \subseteq t.base

PlanKeys(t) == \A u \in Changes(t), row \in table : u.id = row.id => u.key = row.key

OldestSafe(t) == \A row \in table :
    DeclaredInAll(row.key) /\ OlderThan(older, row) = {} => row.id \notin Removals(t)

PlanInv(w, t) ==
    /\ TxShape(t)
    /\ t.open => owner = IF w \in Replicas THEN "file" ELSE "api"
    /\ t.open /\ ~Doomed(t) /\ Restricted => PlanDeclared(t)
    /\ t.open /\ ~Doomed(t) /\ w \in Replicas => PlanComplete(t) /\ OldestSafe(t)
    /\ t.open /\ w \in Replicas => PlanOld(t) /\ PlanKeys(t)

(* The rows with one id have one key, and the ids are in the order of      *)
(* their age.                                                              *)
SameKey == \A a, b \in table : a.id = b.id => a.key = b.key

RowsOrdered == Ids(table) \subseteq RuleIds /\ StrictOrder(Ids(table), older)

RulesInv ==
    /\ tx = [w \in Writers |-> tx[w]]
    /\ published \in Contents /\ file \in [Replicas -> Contents]
    /\ FilesDeclared /\ OnlyDeclared
    /\ owner = "file" => SameKey /\ RowsOrdered
    /\ \A w \in Writers : PlanInv(w, tx[w])

(* Replacing one value of a function.                                      *)
LEMMA TxReplaced ==
    ASSUME RulesInv, NEW w \in Writers, NEW n, tx' = [tx EXCEPT ![w] = n]
    PROVE  /\ tx' = [x \in Writers |-> tx'[x]] /\ tx'[w] = n
           /\ \A x \in Writers \ {w} : tx'[x] = tx[x]
BY DEF RulesInv

LEMMA NoTxClosed == TxShape(NoTx) /\ ~NoTx.open
BY DEF NoTx, TxShape

LEMMA ClosedPlan ==
    ASSUME NEW w, NEW t, TxShape(t), ~t.open
    PROVE  PlanInv(w, t)
BY DEF PlanInv

(* A plan remains what it is while rows stay and more is declared.         *)
LEMMA PlanStays ==
    ASSUME NEW w, NEW t, PlanInv(w, t),
           UNCHANGED <<owner, manual, table, older>>, declared \subseteq declared'
    PROVE  PlanInv(w, t)'
<1>1. Restricted' = Restricted /\ (PlanDeclared(t) => PlanDeclared(t)')
    BY DEF Restricted, PlanDeclared
<1>2. PlanComplete(t) => PlanComplete(t)'
    BY DEF PlanComplete
<1>3. OldestSafe(t) => OldestSafe(t)'
    BY DEF OldestSafe, OlderThan, Candidates
<1>4. PlanOld(t)' = PlanOld(t) /\ PlanKeys(t)' = PlanKeys(t)
    BY DEF PlanOld, PlanKeys
<1> QED
    BY <1>1, <1>2, <1>3, <1>4 DEF PlanInv

(* What holds of the tables holds while they stay.                         *)
LEMMA RowsStay ==
    ASSUME RulesInv, UNCHANGED <<owner, manual, table, older, inherited>>,
           declared \subseteq declared'
    PROVE  OnlyDeclared' /\ (owner' = "file" => SameKey' /\ RowsOrdered')
BY DEF RulesInv, OnlyDeclared, SameKey, RowsOrdered

(* A step of the file.                                                     *)
LEMMA FileStep ==
    ASSUME RulesInv, UNCHANGED <<owner, manual, table, older, tx, inherited>>,
           declared \subseteq declared', published' \in Contents, file' \in [Replicas -> Contents],
           FilesDeclared'
    PROVE  RulesInv'
<1>1. \A w \in Writers : PlanInv(w, tx[w])'
    <2> SUFFICES ASSUME NEW w \in Writers PROVE PlanInv(w, tx[w])'
        OBVIOUS
    <2>1. PICK t : t = tx[w]
        OBVIOUS
    <2>2. PlanInv(w, t)
        BY <2>1 DEF RulesInv
    <2>3. PlanInv(w, t)'
        BY <2>2, PlanStays
    <2>4. tx'[w] = t
        BY <2>1
    <2> QED
        BY <2>3, <2>4
<1> QED
    BY <1>1, RowsStay DEF RulesInv

(* A step that gives one writer a new transaction or none.                 *)
LEMMA PlanStep ==
    ASSUME RulesInv, NEW w \in Writers, NEW n, tx' = [tx EXCEPT ![w] = n], PlanInv(w, n)',
           UNCHANGED <<owner, manual, published, file, table, older, inherited>>,
           declared \subseteq declared'
    PROVE  RulesInv'
<1>1. \A x \in Writers : PlanInv(x, tx[x])'
    <2> SUFFICES ASSUME NEW x \in Writers PROVE PlanInv(x, tx[x])'
        OBVIOUS
    <2>1. CASE x = w
        <3>1. tx'[x] = n
            BY <2>1, TxReplaced
        <3> QED
            BY <2>1, <3>1
    <2>2. CASE x # w
        <3>1. PICK t : t = tx[x]
            OBVIOUS
        <3>2. PlanInv(x, t)'
            BY <3>1, PlanStays DEF RulesInv
        <3>3. tx'[x] = t
            BY <2>2, <3>1, TxReplaced
        <3> QED
            BY <3>2, <3>3
    <2> QED
        BY <2>1, <2>2
<1>2. FilesDeclared'
    BY DEF RulesInv, FilesDeclared, FileDeclared
<1> QED
    BY <1>1, <1>2, RowsStay, TxReplaced DEF RulesInv

(* A transaction goes on with the same plan.                               *)
Continues(t, n) ==
    /\ TxShape(n) /\ n.open = t.open /\ n.base = t.base
    /\ Doomed(t) => Doomed(n)
    /\ Additions(n) \subseteq Additions(t) /\ Removals(n) = Removals(t)
    /\ Ids(Changes(n)) = Ids(Changes(t))
    /\ \A u \in Changes(n) : \E v \in Changes(t) : v.id = u.id /\ v.key = u.key /\ v.val = u.val

LEMMA ContinuedPlan ==
    ASSUME NEW w, NEW t, NEW n, PlanInv(w, t), Continues(t, n)
    PROVE  PlanInv(w, n)
<1>1. PlanDeclared(t) => PlanDeclared(n)
    BY DEF Continues, PlanDeclared, Rule
<1>2. /\ PlanComplete(t) => PlanComplete(n)
      /\ OldestSafe(t) => OldestSafe(n)
      /\ PlanOld(t) => PlanOld(n)
    BY DEF Continues, PlanComplete, OldestSafe, PlanOld
<1>3. PlanKeys(t) => PlanKeys(n)
    BY DEF Continues, PlanKeys
<1> QED
    BY <1>1, <1>2, <1>3 DEF PlanInv, Continues

(* Statements move from the list to what is done.                          *)
LEMMA MovedInsert ==
    ASSUME NEW t, NEW n, TxShape(n), NEW op \in t.todo, op.do = "insert",
           n.open = t.open, n.base = t.base, n.rest = t.rest, n.del = t.del, n.upd = t.upd,
           n.todo = t.todo \ {op}, n.ins = t.ins \cup {op}
    PROVE  Continues(t, n)
<1>1. {o \in n.todo : o.do = "delete"} = {o \in t.todo : o.do = "delete"}
    OBVIOUS
<1>2. Changes(n) = Changes(t)
    BY DEF Changes
<1>3. Removals(n) = Removals(t)
    BY <1>1 DEF Removals
<1>4. Additions(n) \subseteq Additions(t)
    BY DEF Additions
<1>5. Doomed(t) => Doomed(n)
    BY DEF Doomed
<1> QED
    BY <1>2, <1>3, <1>4, <1>5 DEF Continues

LEMMA MovedUpdate ==
    ASSUME NEW t, NEW n, TxShape(n), NEW op \in t.todo, op.do = "update",
           n.open = t.open, n.base = t.base, n.rest = t.rest, n.del = t.del, n.ins = t.ins,
           n.todo = t.todo \ {op},
           n.upd = t.upd \cup {[id |-> op.id, key |-> op.key, val |-> op.val]}
    PROVE  Continues(t, n)
<1>1. {o \in n.todo : o.do = "delete"} = {o \in t.todo : o.do = "delete"}
    OBVIOUS
<1>2. Removals(n) = Removals(t)
    BY <1>1 DEF Removals
<1>3. Additions(n) \subseteq Additions(t)
    BY DEF Additions
<1>4. Doomed(t) => Doomed(n)
    BY DEF Doomed
<1>5. \A u \in Changes(n) : \E v \in Changes(t) : v.id = u.id /\ v.key = u.key /\ v.val = u.val
    <2> SUFFICES ASSUME NEW u \in Changes(n)
                 PROVE  \E v \in Changes(t) : v.id = u.id /\ v.key = u.key /\ v.val = u.val
        OBVIOUS
    <2>1. CASE u \in Changes(t)
        BY <2>1
    <2>2. CASE u = [id |-> op.id, key |-> op.key, val |-> op.val]
        <3>1. op \in Changes(t)
            BY DEF Changes
        <3>2. u.id = op.id /\ u.key = op.key /\ u.val = op.val
            BY <2>2
        <3> QED
            BY <3>1, <3>2
    <2> QED
        BY <2>1, <2>2 DEF Changes
<1>6. \A u \in Changes(t) : \E v \in Changes(n) : v.id = u.id
    <2>1. [id |-> op.id, key |-> op.key, val |-> op.val] \in Changes(n)
        BY DEF Changes
    <2>2. \A u \in Changes(t) : u = op \/ u \in Changes(n)
        BY DEF Changes
    <2> QED
        BY <2>1, <2>2
<1>7. Ids(Changes(n)) = Ids(Changes(t))
    BY <1>5, <1>6 DEF Ids
<1> QED
    BY <1>2, <1>3, <1>4, <1>5, <1>7 DEF Continues

LEMMA MovedDelete ==
    ASSUME NEW t, NEW n, TxShape(n), NEW id, NEW S, S \subseteq t.todo,
           \A op \in S : op.do = "delete" /\ op.id = id,
           id \in t.rest \/ S # {},
           n.open = t.open, n.base = t.base, n.ins = t.ins, n.upd = t.upd,
           n.todo = t.todo \ S, n.rest = t.rest \ {id}, n.del = t.del \cup {id}
    PROVE  Continues(t, n)
<1>1. Changes(n) = Changes(t)
    BY DEF Changes
<1>2. Additions(n) \subseteq Additions(t)
    BY DEF Additions
<1>3. Doomed(t) => Doomed(n)
    BY DEF Doomed
<1>4. Removals(n) = Removals(t)
    <2>1. id \in Removals(t)
        BY DEF Removals
    <2>2. Removals(n) \subseteq Removals(t)
        BY <2>1 DEF Removals
    <2>3. Removals(t) \subseteq Removals(n)
        BY DEF Removals
    <2> QED
        BY <2>2, <2>3
<1> QED
    BY <1>1, <1>2, <1>3, <1>4 DEF Continues

(* What a statement leaves alone.                                          *)
Quiet == UNCHANGED <<owner, manual, published, file, table, older, declared, inherited>>

LEMMA RollbackStep ==
    ASSUME RulesInv, NEW w \in Writers, tx' = [tx EXCEPT ![w] = NoTx], Quiet
    PROVE  RulesInv'
<1>1. PlanInv(w, NoTx)
    BY NoTxClosed, ClosedPlan
<1>2. PICK n : n = NoTx
    OBVIOUS
<1>3. PlanInv(w, n)'
    BY <1>1, <1>2, PlanStays DEF Quiet
<1> QED
    BY <1>2, <1>3, PlanStep DEF Quiet

LEMMA WorkStep ==
    ASSUME RulesInv, NEW w \in Writers, NEW n, tx' = [tx EXCEPT ![w] = n],
           Continues(tx[w], n), Quiet
    PROVE  RulesInv'
<1>1. PlanInv(w, n)
    BY ContinuedPlan DEF RulesInv
<1>2. PlanInv(w, n)'
    BY <1>1, PlanStays DEF Quiet
<1> QED
    BY <1>2, PlanStep DEF Quiet

LEMMA InsertRuleStep ==
    ASSUME RulesInv, NEW w \in Writers, InsertRule(w)
    PROVE  RulesInv'
<1>1. PICK op \in NextOps(w) :
        /\ tx[w].open /\ op.do = "insert" /\ ~tx[w].group
        /\ IF domain = "host" /\ GroupOf[op.key] \notin groups \cup tx[w].grp
           THEN Write(w, [tx[w] EXCEPT !.group = TRUE])
           ELSE Write(w, [Popped(w, op) EXCEPT !.ins = @ \cup {op}])
    BY DEF InsertRule
<1>2. PICK t : t = tx[w] /\ TxShape(t) /\ op \in t.todo
    BY <1>1 DEF RulesInv, PlanInv, NextOps
<1>3. CASE Write(w, [tx[w] EXCEPT !.group = TRUE])
    <2>1. PICK n : n = [t EXCEPT !.group = TRUE]
        OBVIOUS
    <2>2. /\ TxShape(n) /\ n.open = t.open /\ n.base = t.base /\ n.rest = t.rest
          /\ n.del = t.del /\ n.todo = t.todo /\ n.ins = t.ins /\ n.upd = t.upd
        BY <1>2, <2>1 DEF TxShape
    <2>3. Continues(t, n)
        BY <2>2 DEF Continues, Doomed, Additions, Removals, Changes
    <2> QED
        BY <1>2, <1>3, <2>1, <2>3, WorkStep DEF Write, Quiet
<1>4. CASE Write(w, [Popped(w, op) EXCEPT !.ins = @ \cup {op}])
    <2>1. PICK n : n = [[t EXCEPT !.todo = t.todo \ {op}, !.group = FALSE]
                          EXCEPT !.ins = t.ins \cup {op}]
        OBVIOUS
    <2>2. /\ TxShape(n) /\ n.open = t.open /\ n.base = t.base /\ n.rest = t.rest
          /\ n.del = t.del /\ n.todo = t.todo \ {op} /\ n.ins = t.ins \cup {op} /\ n.upd = t.upd
        BY <1>2, <2>1 DEF TxShape
    <2>3. Continues(t, n)
        BY <1>1, <1>2, <2>2, MovedInsert
    <2>4. n = [Popped(w, op) EXCEPT !.ins = @ \cup {op}]
        BY <1>2, <2>1 DEF Popped, TxShape
    <2> QED
        BY <1>2, <1>4, <2>3, <2>4, WorkStep DEF Write, Quiet
<1> QED
    BY <1>1, <1>3, <1>4

LEMMA InsertGroupStep ==
    ASSUME RulesInv, NEW w \in Writers, InsertGroup(w)
    PROVE  RulesInv'
<1>1. PICK op \in NextOps(w) :
        /\ tx[w].open /\ op.do = "insert"
        /\ IF GroupOf[op.key] \in groups
           THEN Rollback(w)
           ELSE Write(w, [Popped(w, op) EXCEPT !.grp = @ \cup {GroupOf[op.key]},
                                               !.ins = @ \cup {op}])
    BY DEF InsertGroup
<1>2. PICK t : t = tx[w] /\ TxShape(t) /\ op \in t.todo
    BY <1>1 DEF RulesInv, PlanInv, NextOps
<1>3. CASE Rollback(w)
    BY <1>3, RollbackStep DEF Rollback, Quiet
<1>4. CASE Write(w, [Popped(w, op) EXCEPT !.grp = @ \cup {GroupOf[op.key]},
                                          !.ins = @ \cup {op}])
    <2>1. PICK n : n = [[t EXCEPT !.todo = t.todo \ {op}, !.group = FALSE]
                          EXCEPT !.grp = t.grp \cup {GroupOf[op.key]}, !.ins = t.ins \cup {op}]
        OBVIOUS
    <2>2. /\ TxShape(n) /\ n.open = t.open /\ n.base = t.base /\ n.rest = t.rest
          /\ n.del = t.del /\ n.todo = t.todo \ {op} /\ n.ins = t.ins \cup {op} /\ n.upd = t.upd
        BY <1>2, <2>1 DEF TxShape
    <2>3. Continues(t, n)
        BY <1>1, <1>2, <2>2, MovedInsert
    <2>4. n = [Popped(w, op) EXCEPT !.grp = @ \cup {GroupOf[op.key]}, !.ins = @ \cup {op}]
        BY <1>2, <2>1 DEF Popped, TxShape
    <2> QED
        BY <1>2, <1>4, <2>3, <2>4, WorkStep DEF Write, Quiet
<1> QED
    BY <1>1, <1>3, <1>4

LEMMA UpdateRuleStep ==
    ASSUME RulesInv, NEW w \in Writers, UpdateRule(w)
    PROVE  RulesInv'
<1>1. PICK op \in NextOps(w) :
        /\ tx[w].open /\ op.do = "update"
        /\ IF op.id \notin Ids(table)
           THEN Rollback(w)
           ELSE Write(w, [Popped(w, op) EXCEPT !.upd = @ \cup
                            {[id |-> op.id, key |-> op.key, val |-> op.val]}])
    BY DEF UpdateRule
<1>2. PICK t : t = tx[w] /\ TxShape(t) /\ op \in t.todo
    BY <1>1 DEF RulesInv, PlanInv, NextOps
<1>3. CASE Rollback(w)
    BY <1>3, RollbackStep DEF Rollback, Quiet
<1>4. CASE Write(w, [Popped(w, op) EXCEPT !.upd = @ \cup
                       {[id |-> op.id, key |-> op.key, val |-> op.val]}])
    <2> DEFINE u == [id |-> op.id, key |-> op.key, val |-> op.val]
    <2>0. PICK v : v = {u}
        OBVIOUS
    <2>1. PICK n : n = [[t EXCEPT !.todo = t.todo \ {op}, !.group = FALSE]
                          EXCEPT !.upd = t.upd \cup v]
        OBVIOUS
    <2>2. /\ TxShape(n) /\ n.open = t.open /\ n.base = t.base /\ n.rest = t.rest
          /\ n.del = t.del /\ n.todo = t.todo \ {op} /\ n.ins = t.ins /\ n.upd = t.upd \cup v
        BY ONLY <1>2, <2>1 DEF TxShape
    <2>3. Continues(t, n)
        <3>1. n.upd = t.upd \cup {[id |-> op.id, key |-> op.key, val |-> op.val]}
            BY <2>0, <2>2
        <3> QED
            BY <1>1, <1>2, <2>2, <3>1, MovedUpdate
    <2>4. n = [Popped(w, op) EXCEPT !.upd = @ \cup v]
        BY ONLY <1>2, <2>1 DEF Popped, TxShape
    <2>5. Write(w, n)
        BY <1>4, <2>0, <2>4
    <2> QED
        BY <1>2, <2>3, <2>5, WorkStep DEF Write, Quiet
<1> QED
    BY <1>1, <1>3, <1>4

LEMMA DeleteRuleStep ==
    ASSUME RulesInv, NEW w \in Writers, NEW id \in RuleIds, DeleteRule(w, id)
    PROVE  RulesInv'
<1>1. PICK S : S = {op \in NextOps(w) : op.id = id}
    OBVIOUS
<1>2. PICK t : t = tx[w] /\ TxShape(t)
    BY DEF RulesInv, PlanInv
<1>3. CASE Rollback(w)
    BY <1>3, RollbackStep DEF Rollback, Quiet
<1>4. CASE Write(w, [tx[w] EXCEPT !.todo = @ \ S, !.rest = @ \ {id}, !.del = @ \cup {id}])
    <2>1. PICK n : n = [t EXCEPT !.todo = t.todo \ S, !.rest = t.rest \ {id},
                                 !.del = t.del \cup {id}]
        OBVIOUS
    <2>2. /\ TxShape(n) /\ n.open = t.open /\ n.base = t.base /\ n.rest = t.rest \ {id}
          /\ n.del = t.del \cup {id} /\ n.todo = t.todo \ S /\ n.ins = t.ins /\ n.upd = t.upd
        BY ONLY <1>2, <2>1 DEF TxShape
    <2>3. S \subseteq t.todo /\ \A op \in S : op.do = "delete" /\ op.id = id
        BY <1>1, <1>2 DEF DeleteRule, NextOps
    <2>4. id \in t.rest \/ S # {}
        BY <1>1, <1>2 DEF DeleteRule, NextRows
    <2>5. Continues(t, n)
        BY <2>2, <2>3, <2>4, MovedDelete
    <2>6. n = [tx[w] EXCEPT !.todo = @ \ S, !.rest = @ \ {id}, !.del = @ \cup {id}]
        BY ONLY <1>2, <2>1 DEF TxShape
    <2>7. Write(w, n)
        BY <1>4, <2>6
    <2> QED
        BY <1>2, <2>5, <2>7, WorkStep DEF Write, Quiet
<1> QED
    BY <1>1, <1>3, <1>4 DEF DeleteRule

-----------------------------------------------------------------------------
(* The plan a replica makes from its file, and an administrator from a     *)
(* request.                                                                *)
LEMMA PlanFields ==
    ASSUME NEW todo, NEW rest, NEW base
    PROVE  LET n == [NoTx EXCEPT !.open = TRUE, !.base = base, !.todo = todo, !.rest = rest]
           IN /\ TxShape(n) /\ n.open /\ n.todo = todo /\ n.rest = rest /\ n.base = base
              /\ n.ins = {} /\ n.upd = {} /\ n.del = {}
<1> DEFINE n == [NoTx EXCEPT !.open = TRUE, !.base = base, !.todo = todo, !.rest = rest]
<1>1. PICK t : t = NoTx /\ TxShape(t) /\ t.ins = {} /\ t.upd = {} /\ t.del = {}
    BY NoTxClosed DEF NoTx
<1>2. PICK m : m = [t EXCEPT !.open = TRUE, !.base = base, !.todo = todo, !.rest = rest]
    OBVIOUS
<1>3. /\ TxShape(m) /\ m.open /\ m.todo = todo /\ m.rest = rest /\ m.base = base
      /\ m.ins = t.ins /\ m.upd = t.upd /\ m.del = t.del
    BY ONLY <1>1, <1>2 DEF TxShape
<1>4. m = n
    BY <1>1, <1>2
<1> HIDE DEF n
<1> QED
    BY <1>1, <1>3, <1>4 DEF n

(* The statements of one entry.                                            *)
LEMMA SpecOpsFacts ==
    ASSUME NEW order, NEW specs, NEW i
    PROVE  LET k == specs[i].key
               ops == SpecOps(order, specs, i)
               failing == ~Complete(specs[i]) \/ \E j \in 1..(i - 1) : specs[j].key = k
           IN /\ \A op \in ops :
                   /\ op.do = "fail" => failing
                   /\ op.do = "insert" => op.key = k /\ op.val = specs[i].val
                   /\ op.do = "delete" => \E row \in Duplicates(order, k) : op.id = row.id
                   /\ op.do = "update" =>
                        /\ op.key = k /\ op.val = specs[i].val
                        /\ \E row \in Candidates(k) : op.id = row.id
                   /\ op.do \in {"insert", "update"} => ~failing
              /\ failing => \E op \in ops : op.do = "fail"
              /\ ~failing => \A row \in Candidates(k) :
                   \/ row.val = specs[i].val
                   \/ \E op \in ops : op.do \in {"delete", "update"} /\ op.id = row.id
<1> DEFINE k == specs[i].key
           v == specs[i].val
           ops == SpecOps(order, specs, i)
           failing == ~Complete(specs[i]) \/ \E j \in 1..(i - 1) : specs[j].key = k
           Dels == {[do |-> "delete", entry |-> i, step |-> Cardinality(OlderThan(order, row)),
                     id |-> row.id] : row \in Duplicates(order, k)}
           Upds == {[do |-> "update", entry |-> i, step |-> Cardinality(Candidates(k)),
                     id |-> row.id, key |-> k, val |-> v] :
                       row \in {c \in Candidates(k) \ Duplicates(order, k) : c.val # v}}
<1>1. CASE failing
    <2>1. ops = {[do |-> "fail", entry |-> i, step |-> 0]}
        BY <1>1 DEF SpecOps
    <2>2. \A op \in ops : op.do = "fail"
        BY <2>1
    <2>3. \E op \in ops : op.do = "fail"
        BY <2>1
    <2> HIDE DEF ops, failing
    <2>4. \A op \in ops : op.do \notin {"insert", "delete", "update"}
        BY <2>2
    <2>5. QED
        BY <1>1, <2>2, <2>3, <2>4 DEF ops, failing
<1>2. CASE ~failing /\ Candidates(k) = {}
    <2>1. ops = {[do |-> "insert", entry |-> i, step |-> 0, key |-> k, val |-> v]}
        BY <1>2 DEF SpecOps
    <2>2. \A op \in ops : op.do = "insert" /\ op.key = k /\ op.val = v
        BY <2>1
    <2> HIDE DEF ops, failing, k, v
    <2>4. \A op \in ops : op.do \notin {"fail", "delete", "update"}
        BY <2>2
    <2>5. QED
        BY <1>2, <2>2, <2>4 DEF ops, failing, k, v
<1>3. CASE ~failing /\ Candidates(k) # {}
    <2>1. ops = Dels \cup Upds
        BY <1>3 DEF SpecOps
    <2>2. \A op \in Dels : op.do = "delete" /\ \E row \in Duplicates(order, k) : op.id = row.id
        OBVIOUS
    <2>3. \A op \in Upds : /\ op.do = "update" /\ op.key = k /\ op.val = v
                           /\ \E row \in Candidates(k) : op.id = row.id
        OBVIOUS
    <2>4. ASSUME NEW row \in Duplicates(order, k)
          PROVE  \E op \in Dels : op.do = "delete" /\ op.id = row.id
        <3>1. PICK op : op = [do |-> "delete", entry |-> i,
                              step |-> Cardinality(OlderThan(order, row)), id |-> row.id]
            OBVIOUS
        <3>2. op.do = "delete" /\ op.id = row.id
            BY ONLY <3>1
        <3>3. op \in Dels
            BY <3>1
        <3> QED
            BY <3>2, <3>3
    <2>5. ASSUME NEW row \in Candidates(k) \ Duplicates(order, k), row.val # v
          PROVE  \E op \in Upds : op.do = "update" /\ op.id = row.id
        <3>1. PICK op : op = [do |-> "update", entry |-> i, step |-> Cardinality(Candidates(k)),
                              id |-> row.id, key |-> k, val |-> v]
            OBVIOUS
        <3>2. op.do = "update" /\ op.id = row.id
            BY ONLY <3>1
        <3>3. op \in Upds
            BY <2>5, <3>1
        <3> QED
            BY <3>2, <3>3
    <2> HIDE DEF Dels, Upds, k, v, failing
    <2>6. \A op \in ops : op.do \notin {"fail", "insert"}
        BY <2>1, <2>2, <2>3
    <2>7. \A op \in ops : op.do = "delete" => op \in Dels
        BY <2>1, <2>2, <2>3
    <2>8. \A op \in ops : op.do = "update" => op \in Upds
        BY <2>1, <2>2, <2>3
    <2>9. \A row \in Candidates(k) :
             \/ row.val = v
             \/ \E op \in ops : op.do \in {"delete", "update"} /\ op.id = row.id
        BY <2>1, <2>4, <2>5
    <2> HIDE DEF ops
    <2> QED
        BY <1>3, <2>2, <2>3, <2>6, <2>7, <2>8, <2>9 DEF k, v, failing, ops
<1> QED
    BY <1>1, <1>2, <1>3

(* The plan that ApplyGrants makes of a file or a request.                 *)
ApplyPlanned(n, specs) ==
    /\ TxShape(n) /\ n.open /\ n.ins = {} /\ n.upd = {} /\ n.del = {}
    /\ n.todo = UNION {SpecOps(older, specs, i) : i \in DOMAIN specs}
    /\ n.rest = Undeclared(specs) /\ n.base = Ids(table)

LEMMA ApplyPlans ==
    ASSUME NEW w, NEW specs, Apply(w, specs)
    PROVE  \E n : ApplyPlanned(n, specs) /\ tx' = [tx EXCEPT ![w] = n]
<1> DEFINE todo == UNION {SpecOps(older, specs, i) : i \in DOMAIN specs}
           rest == Undeclared(specs)
           base == Ids(table)
           n == [NoTx EXCEPT !.open = TRUE, !.base = base, !.todo = todo, !.rest = rest]
<1>1. tx' = [tx EXCEPT ![w] = n]
    BY DEF Apply, Existing
<1> HIDE DEF todo, rest, base
<1>2. /\ TxShape(n) /\ n.open /\ n.todo = todo /\ n.rest = rest /\ n.base = base
      /\ n.ins = {} /\ n.upd = {} /\ n.del = {}
    BY PlanFields
<1> HIDE DEF n
<1>3. ApplyPlanned(n, specs)
    BY <1>2 DEF ApplyPlanned, todo, rest, base
<1> QED
    BY <1>1, <1>3

LEMMA PlanOfFile ==
    ASSUME NEW c \in Contents, c.ok, NEW n, ApplyPlanned(n, c.specs)
    PROVE  /\ ~Doomed(n) =>
                /\ Valid(c)
                /\ \A p \in Additions(n) \cup Changes(n) : Rule(p) \in Rules(ToSet(c.specs))
                /\ \A row \in table : \/ Rule(row) \in Rules(ToSet(c.specs))
                                      \/ row.id \in Removals(n) \cup Ids(Changes(n))
           /\ PlanOld(n)
           /\ SameKey => PlanKeys(n)
           /\ SameKey /\ ~Doomed(n) => OldestSafe(n)
<1> DEFINE specs == c.specs
           Ops(i) == SpecOps(older, specs, i)
           K(i) == specs[i].key
           Failing(i) == ~Complete(specs[i]) \/ \E j \in 1..(i - 1) : specs[j].key = specs[i].key
<1>0. specs \in Seq([key : Keys, val : Vals \cup {Invalid}])
    BY RulesAssumption
<1>1. DOMAIN specs \subseteq Nat \ {0}
    <2> HIDE DEF specs
    <2> QED
        BY ONLY <1>0
<1>2. /\ n.ins = {} /\ n.upd = {} /\ n.del = {} /\ n.rest = Undeclared(specs)
      /\ n.base = Ids(table)
      /\ \A op : op \in n.todo <=> \E i \in DOMAIN specs : op \in Ops(i)
    BY DEF ApplyPlanned
<1>3. \A i \in DOMAIN specs :
        /\ \A op \in Ops(i) :
                   /\ op.do = "fail" => Failing(i)
                   /\ op.do = "insert" => op.key = K(i) /\ op.val = specs[i].val
                   /\ op.do = "delete" => \E row \in Duplicates(older, K(i)) : op.id = row.id
                   /\ op.do = "update" =>
                        /\ op.key = K(i) /\ op.val = specs[i].val
                        /\ \E row \in Candidates(K(i)) : op.id = row.id
        /\ Failing(i) => \E op \in Ops(i) : op.do = "fail"
        /\ ~Failing(i) => \A row \in Candidates(K(i)) :
                   \/ row.val = specs[i].val
                   \/ \E op \in Ops(i) : op.do \in {"delete", "update"} /\ op.id = row.id
    BY SpecOpsFacts
<1> HIDE DEF Ops
<1>4. ASSUME ~Doomed(n) PROVE \A i \in DOMAIN specs : ~Failing(i)
    BY <1>2, <1>3, <1>4 DEF Doomed
<1>5. ASSUME ~Doomed(n) PROVE Valid(c)
    <2>1. \A i \in DOMAIN specs : Complete(specs[i])
        BY <1>4, <1>5
    <2>2. ASSUME NEW i \in DOMAIN specs, NEW j \in DOMAIN specs, specs[i].key = specs[j].key
          PROVE  i = j
        <3>1. ~Failing(i) /\ ~Failing(j) /\ i \in Nat /\ j \in Nat /\ i >= 1 /\ j >= 1
            BY <1>1, <1>4, <1>5
        <3>2. j \notin 1..(i - 1) /\ i \notin 1..(j - 1)
            BY <2>2, <3>1
        <3> QED
            BY <3>1, <3>2
    <2> QED
        BY <2>1, <2>2 DEF Valid
<1>6. \A i \in DOMAIN specs : Rule(specs[i]) \in Rules(ToSet(specs))
    BY DEF Rules, ToSet
<1>7. \A p \in Additions(n) \cup Changes(n) :
        \E i \in DOMAIN specs : p \in Ops(i) /\ p.key = K(i) /\ p.val = specs[i].val
    BY <1>2, <1>3 DEF Additions, Changes
<1>8. \A p \in Additions(n) \cup Changes(n) : Rule(p) \in Rules(ToSet(specs))
    BY <1>6, <1>7 DEF Rule
<1>9. ASSUME ~Doomed(n), NEW row \in table
      PROVE  Rule(row) \in Rules(ToSet(specs)) \/ row.id \in Removals(n) \cup Ids(Changes(n))
    <2>1. CASE \A j \in DOMAIN specs : specs[j].key # row.key
        BY <1>2, <2>1 DEF Removals, Undeclared, Ids
    <2>2. CASE \E j \in DOMAIN specs : specs[j].key = row.key
        <3>1. PICK j \in DOMAIN specs : specs[j].key = row.key
            BY <2>2
        <3>2. row \in Candidates(K(j)) /\ ~Failing(j)
            BY <1>4, <1>9, <3>1 DEF Candidates
        <3>3. CASE row.val = specs[j].val
            BY <1>6, <3>1, <3>3 DEF Rule
        <3>4. CASE \E op \in Ops(j) : op.do \in {"delete", "update"} /\ op.id = row.id
            <4>1. PICK op \in Ops(j) : op.do \in {"delete", "update"} /\ op.id = row.id
                BY <3>4
            <4>2. op \in n.todo
                BY <1>2, <4>1
            <4> QED
                BY <4>1, <4>2 DEF Removals, Changes, Ids
        <3> QED
            BY <1>3, <3>2, <3>3, <3>4
    <2> QED
        BY <2>1, <2>2
<1>10. \A u \in Changes(n) : \E i \in DOMAIN specs : 
          u.key = K(i) /\ \E row \in Candidates(K(i)) : u.id = row.id
    BY <1>2, <1>3 DEF Changes
<1>11. \A d \in Removals(n) :
          \/ \E row \in table : d = row.id /\ \A j \in DOMAIN specs : specs[j].key # row.key
          \/ \E i \in DOMAIN specs : \E row \in Duplicates(older, K(i)) : d = row.id
    BY <1>2, <1>3 DEF Removals, Undeclared, Ids
<1>12. PlanOld(n)
    BY <1>2, <1>10, <1>11 DEF PlanOld, Ids, Candidates, Duplicates
<1>13. SameKey => PlanKeys(n)
    BY <1>10 DEF SameKey, PlanKeys, Candidates
<1>14. ASSUME SameKey, ~Doomed(n), NEW row \in table, DeclaredInAll(row.key),
              OlderThan(older, row) = {}, row.id \in Removals(n)
       PROVE  FALSE
    <2>1. \E i \in DOMAIN specs : specs[i].key = row.key
        BY <1>5, <1>14 DEF DeclaredInAll
    <2>2. CASE \E r \in table : row.id = r.id /\ \A j \in DOMAIN specs : specs[j].key # r.key
        BY <1>14, <2>1, <2>2 DEF SameKey
    <2>3. CASE \E i \in DOMAIN specs : \E r \in Duplicates(older, K(i)) : row.id = r.id
        <3>1. PICK r \in table : row.id = r.id /\ OlderThan(older, r) # {}
            BY <2>3 DEF Duplicates, Candidates
        <3>2. r.key = row.key
            BY <1>14, <3>1 DEF SameKey
        <3>3. OlderThan(older, r) = OlderThan(older, row)
            BY <3>1, <3>2 DEF OlderThan
        <3> QED
            BY <1>14, <3>1, <3>3
    <2> QED
        BY <1>11, <1>14, <2>2, <2>3
<1>15. SameKey /\ ~Doomed(n) => OldestSafe(n)
    BY <1>14 DEF OldestSafe
<1> QED
    BY <1>5, <1>8, <1>9, <1>12, <1>13, <1>15

LEMMA SyncRulesStep ==
    ASSUME RulesInv, NEW r \in Replicas, SyncRules(r)
    PROVE  RulesInv'
<1>0. r \in Writers
    BY DEF Writers
<1>1. PICK n : ApplyPlanned(n, file[r].specs) /\ tx' = [tx EXCEPT ![r] = n]
    BY ApplyPlans DEF SyncRules
<1>2. PICK c : c = file[r] /\ c \in Contents /\ c.ok /\ FileDeclared(c)
    BY DEF SyncRules, RulesInv, FilesDeclared
<1>3. SameKey /\ owner = "file"
    BY DEF SyncRules, RulesInv
<1>4. TxShape(n) /\ n.open
    BY <1>1 DEF ApplyPlanned
<1>5. /\ ~Doomed(n) => Rules(ToSet(c.specs)) \subseteq declared
      /\ PlanOld(n) /\ PlanKeys(n) /\ (~Doomed(n) => OldestSafe(n))
      /\ ~Doomed(n) => \A p \in Additions(n) \cup Changes(n) : Rule(p) \in Rules(ToSet(c.specs))
      /\ ~Doomed(n) => \A row \in table : \/ Rule(row) \in Rules(ToSet(c.specs))
                                          \/ row.id \in Removals(n) \cup Ids(Changes(n))
    BY <1>1, <1>2, <1>3, PlanOfFile DEF FileDeclared
<1>6. ~Doomed(n) => PlanDeclared(n) /\ PlanComplete(n)
    BY <1>5 DEF PlanDeclared, PlanComplete
<1>7. PlanInv(r, n)
    BY <1>3, <1>4, <1>5, <1>6 DEF PlanInv
<1>8. UNCHANGED <<owner, manual, published, file, table, older, inherited, declared>>
    BY DEF SyncRules
<1>9. PlanInv(r, n)'
    BY <1>7, <1>8, PlanStays
<1> QED
    BY <1>0, <1>1, <1>8, <1>9, PlanStep

LEMMA AdminApplyStep ==
    ASSUME RulesInv, NEW a \in Admins, NEW c \in Contents, AdminApply(a, c)
    PROVE  RulesInv'
<1>0. a \in Writers /\ a \notin Replicas
    BY RulesAssumption DEF Writers
<1>1. PICK n : ApplyPlanned(n, c.specs) /\ tx' = [tx EXCEPT ![a] = n]
    BY ApplyPlans DEF AdminApply
<1>2. TxShape(n) /\ n.open
    BY <1>1 DEF ApplyPlanned
<1>3. /\ declared \subseteq declared' /\ (Valid(c) => Rules(ToSet(c.specs)) \subseteq declared')
      /\ UNCHANGED <<owner, manual, published, file, table, older, inherited>>
      /\ owner = "api" /\ c.ok
    BY DEF AdminApply, GateApply
<1>4. ~Doomed(n) => \A p \in Additions(n) \cup Changes(n) : Rule(p) \in declared'
    BY <1>1, <1>3, PlanOfFile
<1>5. ~Doomed(n) => PlanDeclared(n)'
    BY <1>4 DEF PlanDeclared
<1>6. PlanInv(a, n)'
    BY <1>0, <1>2, <1>3, <1>5 DEF PlanInv
<1> QED
    BY <1>0, <1>1, <1>3, <1>6, PlanStep

LEMMA EditStep ==
    ASSUME RulesInv, NEW a \in Admins, NEW op, Edit(a, op)
    PROVE  RulesInv'
<1>0. a \in Writers /\ a \notin Replicas
    BY RulesAssumption DEF Writers
<1>1. PICK n : n = [NoTx EXCEPT !.open = TRUE, !.base = Ids(table), !.todo = {op}]
    OBVIOUS
<1>2. TxShape(n)
    BY <1>1, NoTxClosed DEF TxShape
<1>3. /\ UNCHANGED <<owner, manual, published, file, table, older, inherited, declared>>
      /\ owner = "api" /\ ~Restricted /\ tx' = [tx EXCEPT ![a] = n]
    BY <1>1 DEF Edit, GateCRUD, Restricted
<1>4. PlanInv(a, n)
    BY <1>0, <1>2, <1>3 DEF PlanInv
<1>5. PlanInv(a, n)'
    BY <1>3, <1>4, PlanStays
<1> QED
    BY <1>0, <1>3, <1>5, PlanStep

LEMMA PublishStep ==
    ASSUME RulesInv, NEW c \in Contents, Publish(c)
    PROVE  RulesInv'
<1>1. /\ UNCHANGED <<owner, manual, table, older, tx, inherited, file>> /\ published' = c
      /\ declared \subseteq declared' /\ (Valid(c) => Rules(ToSet(c.specs)) \subseteq declared')
    BY DEF Publish
<1>2. FilesDeclared'
    BY <1>1 DEF RulesInv, FilesDeclared, FileDeclared
<1> QED
    BY <1>1, <1>2, FileStep DEF RulesInv

LEMMA PropagateStep ==
    ASSUME RulesInv, NEW r \in Replicas, Propagate(r)
    PROVE  RulesInv'
<1>1. /\ UNCHANGED <<owner, manual, table, older, tx, inherited, published, declared>>
      /\ file' = [file EXCEPT ![r] = published]
    BY DEF Propagate
<1>2. file' \in [Replicas -> Contents]
    BY <1>1 DEF RulesInv
<1>3. FilesDeclared'
    BY <1>1 DEF RulesInv, FilesDeclared, FileDeclared
<1> QED
    BY <1>1, <1>2, <1>3, FileStep DEF RulesInv

-----------------------------------------------------------------------------
(* The order of the rows.                                                  *)

(* Ids that join a strict total order, after those in B and before the     *)
(* others, keep it one.                                                    *)
LEMMA OrderExtended ==
    ASSUME NEW I, NEW O, StrictOrder(I, O), NEW K, K \subseteq I, NEW B, B \subseteq K,
           NEW N, N \subseteq Nat, N \cap I = {},
           \A i \in K \ B, j \in B : <<i, j>> \notin O
    PROVE  StrictOrder(K \cup N, (O \cap (K \X K)) \cup (B \X N) \cup (N \X (K \ B))
                                   \cup {o \in N \X N : o[1] < o[2]})
<1> DEFINE P == (O \cap (K \X K)) \cup (B \X N) \cup (N \X (K \ B))
                  \cup {o \in N \X N : o[1] < o[2]}
<1>1. P \subseteq (K \cup N) \X (K \cup N)
    OBVIOUS
<1>2. \A i, j \in K : <<i, j>> \in P <=> <<i, j>> \in O
    OBVIOUS
<1>3. \A i \in K, j \in N : /\ <<i, j>> \in P <=> i \in B
                            /\ <<j, i>> \in P <=> i \notin B
    OBVIOUS
<1>4. \A i, j \in N : <<i, j>> \in P <=> i < j
    OBVIOUS
<1>5. K \cap N = {}
    OBVIOUS
<1> HIDE DEF P
<1>6. ASSUME NEW i \in K \cup N PROVE <<i, i>> \notin P
    <2>1. CASE i \in K
        BY <1>2, <2>1 DEF StrictOrder
    <2>2. CASE i \in N
        BY <1>4, <2>2
    <2> QED
        BY <2>1, <2>2
<1>7. ASSUME NEW i \in K \cup N, NEW j \in K \cup N
      PROVE  i = j \/ <<i, j>> \in P \/ <<j, i>> \in P
    <2>1. CASE i \in K /\ j \in K
        BY <1>2, <2>1 DEF StrictOrder
    <2>2. CASE i \in K /\ j \in N
        BY <1>3, <2>2
    <2>3. CASE i \in N /\ j \in K
        BY <1>3, <2>3
    <2>4. CASE i \in N /\ j \in N
        <3>1. i \in Nat /\ j \in Nat
            BY <2>4
        <3>2. i = j \/ i < j \/ j < i
            BY <3>1
        <3> QED
            BY <1>4, <2>4, <3>2
    <2> QED
        BY <2>1, <2>2, <2>3, <2>4
<1>8. ASSUME NEW i \in K \cup N, NEW j \in K \cup N, NEW l \in K \cup N,
             <<i, j>> \in P, <<j, l>> \in P
      PROVE  <<i, l>> \in P
    <2>1. CASE i \in K /\ j \in K /\ l \in K
        BY <1>2, <1>8, <2>1 DEF StrictOrder
    <2>2. CASE i \in K /\ j \in K /\ l \in N
        BY <1>2, <1>3, <1>8, <2>2
    <2>3. CASE i \in K /\ j \in N /\ l \in K
        <3>1. i \in B /\ l \in K \ B
            BY <1>3, <1>8, <2>3
        <3>2. <<l, i>> \notin O /\ i # l
            BY <3>1
        <3> QED
            BY <1>2, <2>3, <3>2 DEF StrictOrder
    <2>4. CASE i \in K /\ j \in N /\ l \in N
        BY <1>3, <1>8, <2>4
    <2>5. CASE i \in N /\ j \in K /\ l \in K
        BY <1>2, <1>3, <1>8, <2>5
    <2>6. CASE i \in N /\ j \in K /\ l \in N
        BY <1>3, <1>8, <2>6
    <2>7. CASE i \in N /\ j \in N /\ l \in K
        BY <1>3, <1>8, <2>7
    <2>8. CASE i \in N /\ j \in N /\ l \in N
        BY <1>4, <1>8, <2>8
    <2> QED
        BY <2>1, <2>2, <2>3, <2>4, <2>5, <2>6, <2>7, <2>8
<1>9. StrictOrder(K \cup N, P)
    BY <1>1, <1>6, <1>7, <1>8 DEF StrictOrder
<1> QED
    BY <1>9 DEF P

(* A part of a finite ordered set has a least element.                     *)
LEMMA LeastElement ==
    ASSUME NEW S, IsFiniteSet(S), NEW O, StrictOrder(S, O), NEW T, T \subseteq S, T # {}
    PROVE  \E e \in T : \A d \in T : <<d, e>> \notin O
<1> DEFINE Before(e) == {d \in S : <<d, e>> \in O}
           Counts == {Cardinality(Before(e)) : e \in T}
           R == OpToRel(<, Nat)
<1>1. \A e \in S : IsFiniteSet(Before(e)) /\ Cardinality(Before(e)) \in Nat
    <2> TAKE e \in S
    <2>1. IsFiniteSet(Before(e))
        BY FS_Subset
    <2> QED
        BY <2>1, FS_CardinalityType
<1>2. Counts \subseteq Nat /\ Counts # {}
    BY <1>1
<1>3. IsWellFoundedOn(R, Nat)
    BY NatLessThanWellFounded
<1>4. \E t \in Counts : \A u \in Counts : ~ (<<u, t>> \in R)
    <2> HIDE DEF Counts, R
    <2> QED
        BY <1>2, <1>3, WFMin
<1>5. PICK t \in Counts : \A u \in Counts : ~ (<<u, t>> \in R)
    BY <1>4
<1>6. \A u \in Counts : u \in Nat /\ t \in Nat /\ ~ (u < t)
    BY <1>2, <1>5 DEF OpToRel
<1>7. PICK e \in T : t = Cardinality(Before(e))
    OBVIOUS
<1>8. ASSUME NEW d \in T, <<d, e>> \in O PROVE FALSE
    <2>1. Before(d) \subseteq Before(e) /\ d \in Before(e) /\ d \notin Before(d)
        BY <1>8 DEF StrictOrder
    <2>2. Cardinality(Before(d)) < Cardinality(Before(e))
        <3>1. /\ IsFiniteSet(Before(e)) /\ Before(d) \in SUBSET Before(e)
              /\ Before(d) # Before(e)
              /\ Cardinality(Before(d)) \in Nat /\ Cardinality(Before(e)) \in Nat
            BY <1>1, <2>1
        <3> HIDE DEF Before
        <3>2. /\ Cardinality(Before(d)) <= Cardinality(Before(e))
              /\ Cardinality(Before(d)) # Cardinality(Before(e))
            BY <3>1, FS_Subset
        <3> QED
            BY <3>1, <3>2
    <2>3. Cardinality(Before(d)) \in Counts
        OBVIOUS
    <2> QED
        BY <1>6, <1>7, <2>2, <2>3
<1> QED
    BY <1>8

(* A rule that has rows has an oldest one.                                 *)
LEMMA OldestRow ==
    ASSUME RowsOrdered, NEW row \in table
    PROVE  \E e \in table : e.key = row.key /\ OlderThan(older, e) = {}
<1> DEFINE T == Ids(Candidates(row.key))
<1>1. IsFiniteSet(Ids(table)) /\ StrictOrder(Ids(table), older)
    BY FS_Subset, RulesAssumption DEF RowsOrdered
<1>2. T \subseteq Ids(table) /\ row.id \in T
    BY DEF Ids, Candidates
<1> HIDE DEF T
<1>3. PICK i \in T : \A j \in T : <<j, i>> \notin older
    BY <1>1, <1>2, LeastElement
<1>4. PICK e \in Candidates(row.key) : e.id = i
    BY DEF T, Ids
<1>5. \A c \in Candidates(row.key) : c.id \in T
    BY DEF T, Ids
<1>6. OlderThan(older, e) = {}
    BY <1>3, <1>4, <1>5 DEF OlderThan, Candidates
<1> QED
    BY <1>4, <1>6 DEF Candidates

-----------------------------------------------------------------------------
(* A commit.  kept are the ids of the rows that stay, new those of the     *)
(* rows that are inserted.                                                 *)
CommitsRows(w, kept, new) ==
    /\ kept = Ids(Written(w)) /\ new \subseteq FreeIds
    /\ \A row \in table' : \/ row \in Written(w)
                           \/ row.id \in new /\ \E op \in tx[w].ins : Rule(row) = Rule(op)
    /\ Written(w) \subseteq table' /\ Ids(table') = kept \cup new
    /\ \A a, b \in table' : a.id \in new /\ a.id = b.id => a.key = b.key
    /\ \E before \in SUBSET kept :
          /\ \A i \in kept \ before, j \in before : <<i, j>> \notin older
          /\ older' = (older \cap (kept \X kept)) \cup (before \X new)
                 \cup (new \X (kept \ before)) \cup {o \in new \X new : o[1] < o[2]}

LEMMA NewIdsFree ==
    /\ FreeIds \subseteq RuleIds /\ FreeIds \cap Ids(table) = {}
    /\ \A x \in Writers : tx[x].open => FreeIds \cap tx[x].base = {}
BY DEF FreeIds

LEMMA WrittenIds ==
    ASSUME NEW w
    PROVE  Ids(Written(w)) \subseteq Ids(table)
BY DEF Written, Ids

LEMMA CommitRows ==
    ASSUME NEW w \in Writers, CommitRules(w)
    PROVE  \E kept, new : CommitsRows(w, kept, new)
<1> DEFINE number == CHOOSE f \in Numberings(w) : TRUE
           ins == tx[w].ins
           new == {number[op] : op \in ins}
           kept == Ids(Written(w))
           Row(op) == [id |-> number[op], key |-> op.key, val |-> op.val]
<1>1. number \in [ins -> FreeIds] /\ \A a, b \in ins : number[a] = number[b] => a = b
    <2>1. Numberings(w) # {}
        BY DEF CommitRules
    <2>2. number \in Numberings(w)
        BY <2>1
    <2> HIDE DEF number
    <2> QED
        BY <2>2 DEF Numberings
<1>2. PICK before \in SUBSET kept :
        /\ \A i \in kept \ before, j \in before : <<i, j>> \notin older
        /\ table' = Written(w) \cup {Row(op) : op \in ins}
        /\ older' = (older \cap (kept \X kept)) \cup (before \X new)
                 \cup (new \X (kept \ before)) \cup {o \in new \X new : o[1] < o[2]}
    BY DEF CommitRules
<1> HIDE DEF number, ins
<1>3. PICK N : N = new
    OBVIOUS
<1>4. N \subseteq FreeIds /\ \A op \in ins : number[op] \in N
    BY <1>1, <1>3
<1>5. \A j \in N : \E op \in ins : j = number[op]
    BY <1>3
<1>6. older' = (older \cap (kept \X kept)) \cup (before \X N)
                 \cup (N \X (kept \ before)) \cup {o \in N \X N : o[1] < o[2]}
    BY <1>2, <1>3
<1> HIDE DEF new
<1>7. \A op : Row(op).id = number[op] /\ Row(op).key = op.key /\ Row(op).val = op.val
    OBVIOUS
<1> HIDE DEF Row
<1>8. \A row \in table' : row \in Written(w) \/ \E op \in ins : row = Row(op)
    BY <1>2
<1>9. \A op \in ins : Row(op) \in table'
    BY <1>2
<1>10. Written(w) \subseteq table'
    BY <1>2
<1>11. \A row \in table' : \/ row \in Written(w)
                           \/ row.id \in N /\ \E op \in tx[w].ins : Rule(row) = Rule(op)
    BY <1>4, <1>7, <1>8 DEF Rule, ins
<1>12. \A row \in Written(w) : row.id \in kept
    BY DEF Ids
<1>13. kept \cap N = {}
    BY <1>4, NewIdsFree, WrittenIds
<1>14. \A row \in table' : row.id \in kept \cup N
    BY <1>11, <1>12
<1>15. \A i \in kept \cup N : \E row \in table' : row.id = i
    <2>1. \A i \in kept : \E row \in table' : row.id = i
        BY <1>10 DEF Ids
    <2>2. \A i \in N : \E row \in table' : row.id = i
        BY <1>5, <1>7, <1>9
    <2> QED
        BY <2>1, <2>2
<1>16. Ids(table') = kept \cup N
    BY <1>14, <1>15 DEF Ids
<1>17. ASSUME NEW a \in table', NEW b \in table', a.id \in N, a.id = b.id
       PROVE  a.key = b.key
    <2>1. a \notin Written(w) /\ b \notin Written(w)
        BY <1>12, <1>13, <1>17
    <2>2. PICK p \in ins : a = Row(p)
        BY <1>8, <2>1
    <2>3. PICK q \in ins : b = Row(q)
        BY <1>8, <2>1
    <2>4. p = q
        BY <1>1, <1>7, <1>17, <2>2, <2>3
    <2> QED
        BY <2>2, <2>3, <2>4
<1>18. kept = Ids(Written(w))
    OBVIOUS
<1> HIDE DEF kept
<1>19. CommitsRows(w, kept, N)
    BY <1>2, <1>4, <1>6, <1>10, <1>11, <1>16, <1>17, <1>18 DEF CommitsRows
<1> QED
    BY <1>19

(* What is left of the plan of a transaction that commits.                 *)
LEMMA CommitPlan ==
    ASSUME NEW w \in Writers, CommitRules(w)
    PROVE  /\ tx[w].open /\ ~Doomed(tx[w]) /\ Removals(tx[w]) = tx[w].del
           /\ Changes(tx[w]) = tx[w].upd /\ Additions(tx[w]) = tx[w].ins
           /\ Locked(w) = Ids(tx[w].upd) \cup tx[w].del
           /\ tx' = [tx EXCEPT ![w] = NoTx]
           /\ UNCHANGED <<owner, manual, published, file, declared>>
           /\ inherited' = IF w \in Replicas THEN {} ELSE inherited
<1>1. tx[w].open /\ tx[w].todo = {} /\ tx[w].rest = {}
    BY DEF CommitRules
<1>2. ~Doomed(tx[w]) /\ Changes(tx[w]) = tx[w].upd /\ Additions(tx[w]) = tx[w].ins
    BY <1>1 DEF Doomed, Changes, Additions
<1>3. Removals(tx[w]) = tx[w].del
    BY <1>1 DEF Removals
<1>4. Locked(w) = Ids(tx[w].upd) \cup tx[w].del
    BY DEF Locked, Ids
<1> QED
    BY <1>1, <1>2, <1>3, <1>4 DEF CommitRules

(* Every row a commit leaves is declared or was there and not in its plan. *)
LEMMA CommitDeclared ==
    ASSUME RulesInv, Restricted, NEW w \in Writers, CommitRules(w), NEW row \in table'
    PROVE  \/ Rule(row) \in declared
           \/ row \in table /\ row.id \notin Removals(tx[w]) \cup Ids(Changes(tx[w]))
<1>1. PlanDeclared(tx[w])
    BY CommitPlan DEF RulesInv, PlanInv
<1>2. \A p \in tx[w].ins \cup tx[w].upd : Rule(p) \in declared
    BY <1>1, CommitPlan DEF PlanDeclared
<1>3. row \in Written(w) \/ \E op \in tx[w].ins : Rule(row) = Rule(op)
    BY CommitRows DEF CommitsRows
<1>4. CASE row \in table /\ row.id \notin Locked(w)
    BY <1>4, CommitPlan
<1>5. CASE row \in tx[w].upd
    BY <1>2, <1>5
<1> QED
    BY <1>2, <1>3, <1>4, <1>5 DEF Written

LEMMA CommitOnlyDeclared ==
    ASSUME RulesInv, NEW w \in Writers, CommitRules(w)
    PROVE  OnlyDeclared'
<1> SUFFICES ASSUME Restricted PROVE \A row \in table' : Rule(row) \in declared \cup inherited'
    <2>1. Restricted <=> (owner = "file" \/ ~manual)'
        BY CommitPlan DEF Restricted
    <2> QED
        BY <2>1, CommitPlan DEF OnlyDeclared, Rules
<1> TAKE row \in table'
<1>1. CASE Rule(row) \in declared
    BY <1>1
<1>2. CASE /\ row \in table /\ row.id \notin Removals(tx[w]) \cup Ids(Changes(tx[w]))
           /\ Rule(row) \notin declared
    <2>1. CASE w \in Replicas
        BY <1>2, <2>1, CommitPlan DEF RulesInv, PlanInv, PlanComplete
    <2>2. CASE w \notin Replicas
        BY <1>2, <2>2, CommitPlan DEF RulesInv, OnlyDeclared, Restricted, Rules
    <2> QED
        BY <2>1, <2>2
<1> QED
    BY <1>1, <1>2, CommitDeclared

(* Where a file owns the rules a commit takes no row's key, removes none   *)
(* of the oldest rows, and keeps the order.                                *)
LEMMA CommitKeys ==
    ASSUME RulesInv, owner = "file", NEW w \in Writers, CommitRules(w),
           NEW kept, NEW new, CommitsRows(w, kept, new)
    PROVE  /\ w \in Replicas
           /\ \A row \in table' : row.id \notin new =>
                \E c \in table : c.id = row.id /\ c.key = row.key
           /\ \A c \in table : c.id \notin tx[w].del =>
                c.id \in kept /\ \E row \in table' : row.id = c.id /\ row.key = c.key
<1>1. /\ w \in Replicas
      /\ \A u \in tx[w].upd, row \in table : u.id = row.id => u.key = row.key
    BY CommitPlan DEF RulesInv, PlanInv, PlanKeys
<1>2. ASSUME NEW row \in table', row.id \notin new
      PROVE  \E c \in table : c.id = row.id /\ c.key = row.key
    <2>1. row \in Written(w)
        BY <1>2 DEF CommitsRows
    <2>2. CASE row \in table
        BY <2>2
    <2>3. CASE row \in tx[w].upd /\ row.id \in Ids(table)
        BY <1>1, <2>3 DEF Ids
    <2> QED
        BY <2>1, <2>2, <2>3 DEF Written
<1>3. ASSUME NEW c \in table, c.id \notin tx[w].del
      PROVE  c.id \in kept /\ \E row \in table' : row.id = c.id /\ row.key = c.key
    <2>1. \E row \in Written(w) : row.id = c.id /\ row.key = c.key
        <3>1. CASE c.id \in Ids(tx[w].upd)
            <4>1. PICK u \in tx[w].upd : u.id = c.id
                BY <3>1 DEF Ids
            <4>2. u.key = c.key /\ u.id \in Ids(table) \ tx[w].del
                BY <1>1, <1>3, <4>1 DEF Ids
            <4> QED
                BY <4>1, <4>2 DEF Written
        <3>2. CASE c.id \notin Ids(tx[w].upd)
            <4>1. c.id \notin Locked(w)
                BY <1>3, <3>2, CommitPlan
            <4> QED
                BY <4>1 DEF Written
        <3> QED
            BY <3>1, <3>2
    <2> QED
        BY <2>1 DEF CommitsRows, Ids
<1> QED
    BY <1>1, <1>2, <1>3

LEMMA CommitTable ==
    ASSUME RulesInv, owner = "file", NEW w \in Writers, CommitRules(w)
    PROVE  SameKey' /\ RowsOrdered'
<1>1. PICK kept, new : CommitsRows(w, kept, new)
    BY CommitRows
<1>2. SameKey'
    <2> SUFFICES ASSUME NEW a \in table', NEW b \in table', a.id = b.id PROVE a.key = b.key
        BY DEF SameKey
    <2>1. CASE a.id \in new
        BY <1>1, <2>1 DEF CommitsRows
    <2>2. CASE a.id \notin new
        BY <1>1, <2>2, CommitKeys DEF RulesInv, SameKey
    <2> QED
        BY <2>1, <2>2
<1>3. /\ kept \subseteq Ids(table) /\ new \subseteq RuleIds /\ new \cap Ids(table) = {}
      /\ Ids(table) \subseteq RuleIds /\ StrictOrder(Ids(table), older) /\ RuleIds \subseteq Nat
    BY <1>1, WrittenIds, NewIdsFree, RulesAssumption DEF CommitsRows, RulesInv, RowsOrdered
<1>4. PICK before \in SUBSET kept :
          /\ \A i \in kept \ before, j \in before : <<i, j>> \notin older
          /\ older' = (older \cap (kept \X kept)) \cup (before \X new)
                 \cup (new \X (kept \ before)) \cup {o \in new \X new : o[1] < o[2]}
    BY <1>1 DEF CommitsRows
<1>5. StrictOrder(kept \cup new, older')
    <2>1. PICK I, O : I = Ids(table) /\ O = older
        OBVIOUS
    <2>2. /\ StrictOrder(I, O) /\ kept \subseteq I /\ before \subseteq kept /\ new \subseteq Nat
          /\ new \cap I = {} /\ \A i \in kept \ before, j \in before : <<i, j>> \notin O
        BY <1>3, <1>4, <2>1
    <2>3. StrictOrder(kept \cup new, (O \cap (kept \X kept)) \cup (before \X new)
                 \cup (new \X (kept \ before)) \cup {o \in new \X new : o[1] < o[2]})
        BY ONLY <2>2, OrderExtended
    <2> QED
        BY <1>4, <2>1, <2>3
<1>6. Ids(table') = kept \cup new
    BY <1>1 DEF CommitsRows
<1>7. RowsOrdered'
    BY <1>3, <1>5, <1>6 DEF RowsOrdered, StrictOrder, Ids
<1> QED
    BY <1>2, <1>7

(* The plans of the others survive it.                                     *)
LEMMA CommitOthersFile ==
    ASSUME RulesInv, NEW w \in Writers, CommitRules(w), owner = "file",
           NEW x \in Replicas, NEW t, t = tx[x], t.open
    PROVE  /\ ~Doomed(t) => PlanComplete(t)' /\ OldestSafe(t)'
           /\ PlanKeys(t)'
<1>0. x \in Writers
    BY DEF Writers
<1>1. PICK kept, new : CommitsRows(w, kept, new)
    BY CommitRows
<1>2. PlanInv(x, t) /\ PlanOld(t) /\ PlanKeys(t) /\ SameKey /\ RowsOrdered
    BY <1>0 DEF RulesInv, PlanInv
<1>3. new \cap t.base = {}
    BY <1>0, <1>1, NewIdsFree DEF CommitsRows
<1>4. \A row \in table' : row.id \in Removals(t) \cup Ids(Changes(t)) =>
        \E c \in table : c.id = row.id /\ c.key = row.key
    BY <1>1, <1>2, <1>3, CommitKeys DEF PlanOld
<1>5. PlanKeys(t)'
    <2> SUFFICES ASSUME NEW u \in Changes(t), NEW row \in table', u.id = row.id
                 PROVE  u.key = row.key
        BY DEF PlanKeys
    <2>1. u.id \in Ids(Changes(t))
        BY DEF Ids
    <2> QED
        BY <1>2, <1>4, <2>1 DEF PlanKeys
<1>6. ASSUME ~Doomed(t) PROVE PlanComplete(t)'
    <2>1. PlanComplete(t)
        BY <1>2, <1>6 DEF PlanInv
    <2>2. Restricted /\ declared' = declared
        BY CommitPlan DEF Restricted
    <2>3. \A row \in table' : Rule(row) \in declared \/ row \in table
        BY <2>2, CommitDeclared
    <2> QED
        BY <2>1, <2>2, <2>3 DEF PlanComplete
<1>7. ASSUME ~Doomed(t), NEW row \in table', DeclaredInAll(row.key),
             \A d \in table' : d.key = row.key => <<d.id, row.id>> \notin older',
             row.id \in Removals(t)
      PROVE  FALSE
    <2>1. OldestSafe(t) /\ OldestSafe(tx[w])
        <3>1. w \in Replicas
            BY <1>1, CommitKeys
        <3>2. PlanInv(w, tx[w])
            BY DEF RulesInv
        <3> QED
            BY <1>2, <1>7, <3>1, <3>2, CommitPlan DEF PlanInv
    <2>2. PICK c \in table : c.id = row.id /\ c.key = row.key
        BY <1>4, <1>7
    <2>3. PICK e \in table : e.key = c.key /\ OlderThan(older, e) = {}
        BY <1>2, OldestRow
    <2>4. OlderThan(older, c) # {}
        BY <1>7, <2>1, <2>2 DEF OldestSafe
    <2>5. e.id # c.id
        BY <2>3, <2>4 DEF OlderThan
    <2>6. <<c.id, e.id>> \notin older
        BY <2>3 DEF OlderThan, Candidates
    <2>7. <<e.id, c.id>> \in older
        <3>1. e.id \in Ids(table) /\ c.id \in Ids(table)
            BY DEF Ids
        <3> QED
            BY <1>2, <2>5, <2>6, <3>1 DEF RowsOrdered, StrictOrder
    <2>8. e.id \notin tx[w].del
        BY <1>7, <2>1, <2>2, <2>3, CommitPlan DEF OldestSafe
    <2>9. PICK f \in table' : f.id = e.id /\ f.key = e.key /\ e.id \in kept
        BY <1>1, <2>8, CommitKeys
    <2>10. c.id \in kept
        <3>1. row.id \in Ids(table') /\ Ids(table') = kept \cup new
            BY <1>1 DEF CommitsRows, Ids
        <3>2. row.id \notin new
            BY <1>2, <1>3, <1>7 DEF PlanOld
        <3> QED
            BY <2>2, <3>1, <3>2
    <2>11. <<f.id, row.id>> \in older'
        <3>1. <<e.id, c.id>> \in older \cap (kept \X kept)
            BY <2>7, <2>9, <2>10
        <3> QED
            BY <1>1, <2>2, <2>9, <3>1 DEF CommitsRows
    <2> QED
        BY <1>7, <2>2, <2>3, <2>9, <2>11
<1>8. ~Doomed(t) => OldestSafe(t)'
    <2> SUFFICES ASSUME ~Doomed(t), NEW row \in table', DeclaredInAll(row.key),
                        OlderThan(older, row)' = {}, row.id \in Removals(t)
                 PROVE  FALSE
        BY DEF OldestSafe
    <2>1. \A d \in table' : d.key = row.key => <<d.id, row.id>> \notin older'
        BY DEF OlderThan, Candidates
    <2> QED
        BY <1>7, <2>1
<1> QED
    BY <1>5, <1>6, <1>8

LEMMA CommitRulesStep ==
    ASSUME RulesInv, NEW w \in Writers, CommitRules(w)
    PROVE  RulesInv'
<1>1. /\ tx' = [x \in Writers |-> tx'[x]] /\ tx'[w] = NoTx
      /\ \A x \in Writers \ {w} : tx'[x] = tx[x]
    <2>1. tx' = [tx EXCEPT ![w] = NoTx]
        BY CommitPlan
    <2>2. PICK n : n = NoTx
        OBVIOUS
    <2> QED
        BY <2>1, <2>2, TxReplaced
<1>2. UNCHANGED <<owner, manual, published, file, declared>>
    BY CommitPlan
<1>3. ASSUME NEW x \in Writers PROVE PlanInv(x, tx[x])'
    <2>1. CASE x = w
        <3>1. TxShape(tx'[x]) /\ ~tx'[x].open
            BY <1>1, <2>1, NoTxClosed
        <3> QED
            BY <3>1 DEF PlanInv
    <2>2. CASE x # w
        <3>1. PICK t : t = tx[x]
            OBVIOUS
        <3>2. PlanInv(x, t) /\ tx'[x] = t
            BY <1>1, <2>2, <3>1 DEF RulesInv
        <3>3. PlanDeclared(t)' = PlanDeclared(t) /\ PlanOld(t)' = PlanOld(t)
              /\ Restricted' = Restricted
            BY <1>2 DEF PlanDeclared, PlanOld, Restricted
        <3>4. ASSUME x \in Replicas, t.open
              PROVE  /\ ~Doomed(t) => PlanComplete(t)' /\ OldestSafe(t)'
                     /\ PlanKeys(t)'
            <4>1. owner = "file"
                BY <3>2, <3>4 DEF PlanInv
            <4> QED
                BY <3>1, <3>4, <4>1, CommitOthersFile
        <3>5. PlanInv(x, t)'
            BY <1>2, <3>2, <3>3, <3>4 DEF PlanInv
        <3> QED
            BY <3>2, <3>5
    <2> QED
        BY <2>1, <2>2
<1>4. FilesDeclared'
    BY <1>2 DEF RulesInv, FilesDeclared, FileDeclared
<1>5. OnlyDeclared' /\ (owner' = "file" => SameKey' /\ RowsOrdered')
    BY <1>2, CommitOnlyDeclared, CommitTable
<1> QED
    BY <1>1, <1>2, <1>3, <1>4, <1>5 DEF RulesInv

LEMMA RulesInitInv == RulesInit => RulesInv
<1> SUFFICES ASSUME RulesInit PROVE RulesInv
    OBVIOUS
<1>1. PICK t \in FirstTables :
          /\ table = ToSet(t)
          /\ older = {o \in Ids(table) \X Ids(table) :
                        \E i, j \in DOMAIN t : i < j /\ o = <<t[i].id, t[j].id>>}
    BY DEF RulesInit
<1>2. t \in Seq([id : RuleIds, key : Keys, val : Vals])
    BY RulesAssumption
<1>3. \A i, j \in DOMAIN t : t[i].id = t[j].id => i = j
    BY RulesAssumption
<1>4. DOMAIN t \subseteq Nat /\ \A i \in DOMAIN t : t[i].id \in RuleIds
    <2> DEFINE Rows == [id : RuleIds, key : Keys, val : Vals]
    <2>1. \A row \in Rows : row.id \in RuleIds
        OBVIOUS
    <2> HIDE DEF Rows
    <2>2. t \in Seq(Rows)
        BY <1>2 DEF Rows
    <2>3. DOMAIN t \subseteq Nat /\ \A i \in DOMAIN t : t[i] \in Rows
        BY ONLY <2>2
    <2> QED
        BY <2>1, <2>3
<1>5. \A row : row \in table <=> \E i \in DOMAIN t : row = t[i]
    BY <1>1 DEF ToSet
<1>6. SameKey
    BY <1>3, <1>5 DEF SameKey
<1>7. \A d : d \in Ids(table) <=> \E i \in DOMAIN t : d = t[i].id
    BY <1>5 DEF Ids
<1>8. \A i, j \in DOMAIN t : <<t[i].id, t[j].id>> \in older <=> i < j
    <2> SUFFICES ASSUME NEW i \in DOMAIN t, NEW j \in DOMAIN t
                 PROVE  <<t[i].id, t[j].id>> \in older <=> i < j
        OBVIOUS
    <2>1. ASSUME <<t[i].id, t[j].id>> \in older PROVE i < j
        <3>1. PICK a \in DOMAIN t, b \in DOMAIN t :
                 a < b /\ <<t[i].id, t[j].id>> = <<t[a].id, t[b].id>>
            BY <1>1, <2>1
        <3> QED
            BY <1>3, <3>1
    <2>2. ASSUME i < j PROVE <<t[i].id, t[j].id>> \in older
        BY <1>1, <1>7, <2>2
    <2> QED
        BY <2>1, <2>2
<1>9. StrictOrder(Ids(table), older)
    <2>1. older \subseteq Ids(table) \X Ids(table)
        BY <1>1
    <2>2. \A d \in Ids(table) : <<d, d>> \notin older
        BY <1>4, <1>7, <1>8
    <2>3. ASSUME NEW d \in Ids(table), NEW e \in Ids(table)
          PROVE  d = e \/ <<d, e>> \in older \/ <<e, d>> \in older
        <3>1. PICK i \in DOMAIN t, j \in DOMAIN t : d = t[i].id /\ e = t[j].id
            BY <1>7
        <3>2. i \in Nat /\ j \in Nat
            BY <1>4
        <3>3. i = j \/ i < j \/ j < i
            BY <3>2
        <3> QED
            BY <1>8, <3>1, <3>3
    <2>4. ASSUME NEW d \in Ids(table), NEW e \in Ids(table), NEW f \in Ids(table),
                 <<d, e>> \in older, <<e, f>> \in older
          PROVE  <<d, f>> \in older
        <3>1. PICK i \in DOMAIN t, j \in DOMAIN t, l \in DOMAIN t :
                 d = t[i].id /\ e = t[j].id /\ f = t[l].id
            BY <1>7
        <3>2. i < j /\ j < l
            BY <1>8, <2>4, <3>1
        <3>3. i \in Nat /\ j \in Nat /\ l \in Nat
            BY <1>4
        <3>4. i < l
            BY <3>2, <3>3
        <3> QED
            BY <1>8, <3>1, <3>4
    <2> QED
        BY <2>1, <2>2, <2>3, <2>4 DEF StrictOrder
<1>10. RowsOrdered
    BY <1>4, <1>7, <1>9 DEF RowsOrdered
<1>11. OnlyDeclared /\ FilesDeclared
    BY DEF RulesInit, OnlyDeclared, FilesDeclared, FileDeclared
<1>12. tx = [w \in Writers |-> tx[w]] /\ \A w \in Writers : PlanInv(w, tx[w])
    BY NoTxClosed, ClosedPlan DEF RulesInit
<1>13. published \in Contents /\ file \in [Replicas -> Contents]
    BY DEF RulesInit
<1> QED
    BY <1>6, <1>10, <1>11, <1>12, <1>13 DEF RulesInv

LEMMA RulesNextInv == RulesInv /\ [RulesNext]_ruleVars => RulesInv'
<1> SUFFICES ASSUME RulesInv, [RulesNext]_ruleVars PROVE RulesInv'
    OBVIOUS
<1>0. \A r \in Replicas : r \in Writers
    BY DEF Writers
<1>1. ASSUME NEW c \in Contents, Publish(c) PROVE RulesInv'
    BY <1>1, PublishStep
<1>2. ASSUME NEW r \in Replicas, Propagate(r) PROVE RulesInv'
    BY <1>2, PropagateStep
<1>3. ASSUME NEW r \in Replicas, SyncRules(r) PROVE RulesInv'
    BY <1>3, SyncRulesStep
<1>4. ASSUME NEW r \in Replicas, Crash(r) PROVE RulesInv'
    BY <1>0, <1>4, RollbackStep DEF Crash, Quiet
<1>5. ASSUME NEW a \in Admins, NEW c \in Contents, AdminApply(a, c) PROVE RulesInv'
    BY <1>5, AdminApplyStep
<1>6. ASSUME NEW a \in Admins, NEW k \in Keys, NEW v \in Vals, AdminCreate(a, k, v)
      PROVE  RulesInv'
    BY <1>6, EditStep DEF AdminCreate
<1>7. ASSUME NEW a \in Admins, NEW k \in Keys, NEW v \in Vals, NEW row \in table,
             AdminUpdate(a, row, k, v)
      PROVE  RulesInv'
    BY <1>7, EditStep DEF AdminUpdate
<1>8. ASSUME NEW a \in Admins, NEW row \in table, AdminDelete(a, row) PROVE RulesInv'
    BY <1>8, EditStep DEF AdminDelete
<1>9. ASSUME NEW w \in Writers, Rollback(w) PROVE RulesInv'
    BY <1>9, RollbackStep DEF Rollback, Quiet
<1>10. ASSUME NEW w \in Writers, TxStep(w) PROVE RulesInv'
    <2>1. CASE Refuse(w) \/ Deadlock(w)
        BY <1>9, <2>1 DEF Refuse, Deadlock
    <2> QED
        BY <1>10, <2>1, InsertRuleStep, InsertGroupStep, UpdateRuleStep, DeleteRuleStep,
           CommitRulesStep DEF TxStep
<1>11. ASSUME NEW w \in Writers, DatabaseError(w) PROVE RulesInv'
    BY <1>9, <1>11 DEF DatabaseError
<1>12. CASE UNCHANGED ruleVars
    <2>1. UNCHANGED <<owner, manual, table, older, tx, inherited, published, declared, file>>
        BY <1>12 DEF ruleVars
    <2>2. FilesDeclared'
        BY <2>1 DEF RulesInv, FilesDeclared, FileDeclared
    <2> QED
        BY <2>1, <2>2, FileStep DEF RulesInv
<1> QED
    BY <1>1, <1>2, <1>3, <1>4, <1>5, <1>6, <1>7, <1>8, <1>10, <1>11, <1>12 DEF RulesNext

LEMMA RulesInvAlways == RulesSpec => []RulesInv
BY RulesInitInv, RulesNextInv, PTL DEF RulesSpec

(* Where a file owns the rules, or in-app editing is off, the table never  *)
(* holds a rule that no valid file and no accepted apply has declared,     *)
(* beyond what was there before a replica first applied its file; for any  *)
(* number of replicas, requests, rules and versions, whatever ApplyGrants  *)
(* and the other transactions read of each other's commits.                *)
THEOREM RulesAlwaysDeclared == RulesSpec => []OnlyDeclared
<1>1. RulesInv => OnlyDeclared
    BY DEF RulesInv
<1> QED
    BY <1>1, RulesInvAlways, PTL

(* A step takes no rule that every file declares.                          *)
LEMMA KeptStep ==
    ASSUME RulesInv, [RulesNext]_ruleVars, NEW k \in Keys, owner = "file", DeclaredInAll(k),
           NEW r \in Rules(table), r.key = k
    PROVE  \E s \in Rules(table') : s.key = k
<1>1. CASE UNCHANGED table
    BY <1>1
<1>2. ASSUME NEW w \in Writers, CommitRules(w) PROVE \E s \in Rules(table') : s.key = k
    <2>1. PICK row \in table : row.key = k
        BY DEF Rules, Rule
    <2>2. PICK e \in table : e.key = k /\ OlderThan(older, e) = {}
        BY <2>1, OldestRow DEF RulesInv
    <2>3. PICK kept, new : CommitsRows(w, kept, new)
        BY <1>2, CommitRows
    <2>4. w \in Replicas
        BY <1>2, <2>3, CommitKeys
    <2>5. OldestSafe(tx[w])
        BY <1>2, <2>4, CommitPlan DEF RulesInv, PlanInv
    <2>6. e.id \notin tx[w].del
        BY <1>2, <2>2, <2>5, CommitPlan DEF OldestSafe
    <2>7. PICK f \in table' : f.key = k
        BY <1>2, <2>2, <2>3, <2>6, CommitKeys
    <2>8. Rule(f) \in Rules(table') /\ Rule(f).key = k
        BY <2>7 DEF Rules, Rule
    <2> QED
        BY <2>8
<1>3. CASE RulesNext /\ ~ \E w \in Writers : CommitRules(w)
    <2>1. ASSUME NEW w \in Writers, TxStep(w) \/ DatabaseError(w) PROVE UNCHANGED table
        BY <1>3, <2>1 DEF TxStep, DatabaseError, InsertRule, InsertGroup, UpdateRule, DeleteRule,
           Refuse, Deadlock, Rollback, Write
    <2>2. UNCHANGED table
        BY <1>3, <2>1 DEF RulesNext, Publish, Propagate, SyncRules, Crash, AdminApply,
           AdminCreate, AdminUpdate, AdminDelete, Edit
    <2> QED
        BY <1>1, <2>2
<1> QED
    BY <1>1, <1>2, <1>3 DEF ruleVars

(* Where a file owns the rules, a rule that all versions of the file       *)
(* declare and the table holds is never gone, although any number of       *)
(* replicas delete its duplicates at the same time from what they have     *)
(* read, some of it stale: all of them spare the oldest row.               *)
THEOREM RulesAlwaysKept == RulesSpec => RuleKept
<1>1. RulesInv /\ [RulesNext]_ruleVars =>
        [\A k \in Keys :
           owner = "file" /\ DeclaredInAll(k) /\ (\E r \in Rules(table) : r.key = k)
             => \E r \in Rules(table') : r.key = k]_ruleVars
    BY KeptStep
<1> QED
    BY <1>1, RulesInvAlways, PTL DEF RulesSpec, RuleKept
=============================================================================
