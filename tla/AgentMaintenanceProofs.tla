----------------------- MODULE AgentMaintenanceProofs -----------------------
(***************************************************************************)
(* Proofs about AgentMaintenance, for every lifetime, interval and number  *)
(* of faults: a half written mTLS pair always finds its rotation due, the  *)
(* client certificate, the host certificate sshd serves and the CA bundle  *)
(* stay current as long as the faults and the downtime since all was last  *)
(* in order are tolerated.                                                 *)
(*                                                                         *)
(* The first property speaks of the files only; its strengthening PairInv  *)
(* adds what the rotation in progress knows: the new pair is not the one   *)
(* whose certificate is on disk, and the old certificate is still due.     *)
(* The others are bounds on ages; TimeInv says how old a certificate can   *)
(* be at every point of the loop: two thirds of its lifetime, then one     *)
(* interval until the next attempt, one more for every fault, and the      *)
(* downtime.                                                               *)
(***************************************************************************)
EXTENDS AgentMaintenance, TLAPS

(* The variables of the mTLS pair have their types.                        *)
PairTypes == /\ keyFile \in Pairs /\ certFile \in Pairs
             /\ loaded \in Pairs /\ new \in Pairs
             /\ age \in [Pairs -> Nat]

(* While the files are being replaced, the old certificate is due.         *)
RotationInProgress ==
    /\ pc \in {"key", "cert"} => NeedsRotation /\ new # certFile
    /\ pc = "cert" => keyFile = new

(* The inductive invariant.                                                *)
PairInv == PairTypes /\ RotationInProgress /\ HalfWrittenPairIsDue

-----------------------------------------------------------------------------
(* A certificate that is due stays due while it grows older.               *)
LEMMA OlderStaysDue ==
    ASSUME NEW a \in Nat, NEW life \in Nat, NEW x \in Int, a > x
    PROVE  Older(a, life) \in Nat /\ Older(a, life) > x
BY DEF Older

(* The point of rotation is a number.                                     *)
LEMMA TwoThirds == (2 * MTLSLife) \div 3 \in Int
BY MaintenanceAssumption

(* Enrollment leaves a matching pair.                                      *)
LEMMA InitPairInv == Init => PairInv
BY DEF Init, PairInv, PairTypes, RotationInProgress, HalfWrittenPairIsDue, Pairs

(* Steps that touch neither files nor ages, and do not enter the           *)
(* replacement.                                                            *)
LEMMA OtherStep ==
    ASSUME PairInv, UNCHANGED <<keyFile, certFile, new, age>>, loaded' \in Pairs,
           pc' \in {"key", "cert"} => pc' = pc
    PROVE  PairInv'
BY DEF PairInv, PairTypes, RotationInProgress, HalfWrittenPairIsDue, NeedsRotation

(* Time passes.                                                            *)
LEMMA TickStep == PairInv /\ Tick => PairInv'
<1> SUFFICES ASSUME PairInv, Tick PROVE PairInv'
    OBVIOUS
<1>1. /\ PairTypes
      /\ UNCHANGED <<keyFile, certFile, loaded, new, pc>>
      /\ age' = [p \in Pairs |-> IF p \in {certFile, loaded}
                                 THEN Older(age[p], MTLSLife) ELSE 0]
    BY DEF PairInv, Tick, mtls
<1>2. age' \in [Pairs -> Nat]
    BY <1>1, MaintenanceAssumption DEF PairTypes, Older
<1>3. age'[certFile] = Older(age[certFile], MTLSLife)
    BY <1>1 DEF PairTypes
<1>4. ASSUME NeedsRotation PROVE NeedsRotation'
    <2>1. Older(age[certFile], MTLSLife) > (2 * MTLSLife) \div 3
        BY <1>1, <1>4, OlderStaysDue, TwoThirds, MaintenanceAssumption
           DEF NeedsRotation, PairTypes
    <2> QED BY <1>1, <1>3, <2>1 DEF NeedsRotation
<1> QED
    BY <1>1, <1>2, <1>4 DEF PairInv, PairTypes, RotationInProgress, HalfWrittenPairIsDue

(* The server issues a certificate for a fresh key.                        *)
LEMMA ObtainStep == ASSUME PairInv, NEW p \in Pairs, RenewMTLS(p) PROVE PairInv'
<1>1. /\ p # certFile /\ NeedsRotation /\ pc' = "key" /\ new' = p
      /\ age' = [age EXCEPT ![p] = 0]
      /\ UNCHANGED <<keyFile, certFile, loaded>>
    BY DEF RenewMTLS
<1>2. age' \in [Pairs -> Nat] /\ age'[certFile] = age[certFile]
    BY <1>1 DEF PairInv, PairTypes
<1>3. NeedsRotation'
    BY <1>1, <1>2 DEF NeedsRotation
<1> QED
    BY <1>1, <1>2, <1>3 DEF PairInv, PairTypes, RotationInProgress, HalfWrittenPairIsDue

(* The new key file opens the window ...                                   *)
LEMMA KeyStep == PairInv /\ WriteKey => PairInv'
BY DEF PairInv, PairTypes, RotationInProgress, HalfWrittenPairIsDue, NeedsRotation, WriteKey,
       time

(* ... and the new certificate file closes it.                             *)
LEMMA CertStep == PairInv /\ WriteCert => PairInv'
BY DEF PairInv, PairTypes, RotationInProgress, HalfWrittenPairIsDue, NeedsRotation, WriteCert,
       time

-----------------------------------------------------------------------------
(* Every step of the agent preserves the invariant.                        *)
LEMMA PairInvStep == PairInv /\ [Next]_vars => PairInv'
<1> SUFFICES ASSUME PairInv, [Next]_vars PROVE PairInv'
    OBVIOUS
<1>0. loaded \in Pairs /\ certFile \in Pairs /\ new \in Pairs
    BY DEF PairInv, PairTypes
<1>1. CASE Tick
    BY <1>1, TickStep
<1>2. CASE \E p \in Pairs : RenewMTLS(p)
    BY <1>2, ObtainStep
<1>3. CASE WriteKey
    BY <1>3, KeyStep
<1>4. CASE WriteCert
    BY <1>4, CertStep
<1>5. CASE \/ UNCHANGED vars \/ Start \/ Crash \/ SetClientCert
    <2>1. /\ UNCHANGED <<keyFile, certFile, new, age>>
          /\ loaded' \in Pairs
          /\ pc' \in {"key", "cert"} => pc' = pc
        BY <1>0, <1>5 DEF vars, mtls, time, Start, Crash, SetClientCert, EndRound
    <2> QED BY <2>1, OtherStep
<1>6. CASE \/ RenewTick \/ BundleTick \/ BundleChanges
           \/ FetchBundle \/ ClearBundle \/ FillBundle
           \/ Renew \/ ClearHostCert \/ FillHostCert \/ Reload \/ RotateSkipped
           \/ Failure
    <2>1. /\ UNCHANGED <<keyFile, certFile, new, age>>
          /\ loaded' = loaded
          /\ pc' \in {"key", "cert"} => pc' = pc
        BY <1>6 DEF mtls, time, RenewTick, BundleTick, BundleChanges, FetchBundle,
           ClearBundle, FillBundle, AfterBundle, Renew, ClearHostCert, FillHostCert, Reload,
           RotateSkipped, EndRound, Failure, FetchBundleFails, FillBundleFails,
           RenewFails, FillHostCertFails, ReloadFails, RenewMTLSFails, WriteFails
    <2> QED BY <1>0, <2>1, OtherStep
<1> QED
    BY <1>1, <1>2, <1>3, <1>4, <1>5, <1>6 DEF Next, LoopStep

(* A half written pair is always due for rotation: the order key before    *)
(* certificate in rotateMTLSIfNeeded makes the next check repair it, for   *)
(* all lifetimes and intervals and whatever fails in between.              *)
THEOREM HalfWrittenPairRepairable == Spec => []HalfWrittenPairIsDue
<1>1. PairInv => HalfWrittenPairIsDue
    BY DEF PairInv
<1> QED
    BY <1>1, InitPairInv, PairInvStep, PTL DEF Spec
-----------------------------------------------------------------------------
(* Time.  Faults are paid for in intervals: each costs the loop one more   *)
(* round of the ticker it hit.  Downtime is paid for by its length.        *)
RenewSpent == strikes * RenewInterval + outage
BundleSpent == strikes * BundleInterval + outage

MTLSDue == (2 * MTLSLife) \div 3
HostDue == (2 * HostLife) \div 3

(* The loop waits for its tickers, or refreshes the bundle between two of  *)
(* its waits.                                                              *)
Refreshing == pc \in {"bundle", "bundleWrite", "bundleFill"}
Waiting == pc = "idle" \/ (Refreshing /\ ~ starting)

(* The process can start.                                                  *)
Startable == pc = "down" /\ keyFile = certFile

(* Which pair is where, by the place of the loop.                          *)
PairPlaces ==
    /\ pc = "idle" => ~ starting
    /\ pc \notin {"down", "swap"} => loaded = certFile
    /\ pc \in {"key", "cert", "swap"} => age[new] = 0
    /\ pc = "swap" => certFile = new

(* A client certificate is overdue by at most one interval and one more    *)
(* for each fault, and the next check comes before that.                   *)
ChannelBound ==
    Tolerates(MTLSLife) =>
        /\ Startable => age[certFile] <= MTLSDue + RenewSpent
        /\ pc # "down" => age[loaded] <= MTLSDue + RenewSpent + RenewInterval
        /\ Waiting => age[loaded] + renewIn <= MTLSDue + RenewSpent + RenewInterval

(* What sshd presents is the file, or the file is torn and due at once.    *)
ServedIsFile ==
    /\ pc = "reload" => hostAge = 0
    /\ ~ missed /\ pc # "reload" => hostAge \in {served, HostExpired}

(* The round is past the check of the host certificate.                    *)
HostChecked == pc \in {"rotate", "key", "cert", "swap"}

(* The same for the certificate that sshd presents.                        *)
HostClaim == Tolerates(MTLSLife) /\ Tolerates(HostLife) /\ ~ missed

ServedBound ==
    HostClaim =>
        /\ Startable \/ HostChecked => served <= HostDue + RenewSpent
        /\ pc # "down" => served <= HostDue + RenewSpent + RenewInterval
        /\ Waiting => served + renewIn <= HostDue + RenewSpent + RenewInterval

(* The bundle: whether the file is out of date, being written, and whether *)
(* the round of a new process, or of a running one, is past the refresh.   *)
Stale == bundleFile # bundleSrv
Writing == pc \in {"bundleWrite", "bundleFill"}
Past == pc # "down" /\ ~ Refreshing /\ starting
Between == pc # "down" /\ ~ Refreshing /\ ~ starting

(* While the file is out of date, the bundle's lag is within one interval  *)
(* and one more for each fault.                                            *)
BundleBound ==
    Tolerates(MTLSLife) =>
        /\ Writing => /\ lag <= BundleSpent + BundleInterval
                      /\ fetched # bundleSrv => lag = 0
        /\ Stale => /\ Startable \/ Past => lag <= BundleSpent
                    /\ pc # "down" => lag <= BundleSpent + BundleInterval
                    /\ Between => lag + bundleIn <= BundleSpent + BundleInterval

(* The inductive invariant of the timing.                                  *)
TimeInv == /\ TypeOK /\ PairPlaces /\ ChannelBound
           /\ ServedIsFile /\ ServedBound /\ BundleBound

-----------------------------------------------------------------------------
(* Older keeps the range of an age, and adds at most one.                  *)
LEMMA OlderRange ==
    ASSUME NEW life \in Nat, NEW a \in 0..(life + 1)
    PROVE  Older(a, life) \in 0..(life + 1) /\ Older(a, life) <= a + 1
BY DEF Older

(* A tick that ages by one and brings the deadline nearer by one.          *)
LEMMA Nearer ==
    ASSUME NEW a \in Nat, NEW b \in Nat, NEW r \in Nat, NEW bound \in Nat,
           b <= a + 1, r > 0, a + r <= bound
    PROVE  b + (r - 1) <= bound /\ b <= bound
OBVIOUS

(* Two thirds of a lifetime.                                               *)
LEMMA DueRange ==
    ASSUME NEW life \in Nat
    PROVE  (2 * life) \div 3 \in Nat /\ (2 * life) \div 3 <= life
OBVIOUS

(* One fault more costs one interval more.                                 *)
LEMMA Products ==
    ASSUME NEW k \in Nat, NEW v \in Nat
    PROVE  k * v \in Nat /\ (k + 1) * v = k * v + v
OBVIOUS

(* The numbers the bounds are made of.                                     *)
LEMMA Numbers ==
    ASSUME TypeOK
    PROVE  /\ RenewSpent \in Nat /\ BundleSpent \in Nat
           /\ MTLSDue \in Nat /\ HostDue \in Nat /\ HostDue <= HostLife
           /\ MTLSLife \in Nat /\ HostLife \in Nat /\ RenewInterval \in Nat
           /\ BundleInterval \in Nat
           /\ Tolerates(MTLSLife) <=> RenewSpent + RenewInterval <= MTLSLife - MTLSDue
           /\ Tolerates(HostLife) <=> RenewSpent + RenewInterval <= HostLife - HostDue
<1>1. strikes \in Nat /\ outage \in Nat
    BY MaintenanceAssumption DEF TypeOK
<1>2. /\ MTLSLife \in Nat /\ HostLife \in Nat /\ RenewInterval \in Nat
      /\ BundleInterval \in Nat
    BY MaintenanceAssumption
<1>3. /\ strikes * RenewInterval \in Nat /\ strikes * BundleInterval \in Nat
      /\ (strikes + 1) * RenewInterval = strikes * RenewInterval + RenewInterval
    BY <1>1, <1>2, Products
<1>4. MTLSDue \in Nat /\ HostDue \in Nat /\ HostDue <= HostLife
    BY <1>2, DueRange DEF MTLSDue, HostDue
<1>5. RenewSpent \in Nat /\ BundleSpent \in Nat
    BY <1>1, <1>3 DEF RenewSpent, BundleSpent
<1>6. (strikes + 1) * RenewInterval + outage = RenewSpent + RenewInterval
    BY <1>1, <1>2, <1>3 DEF RenewSpent
<1> QED
    BY <1>2, <1>4, <1>5, <1>6 DEF Tolerates, MTLSDue, HostDue

(* What a step that fails, or does not, adds to the time spent.            *)
Free == RenewSpent' = RenewSpent /\ BundleSpent' = BundleSpent
Paid == /\ RenewSpent' = RenewSpent + RenewInterval
        /\ BundleSpent' = BundleSpent + BundleInterval

(* A unit of downtime, and a closed account.                               *)
Waited == RenewSpent' = RenewSpent + 1 /\ BundleSpent' = BundleSpent + 1
Settled == RenewSpent' = 0 /\ BundleSpent' = 0

Untroubled == strikes' = strikes /\ outage' = outage

LEMMA Spending ==
    ASSUME TypeOK
    PROVE  /\ Untroubled => Free
           /\ Fault /\ outage' = outage /\ outage' = outage => Paid
<1>1. strikes \in Nat /\ outage \in Nat /\ RenewInterval \in Nat /\ BundleInterval \in Nat
    BY MaintenanceAssumption DEF TypeOK
<1>2. ASSUME NEW v \in Nat
      PROVE  (strikes + 1) * v + outage = (strikes * v + outage) + v
    BY <1>1, Products
<1>3. Untroubled => Free
    BY DEF Untroubled, Free, RenewSpent, BundleSpent
<1>4. ASSUME Fault, outage' = outage PROVE Paid
    BY <1>1, <1>2, <1>4 DEF Paid, Fault, RenewSpent, BundleSpent
<1> QED
    BY <1>3, <1>4

(* What the passing of time adds.                                          *)
LEMMA TickSpending ==
    ASSUME TypeOK, Tick
    PROVE  /\ pc = "idle" /\ AllInOrder => Settled
           /\ pc = "idle" /\ ~ AllInOrder => Free
           /\ pc = "down" => Waited \/ (Free /\ ~ Tolerates(MTLSLife))
<1>1. /\ strikes \in Nat /\ outage \in 0..(MTLSLife + 1) /\ RenewInterval \in Nat
      /\ BundleInterval \in Nat /\ MTLSLife \in Nat
    BY MaintenanceAssumption DEF TypeOK
<1>2. CASE pc = "idle" /\ AllInOrder
    <2>1. strikes' = 0 /\ outage' = 0
        BY <1>2 DEF Tick
    <2> QED
        BY <1>1, <1>2, <2>1 DEF Settled, RenewSpent, BundleSpent
<1>3. CASE pc = "idle" /\ ~ AllInOrder
    <2>1. Untroubled
        BY <1>3 DEF Tick, Untroubled
    <2> QED
        BY <1>3, <2>1, Spending
<1>4. CASE pc = "down"
    <2>1. strikes' = strikes /\ outage' = Older(outage, MTLSLife)
        BY <1>4 DEF Tick
    <2>2. CASE outage <= MTLSLife
        <3>1. outage' = outage + 1
            BY <1>1, <2>1, <2>2 DEF Older
        <3>2. strikes * RenewInterval \in Nat /\ strikes * BundleInterval \in Nat
            BY <1>1, Products
        <3> QED
            BY <1>1, <1>4, <2>1, <3>1, <3>2 DEF Waited, RenewSpent, BundleSpent
    <2>3. CASE outage > MTLSLife
        <3>1. Untroubled
            BY <1>1, <2>1, <2>3 DEF Older, Untroubled
        <3>2. strikes * RenewInterval \in Nat
            BY <1>1, Products
        <3>3. RenewSpent > MTLSLife
            BY <1>1, <2>3, <3>2 DEF RenewSpent
        <3>4. ~ Tolerates(MTLSLife)
            BY <3>3, Numbers
        <3> QED
            BY <1>4, <3>1, <3>4, Spending
    <2> QED
        BY <1>1, <2>2, <2>3
<1> QED
    BY <1>2, <1>3, <1>4

-----------------------------------------------------------------------------
(* Enrollment leaves a well-typed state.                                   *)
LEMMA InitTypeOK == Init => TypeOK
<1> SUFFICES ASSUME Init PROVE TypeOK
    OBVIOUS
<1>1. /\ 0 \in Pairs /\ 0 \in Versions /\ 0 \in 0..HostExpired /\ 0 \in 0..MaxLag
      /\ 0 \in 0..MaxFaults /\ 0 \in 0..0 /\ 0 \in 0..RenewInterval /\ 0 \in 0..BundleInterval
      /\ 0 \in 0..(MTLSLife + 1)
    BY MaintenanceAssumption DEF Pairs, Versions, HostExpired
<1>2. age \in [Pairs -> 0..(MTLSLife + 1)]
    BY <1>1 DEF Init
<1> QED
    BY <1>1, <1>2 DEF Init, TypeOK

(* A fault stays within the bound.                                         *)
LEMMA FaultType ==
    ASSUME TypeOK, Fault PROVE faults' \in 0..MaxFaults /\ strikes' \in 0..faults'
BY MaintenanceAssumption DEF TypeOK, Fault

(* Time passes.                                                            *)
LEMMA TickTypes == ASSUME TypeOK, Tick PROVE TypeOK'
<1>1. /\ pc' = pc /\ starting' = starting /\ keyFile' = keyFile /\ certFile' = certFile
      /\ loaded' = loaded /\ new' = new /\ missed' = missed /\ bundleSrv' = bundleSrv
      /\ bundleFile' = bundleFile /\ fetched' = fetched /\ faults' = faults
    BY DEF Tick, mtls, bundle
<1>2. renewIn' \in 0..RenewInterval /\ bundleIn' \in 0..BundleInterval
    BY MaintenanceAssumption DEF Tick, timers, TypeOK
<1>3. age' \in [Pairs -> 0..(MTLSLife + 1)]
    <2>1. \A p \in Pairs : Older(age[p], MTLSLife) \in 0..(MTLSLife + 1)
        BY MaintenanceAssumption, OlderRange DEF TypeOK
    <2>2. 0 \in 0..(MTLSLife + 1)
        BY MaintenanceAssumption
    <2> QED
        BY <2>1, <2>2 DEF Tick
<1>4. hostAge' \in 0..HostExpired /\ served' \in 0..HostExpired
    BY MaintenanceAssumption, OlderRange DEF Tick, TypeOK, HostExpired
<1>5. lag' \in 0..MaxLag
    BY MaintenanceAssumption DEF Tick, TypeOK
<1>6. strikes' \in 0..faults
    BY MaintenanceAssumption DEF Tick, TypeOK
<1>7. outage' \in 0..(MTLSLife + 1)
    <2>1. outage \in 0..(MTLSLife + 1) /\ 0 \in 0..(MTLSLife + 1)
        BY MaintenanceAssumption DEF TypeOK
    <2>2. Older(outage, MTLSLife) \in 0..(MTLSLife + 1)
        BY <2>1, MaintenanceAssumption, OlderRange
    <2> QED
        BY <2>1, <2>2 DEF Tick
<1> QED
    BY <1>1, <1>2, <1>3, <1>4, <1>5, <1>6, <1>7 DEF TypeOK

(* The end of a round.                                                     *)
LEMMA EndRoundTypes ==
    ASSUME TypeOK, EndRound
    PROVE  /\ pc' = "idle" /\ starting' = FALSE
           /\ renewIn' \in 0..RenewInterval /\ bundleIn' \in 0..BundleInterval
BY MaintenanceAssumption DEF EndRound, TypeOK, timers

(* Every step keeps the types.                                             *)
LEMMA TypeStep == TypeOK /\ [Next]_vars => TypeOK'
<1> SUFFICES ASSUME TypeOK, [Next]_vars PROVE TypeOK'
    OBVIOUS
<1> USE DEF mtls, host, bundle, timers, time, failures
<1>1. CASE UNCHANGED vars
    BY <1>1 DEF vars, TypeOK
<1>2. CASE Tick
    BY <1>2, TickTypes
<1>3. CASE Start
    BY <1>3 DEF Start, TypeOK
<1>4. CASE Crash
    BY <1>4, FaultType DEF Crash, TypeOK
<1>5. CASE RenewTick \/ BundleTick
    <2>1. RenewInterval \in 0..RenewInterval /\ BundleInterval \in 0..BundleInterval
        BY MaintenanceAssumption
    <2> QED
        BY <1>5, <2>1 DEF RenewTick, BundleTick, TypeOK
<1>6. CASE BundleChanges
    <2>1. bundleSrv' \in Versions /\ lag' \in 0..MaxLag
        BY <1>6, MaintenanceAssumption DEF BundleChanges, TypeOK, Versions
    <2> QED
        BY <1>6, <2>1 DEF BundleChanges, TypeOK
<1>7. CASE FetchBundle \/ ClearBundle \/ FillBundle
    BY <1>7 DEF FetchBundle, ClearBundle, FillBundle, AfterBundle, TypeOK
<1>8. CASE FetchBundleFails \/ FillBundleFails \/ RenewFails \/ FillHostCertFails
    <2>1. faults' \in 0..MaxFaults /\ strikes' \in 0..faults'
        BY <1>8, FaultType DEF FetchBundleFails, FillBundleFails, RenewFails,
           FillHostCertFails, CallFails, TypeOK
    <2> QED
        BY <1>8, <2>1 DEF FetchBundleFails, FillBundleFails, RenewFails,
           FillHostCertFails, AfterBundle, TypeOK
<1>9. CASE Renew \/ ClearHostCert \/ FillHostCert \/ Reload \/ ReloadFails
    <2>1. 0 \in 0..HostExpired /\ HostExpired \in 0..HostExpired
        BY MaintenanceAssumption DEF HostExpired
    <2>2. faults' \in 0..MaxFaults /\ strikes' \in 0..faults'
        BY <1>9, FaultType DEF Renew, ClearHostCert, FillHostCert, Reload, ReloadFails, TypeOK
    <2> QED
        BY <1>9, <2>1, <2>2 DEF Renew, ClearHostCert, FillHostCert, Reload, ReloadFails, TypeOK
<1>10. CASE RotateSkipped \/ RenewMTLSFails \/ WriteFails \/ SetClientCert
    <2>1. EndRound
        BY <1>10 DEF RotateSkipped, RenewMTLSFails, WriteFails, SetClientCert
    <2>2. faults' \in 0..MaxFaults /\ strikes' \in 0..faults'
        BY <1>10, FaultType DEF RotateSkipped, RenewMTLSFails, WriteFails, SetClientCert,
           CallFails, TypeOK
    <2>3. loaded' \in {loaded, new}
        BY <1>10 DEF RotateSkipped, RenewMTLSFails, WriteFails, SetClientCert
    <2> QED
        BY <1>10, <2>1, <2>2, <2>3, EndRoundTypes
           DEF RotateSkipped, RenewMTLSFails, WriteFails, SetClientCert, TypeOK
<1>11. CASE \E p \in Pairs : RenewMTLS(p)
    <2>1. 0 \in 0..(MTLSLife + 1)
        BY MaintenanceAssumption
    <2>2. age' \in [Pairs -> 0..(MTLSLife + 1)]
        BY <1>11, <2>1 DEF RenewMTLS, TypeOK
    <2> QED
        BY <1>11, <2>2 DEF RenewMTLS, TypeOK
<1>12. CASE WriteKey \/ WriteCert
    BY <1>12 DEF WriteKey, WriteCert, TypeOK
<1> QED
    BY <1>1, <1>2, <1>3, <1>4, <1>5, <1>6, <1>7, <1>8, <1>9, <1>10, <1>11, <1>12
       DEF Next, LoopStep, Failure

-----------------------------------------------------------------------------
(* The places of the pairs.                                                *)
LEMMA PlacesStep == TypeOK /\ PairPlaces /\ [Next]_vars => PairPlaces'
<1> SUFFICES ASSUME TypeOK, PairPlaces, [Next]_vars PROVE PairPlaces'
    OBVIOUS
<1> USE DEF mtls, timers, time, failures, Untroubled
<1>1. CASE UNCHANGED vars
    BY <1>1 DEF vars, PairPlaces
<1>2. CASE Tick
    BY <1>2 DEF Tick, PairPlaces
<1>3. CASE Start \/ Crash
    BY <1>3 DEF Start, Crash, PairPlaces
<1>4. CASE RenewTick \/ BundleTick \/ BundleChanges
    BY <1>4 DEF RenewTick, BundleTick, BundleChanges, PairPlaces
<1>5. CASE \/ FetchBundle \/ ClearBundle \/ FillBundle \/ FetchBundleFails \/ FillBundleFails
    BY <1>5 DEF FetchBundle, ClearBundle, FillBundle, FetchBundleFails, FillBundleFails,
                AfterBundle, PairPlaces
<1>6. CASE \/ Renew \/ ClearHostCert \/ FillHostCert \/ Reload
           \/ RenewFails \/ FillHostCertFails \/ ReloadFails
    BY <1>6 DEF Renew, ClearHostCert, FillHostCert, Reload, RenewFails, FillHostCertFails,
                ReloadFails, PairPlaces
<1>7. CASE RotateSkipped \/ RenewMTLSFails \/ WriteFails \/ SetClientCert
    <2>1. pc' = "idle" /\ starting' = FALSE /\ certFile' = certFile
        BY <1>7 DEF RotateSkipped, RenewMTLSFails, WriteFails, SetClientCert, EndRound
    <2>2. loaded' = certFile
        BY <1>7 DEF RotateSkipped, RenewMTLSFails, WriteFails, SetClientCert, PairPlaces
    <2> QED
        BY <2>1, <2>2 DEF PairPlaces
<1>8. CASE \E p \in Pairs : RenewMTLS(p)
    BY <1>8 DEF RenewMTLS, PairPlaces, TypeOK
<1>9. CASE WriteKey \/ WriteCert
    BY <1>9 DEF WriteKey, WriteCert, PairPlaces
<1> QED
    BY <1>1, <1>2, <1>3, <1>4, <1>5, <1>6, <1>7, <1>8, <1>9 DEF Next, LoopStep, Failure

(* The bounds leave the channel open as long as the trouble fits in.       *)
LEMMA OpenWithin ==
    ASSUME TypeOK, ChannelBound, pc # "down", Tolerates(MTLSLife) PROVE ChannelOpen
<1>1. age[loaded] \in Nat /\ age[loaded] <= MTLSDue + RenewSpent + RenewInterval
    BY MaintenanceAssumption DEF TypeOK, ChannelBound
<1> QED
    BY <1>1, Numbers DEF ChannelOpen

(* More trouble tolerates less.                                            *)
LEMMA TolerateLess ==
    ASSUME TypeOK, TypeOK', Free \/ Paid \/ Waited
    PROVE  /\ Tolerates(MTLSLife)' => Tolerates(MTLSLife)
           /\ Tolerates(HostLife)' => Tolerates(HostLife)
<1>1. RenewSpent' >= RenewSpent /\ RenewSpent \in Nat /\ RenewSpent' \in Nat
    <2>1. RenewSpent \in Nat /\ RenewInterval \in Nat
        BY Numbers
    <2> QED
        BY <2>1 DEF Free, Paid, Waited
<1>2. /\ Tolerates(MTLSLife)' <=> RenewSpent' + RenewInterval <= MTLSLife - MTLSDue
      /\ Tolerates(HostLife)' <=> RenewSpent' + RenewInterval <= HostLife - HostDue
    <2>1. /\ strikes' \in Nat /\ outage' \in Nat /\ RenewInterval \in Nat
        BY MaintenanceAssumption DEF TypeOK
    <2>2. /\ strikes' * RenewInterval \in Nat
          /\ (strikes' + 1) * RenewInterval = strikes' * RenewInterval + RenewInterval
        BY <2>1, Products
    <2>3. (strikes' + 1) * RenewInterval + outage' = RenewSpent' + RenewInterval
        BY <2>1, <2>2 DEF RenewSpent
    <2> QED
        BY <2>3 DEF Tolerates, MTLSDue, HostDue
<1> QED
    BY <1>1, <1>2, Numbers

-----------------------------------------------------------------------------
(* A step that lets no time pass and touches neither the loaded pair nor   *)
(* the timers, in a running process.                                       *)
LEMMA ChannelSame ==
    ASSUME TypeOK, TypeOK', ChannelBound, Free \/ Paid, pc # "down", pc' # "down",
           Waiting' => Waiting,
           age'[loaded'] = age[loaded], renewIn' = renewIn
    PROVE  ChannelBound'
<1>1. /\ RenewSpent \in Nat /\ MTLSDue \in Nat /\ RenewInterval \in Nat
      /\ age[loaded] \in Nat /\ renewIn \in Nat
    BY Numbers, MaintenanceAssumption DEF TypeOK
<1>2. RenewSpent' \in Nat /\ RenewSpent' >= RenewSpent
    BY <1>1 DEF Free, Paid
<1>3. SUFFICES ASSUME Tolerates(MTLSLife)' PROVE
        /\ age[loaded] <= MTLSDue + RenewSpent' + RenewInterval
        /\ Waiting => age[loaded] + renewIn <= MTLSDue + RenewSpent' + RenewInterval
    BY DEF ChannelBound, Startable, MTLSDue
<1>4. /\ age[loaded] <= MTLSDue + RenewSpent + RenewInterval
      /\ Waiting => age[loaded] + renewIn <= MTLSDue + RenewSpent + RenewInterval
    BY <1>3, TolerateLess DEF ChannelBound
<1> QED
    BY <1>1, <1>2, <1>4

(* The end of a round: the certificate is not due, or a fault was paid for.*)
LEMMA ChannelRound ==
    ASSUME TypeOK, TypeOK', ChannelBound, Free \/ Paid, pc # "down", pc' = "idle",
           Tolerates(MTLSLife)' => \/ Paid /\ age'[loaded'] = age[loaded]
                                   \/ age'[loaded'] <= MTLSDue
    PROVE  ChannelBound'
<1>1. /\ RenewSpent \in Nat /\ MTLSDue \in Nat /\ RenewInterval \in Nat
      /\ age[loaded] \in Nat /\ renewIn' \in 0..RenewInterval /\ age'[loaded'] \in Nat
    BY Numbers, MaintenanceAssumption DEF TypeOK
<1>2. RenewSpent' \in Nat /\ RenewSpent' >= RenewSpent
    BY <1>1 DEF Free, Paid
<1>3. SUFFICES ASSUME Tolerates(MTLSLife)'
               PROVE  age'[loaded'] + renewIn' <= MTLSDue + RenewSpent' + RenewInterval
    BY <1>1, <1>2 DEF ChannelBound, Startable, MTLSDue
<1>4. CASE age'[loaded'] <= MTLSDue
    BY <1>1, <1>2, <1>4
<1>5. CASE Paid /\ age'[loaded'] = age[loaded]
    <2>1. age[loaded] <= MTLSDue + RenewSpent + RenewInterval
        BY <1>3, TolerateLess DEF ChannelBound
    <2> QED
        BY <1>1, <1>5, <2>1 DEF Paid
<1> QED
    BY <1>3, <1>4, <1>5

(* Time brings the next check nearer as it ages the certificate.           *)
LEMMA ChannelTick ==
    ASSUME TypeOK, TypeOK', PairPlaces, ChannelBound, Tick PROVE ChannelBound'
<1>1. pc' = pc /\ starting' = starting /\ keyFile' = keyFile /\ certFile' = certFile
      /\ loaded' = loaded
    BY DEF Tick, mtls
<1>2. /\ loaded \in Pairs /\ certFile \in Pairs /\ MTLSLife \in Nat
      /\ age[loaded] \in 0..(MTLSLife + 1) /\ age[certFile] \in 0..(MTLSLife + 1)
    BY MaintenanceAssumption DEF TypeOK
<1>3. /\ age'[loaded] = Older(age[loaded], MTLSLife)
      /\ age'[certFile] = Older(age[certFile], MTLSLife)
    BY <1>2 DEF Tick
<1>4. /\ age'[loaded] \in Nat /\ age'[loaded] <= age[loaded] + 1
      /\ age'[certFile] \in Nat /\ age'[certFile] <= age[certFile] + 1
    <2>1. /\ Older(age[loaded], MTLSLife) \in 0..(MTLSLife + 1)
          /\ Older(age[loaded], MTLSLife) <= age[loaded] + 1
        BY <1>2, OlderRange
    <2>2. /\ Older(age[certFile], MTLSLife) \in 0..(MTLSLife + 1)
          /\ Older(age[certFile], MTLSLife) <= age[certFile] + 1
        BY <1>2, OlderRange
    <2> QED
        BY <1>2, <1>3, <2>1, <2>2
<1>5. /\ renewIn \in 0..RenewInterval /\ MTLSDue \in Nat /\ RenewSpent \in Nat
      /\ RenewInterval \in Nat
    BY Numbers, MaintenanceAssumption DEF TypeOK
<1>6. CASE pc = "down"
    <2>1. ~ Waiting'
        BY <1>1, <1>6 DEF Waiting, Refreshing
    <2>2. ASSUME Tolerates(MTLSLife)', Startable'
          PROVE  age'[certFile] <= MTLSDue + RenewSpent'
        <3>1. Waited
            BY <1>6, <2>2, TickSpending, TolerateLess
        <3>2. Tolerates(MTLSLife) /\ Startable
            BY <1>1, <2>2, <3>1, TolerateLess DEF Startable
        <3>3. age[certFile] <= MTLSDue + RenewSpent
            BY <3>2 DEF ChannelBound
        <3> QED
            BY <1>2, <1>4, <1>5, <3>1, <3>3 DEF Waited
    <2> QED
        BY <1>1, <1>6, <2>1, <2>2 DEF ChannelBound, MTLSDue
<1>7. CASE pc = "idle"
    <2>1. renewIn > 0 /\ renewIn' = renewIn - 1 /\ ~ Startable'
        BY <1>1, <1>7 DEF Tick, Startable
    <2>2. ASSUME Tolerates(MTLSLife)'
          PROVE  /\ age'[loaded] + renewIn' <= MTLSDue + RenewSpent' + RenewInterval
                 /\ age'[loaded] <= MTLSDue + RenewSpent' + RenewInterval
        <3>1. CASE AllInOrder
            <4>1. age[loaded] <= MTLSDue /\ RenewSpent' = 0
                BY <1>7, <3>1, TickSpending DEF AllInOrder, MTLSDue, Settled
            <4> QED
                BY <1>2, <1>4, <1>5, <2>1, <4>1
        <3>2. CASE ~ AllInOrder
            <4>1. Free
                BY <1>7, <3>2, TickSpending
            <4>2. age[loaded] + renewIn <= MTLSDue + RenewSpent + RenewInterval
                BY <1>7, <2>2, <4>1, TolerateLess DEF ChannelBound, Waiting
            <4> QED
                BY <1>2, <1>4, <1>5, <2>1, <4>1, <4>2 DEF Free
        <3> QED
            BY <3>1, <3>2
    <2> QED
        BY <1>1, <2>1, <2>2 DEF ChannelBound, MTLSDue
<1> QED
    BY <1>6, <1>7 DEF Tick

(* Every step keeps the bound on the client certificate's age.             *)
LEMMA ChannelStep ==
    ASSUME TypeOK, TypeOK', PairPlaces, ChannelBound, Next PROVE ChannelBound'
<1> USE DEF mtls, timers, time, failures, Untroubled
<1>0. /\ RenewSpent \in Nat /\ MTLSDue \in Nat /\ RenewInterval \in Nat
      /\ age[loaded] \in Nat /\ age[certFile] \in Nat
    BY Numbers, MaintenanceAssumption DEF TypeOK
<1>1. CASE Tick
    BY <1>1, ChannelTick
<1>2. CASE Start
    <2>1. /\ Startable /\ loaded' = certFile /\ pc' = "bundle" /\ starting' = TRUE
          /\ age' = age /\ Untroubled
        BY <1>2 DEF Start, Startable
    <2>2. Free /\ ~ Waiting' /\ ~ Startable'
        BY <2>1, Spending DEF Waiting, Refreshing, Startable
    <2>3. ASSUME Tolerates(MTLSLife)' PROVE age[certFile] <= MTLSDue + RenewSpent
        BY <2>1, <2>2, <2>3, TolerateLess DEF ChannelBound
    <2>4. ASSUME Tolerates(MTLSLife)'
          PROVE  age'[loaded'] <= MTLSDue + RenewSpent' + RenewInterval
        BY <1>0, <2>1, <2>2, <2>3, <2>4 DEF Free
    <2> QED
        BY <2>2, <2>4 DEF ChannelBound, MTLSDue
<1>3. CASE Crash
    <2>1. /\ pc # "down" /\ pc' = "down" /\ Fault /\ outage' = outage /\ age' = age /\ certFile' = certFile
        BY <1>3 DEF Crash
    <2>2. Paid /\ ~ Waiting'
        BY <2>1, Spending DEF Waiting, Refreshing
    <2>3. certFile = loaded \/ age[certFile] = 0
        BY <2>1 DEF PairPlaces
    <2>4. ASSUME Tolerates(MTLSLife)'
          PROVE  age[loaded] <= MTLSDue + RenewSpent + RenewInterval
        BY <2>1, <2>2, <2>4, TolerateLess DEF ChannelBound
    <2>5. ASSUME Tolerates(MTLSLife)' PROVE age'[certFile'] <= MTLSDue + RenewSpent'
        BY <1>0, <2>1, <2>2, <2>3, <2>4, <2>5 DEF Paid
    <2> QED
        BY <2>1, <2>2, <2>5 DEF ChannelBound, MTLSDue
<1>4. CASE RenewTick
    <2>1. /\ pc = "idle" /\ pc' = "renew" /\ age' = age /\ loaded' = loaded
          /\ Untroubled
        BY <1>4 DEF RenewTick
    <2>2. Free /\ ~ Waiting' /\ ~ Startable'
        BY <2>1, Spending DEF Waiting, Refreshing, Startable
    <2>3. ASSUME Tolerates(MTLSLife)'
          PROVE  age[loaded] <= MTLSDue + RenewSpent + RenewInterval
        BY <2>1, <2>2, <2>3, TolerateLess DEF ChannelBound
    <2> QED
        BY <2>1, <2>2, <2>3 DEF ChannelBound, MTLSDue, Free
<1>5. CASE BundleTick
    <2>1. /\ pc = "idle" /\ pc' = "bundle" /\ age' = age /\ loaded' = loaded
          /\ Untroubled /\ renewIn' = renewIn
        BY <1>5 DEF BundleTick
    <2>2. Free /\ Waiting
        BY <2>1, Spending DEF Waiting
    <2> QED
        BY <2>1, <2>2, ChannelSame
<1>6. CASE \/ FetchBundle \/ ClearBundle \/ FillBundle \/ FetchBundleFails \/ FillBundleFails
    <2>1. /\ Refreshing /\ pc # "down" /\ pc' # "down" /\ age' = age /\ loaded' = loaded
          /\ renewIn' = renewIn /\ starting' = starting
          /\ pc' = "idle" => ~ starting
        BY <1>6 DEF FetchBundle, ClearBundle, FillBundle, FetchBundleFails, FillBundleFails,
                    AfterBundle, Refreshing
    <2>2. Free \/ Paid
        BY <1>6, Spending DEF FetchBundle, ClearBundle, FillBundle, FetchBundleFails,
                              FillBundleFails, CallFails
    <2>3. Waiting' => Waiting
        BY <2>1 DEF Waiting
    <2> QED
        BY <2>1, <2>2, <2>3, ChannelSame
<1>7. CASE \/ Renew \/ ClearHostCert \/ FillHostCert \/ Reload
           \/ RenewFails \/ FillHostCertFails \/ ReloadFails
    <2>1. /\ pc # "down" /\ pc' # "down" /\ age' = age /\ loaded' = loaded
          /\ renewIn' = renewIn
          /\ pc' \in {"hostClear", "hostFill", "reload", "rotate"}
        BY <1>7 DEF Renew, ClearHostCert, FillHostCert, Reload, RenewFails,
                    FillHostCertFails, ReloadFails
    <2>2. Free \/ Paid
        BY <1>7, Spending DEF Renew, ClearHostCert, FillHostCert, Reload, RenewFails,
                    FillHostCertFails, ReloadFails, CallFails
    <2>3. ~ Waiting'
        BY <2>1 DEF Waiting, Refreshing
    <2> QED
        BY <2>1, <2>2, <2>3, ChannelSame
<1>8. CASE RotateSkipped
    <2>1. /\ pc = "rotate" /\ ~ NeedsRotation /\ EndRound /\ age' = age /\ loaded' = loaded
          /\ Untroubled
        BY <1>8 DEF RotateSkipped
    <2>2. Free /\ pc' = "idle" /\ loaded = certFile
        BY <2>1, Spending DEF EndRound, PairPlaces
    <2>3. age'[loaded'] <= MTLSDue
        BY <1>0, <2>1, <2>2 DEF NeedsRotation, MTLSDue
    <2> QED
        BY <2>1, <2>2, <2>3, ChannelRound
<1>9. CASE RenewMTLSFails \/ WriteFails
    <2>1. /\ pc # "down" /\ EndRound /\ age' = age /\ loaded' = loaded
          /\ (Fault /\ outage' = outage) \/ (~ ChannelOpen /\ Untroubled)
        BY <1>9 DEF RenewMTLSFails, WriteFails, CallFails
    <2>2. pc' = "idle" /\ (Free \/ Paid)
        BY <2>1, Spending DEF EndRound
    <2>3. Tolerates(MTLSLife)' => ChannelOpen
        BY <2>1, <2>2, TolerateLess, OpenWithin
    <2>4. Tolerates(MTLSLife)' => Paid
        BY <2>1, <2>3, Spending
    <2> QED
        BY <2>1, <2>2, <2>4, ChannelRound
<1>10. CASE SetClientCert
    <2>1. /\ pc = "swap" /\ loaded' = new /\ EndRound /\ age' = age /\ Untroubled
        BY <1>10 DEF SetClientCert
    <2>2. Free /\ pc' = "idle" /\ age'[loaded'] = 0
        BY <2>1, Spending DEF EndRound, PairPlaces
    <2> QED
        BY <1>0, <2>1, <2>2, ChannelRound
<1>11. CASE (\E p \in Pairs : RenewMTLS(p)) \/ WriteKey \/ WriteCert
    <2>1. /\ pc # "down" /\ pc' \in {"key", "cert", "swap"} /\ loaded' = loaded
          /\ renewIn' = renewIn /\ Untroubled
        BY <1>11 DEF RenewMTLS, WriteKey, WriteCert
    <2>2. age'[loaded'] = age[loaded]
        BY <1>11 DEF RenewMTLS, WriteKey, WriteCert, TypeOK
    <2>3. Free /\ ~ Waiting' /\ pc' # "down"
        BY <2>1, Spending DEF Waiting, Refreshing
    <2> QED
        BY <2>1, <2>2, <2>3, ChannelSame
<1>12. CASE BundleChanges
    <2>1. /\ pc' = pc /\ starting' = starting /\ age' = age /\ loaded' = loaded
          /\ certFile' = certFile /\ keyFile' = keyFile /\ renewIn' = renewIn
          /\ Untroubled
        BY <1>12 DEF BundleChanges
    <2> QED
        BY <2>1 DEF ChannelBound, Waiting, Refreshing, Startable, Tolerates, RenewSpent,
                    MTLSDue
<1> QED
    BY <1>1, <1>2, <1>3, <1>4, <1>5, <1>6, <1>7, <1>8, <1>9, <1>10, <1>11, <1>12
       DEF Next, LoopStep, Failure

-----------------------------------------------------------------------------
(* Every step keeps the tie between the file and what sshd presents.       *)
LEMMA FileStep ==
    ASSUME TypeOK, ServedIsFile, Next PROVE ServedIsFile'
<1> USE DEF host
<1>1. CASE Tick
    <2>1. /\ pc' = pc /\ pc # "reload" /\ missed' = missed
          /\ hostAge' = Older(hostAge, HostLife) /\ served' = Older(served, HostLife)
        BY <1>1 DEF Tick
    <2>2. Older(HostExpired, HostLife) = HostExpired
        BY MaintenanceAssumption DEF Older, HostExpired
    <2> QED
        BY <2>1, <2>2 DEF ServedIsFile
<1>2. CASE Crash
    BY <1>2 DEF Crash, ServedIsFile
<1>3. CASE ClearHostCert \/ FillHostCert \/ Reload \/ ReloadFails
    BY <1>3 DEF ClearHostCert, FillHostCert, Reload, ReloadFails, ServedIsFile
<1>4. CASE \/ Start \/ RenewTick \/ BundleTick \/ BundleChanges
           \/ FetchBundle \/ ClearBundle \/ FillBundle \/ FetchBundleFails
           \/ FillBundleFails \/ Renew \/ RenewFails \/ FillHostCertFails
           \/ RotateSkipped \/ RenewMTLSFails \/ WriteFails \/ SetClientCert
           \/ (\E p \in Pairs : RenewMTLS(p)) \/ WriteKey \/ WriteCert
    <2>1. hostAge' = hostAge /\ served' = served /\ missed' = missed
        BY <1>4 DEF Start, RenewTick, BundleTick, BundleChanges, FetchBundle, ClearBundle,
           FillBundle, FetchBundleFails, FillBundleFails, Renew, RenewFails,
           FillHostCertFails, RotateSkipped, RenewMTLSFails, WriteFails, SetClientCert,
           RenewMTLS, WriteKey, WriteCert
    <2>2. (pc' # "reload" /\ pc # "reload") \/ pc' = pc
        BY <1>4 DEF Start, RenewTick, BundleTick, BundleChanges, FetchBundle, ClearBundle,
           FillBundle, FetchBundleFails, FillBundleFails, AfterBundle, Renew, RenewFails,
           FillHostCertFails, RotateSkipped, RenewMTLSFails, WriteFails, SetClientCert,
           EndRound, RenewMTLS, WriteKey, WriteCert
    <2> QED
        BY <2>1, <2>2 DEF ServedIsFile
<1> QED
    BY <1>1, <1>2, <1>3, <1>4 DEF Next, LoopStep, Failure

(* The numbers of the served certificate.                                  *)
LEMMA ServedNumbers ==
    ASSUME TypeOK, TypeOK', Free \/ Paid, ~ missed' => ~ missed
    PROVE  /\ RenewSpent \in Nat /\ HostDue \in Nat /\ RenewInterval \in Nat
           /\ RenewSpent' \in Nat /\ RenewSpent' >= RenewSpent
           /\ served \in Nat /\ served' \in Nat /\ renewIn \in Nat
           /\ renewIn' \in 0..RenewInterval
           /\ HostClaim' => HostClaim
<1>1. /\ RenewSpent \in Nat /\ HostDue \in Nat /\ RenewInterval \in Nat
      /\ served \in Nat /\ served' \in Nat /\ renewIn \in Nat
      /\ renewIn' \in 0..RenewInterval
    BY Numbers, MaintenanceAssumption DEF TypeOK
<1>2. RenewSpent' \in Nat /\ RenewSpent' >= RenewSpent
    BY <1>1 DEF Free, Paid
<1> QED
    BY <1>1, <1>2, TolerateLess DEF HostClaim

(* A step that lets no time pass and changes nothing of it.                *)
LEMMA ServedSame ==
    ASSUME TypeOK, TypeOK', ServedBound, Free \/ Paid, ~ missed' => ~ missed,
           pc # "down", pc' # "down", Waiting' => Waiting, HostChecked' => HostChecked,
           served' = served, renewIn' = renewIn
    PROVE  ServedBound'
<1>1. SUFFICES ASSUME HostClaim' PROVE
        /\ HostChecked => served <= HostDue + RenewSpent'
        /\ served <= HostDue + RenewSpent' + RenewInterval
        /\ Waiting => served + renewIn <= HostDue + RenewSpent' + RenewInterval
    BY DEF ServedBound, Startable, HostDue
<1>2. HostClaim
    BY <1>1, ServedNumbers
<1>3. /\ HostChecked => served <= HostDue + RenewSpent
      /\ served <= HostDue + RenewSpent + RenewInterval
      /\ Waiting => served + renewIn <= HostDue + RenewSpent + RenewInterval
    BY <1>2 DEF ServedBound
<1> QED
    BY <1>3, ServedNumbers

(* A bound may grow.                                                       *)
LEMMA AddMore ==
    ASSUME NEW a \in Nat, NEW b \in Nat, NEW c \in Nat
    PROVE  b + c \in Nat /\ (a <= b => a <= b + c)
OBVIOUS

(* The check of a round is over: the certificate is fresh, not due, or a   *)
(* fault was paid for.                                                     *)
CheckPassed == \/ Paid /\ served' = served /\ missed' = missed
               \/ served' <= HostDue

(* A round that is past its check.                                         *)
LEMMA ServedCheck ==
    ASSUME TypeOK, TypeOK', ServedBound, Free \/ Paid, pc # "down", pc' = "rotate",
           HostClaim' => CheckPassed
    PROVE  ServedBound'
<1>0. /\ RenewSpent \in Nat /\ HostDue \in Nat /\ RenewInterval \in Nat /\ served \in Nat
      /\ served' \in Nat
    BY Numbers, MaintenanceAssumption DEF TypeOK
<1>1. RenewSpent' \in Nat /\ RenewSpent' >= RenewSpent
    BY <1>0 DEF Free, Paid
<1>2. SUFFICES ASSUME HostClaim' PROVE served' <= HostDue + RenewSpent'
    <2>1. ~ Startable' /\ ~ Waiting' /\ HostChecked'
        BY DEF Startable, Waiting, Refreshing, HostChecked
    <2>2. ASSUME served' <= HostDue + RenewSpent'
          PROVE  served' <= HostDue + RenewSpent' + RenewInterval
        <3>1. HostDue + RenewSpent' \in Nat
            BY <1>0, <1>1, AddMore
        <3> QED
            BY <1>0, <2>2, <3>1, AddMore
    <2> QED
        BY <2>1, <2>2 DEF ServedBound, HostDue
<1>3. CASE served' <= HostDue
    BY <1>0, <1>1, <1>3, AddMore
<1>4. CASE Paid /\ served' = served /\ missed' = missed
    <2>1. HostClaim
        BY <1>2, <1>4, TolerateLess DEF HostClaim
    <2>2. served <= HostDue + RenewSpent + RenewInterval
        BY <2>1 DEF ServedBound
    <2>3. RenewSpent' = RenewSpent + RenewInterval /\ served' = served
        BY <1>4 DEF Paid
    <2> QED
        BY <1>0, <2>2, <2>3
<1> QED
    BY <1>2, <1>3, <1>4 DEF CheckPassed

(* The end of a round.                                                     *)
LEMMA ServedRound ==
    ASSUME TypeOK, TypeOK', ServedBound, Free \/ Paid, HostChecked, pc' = "idle",
           served' = served, missed' = missed
    PROVE  ServedBound'
<1>1. ~ Startable' /\ ~ HostChecked'
    BY DEF Startable, HostChecked
<1>2. ASSUME HostClaim' PROVE served + renewIn' <= HostDue + RenewSpent' + RenewInterval
    <2>1. HostClaim
        BY <1>2, ServedNumbers
    <2>2. served <= HostDue + RenewSpent
        BY <2>1 DEF ServedBound
    <2> QED
        BY <2>2, ServedNumbers
<1>3. ASSUME HostClaim' PROVE served <= HostDue + RenewSpent' + RenewInterval
    BY <1>2, <1>3, ServedNumbers
<1> QED
    BY <1>1, <1>2, <1>3 DEF ServedBound, HostDue

(* Time brings the next check nearer as it ages the certificate.           *)
LEMMA ServedTick ==
    ASSUME TypeOK, TypeOK', ServedBound, Tick PROVE ServedBound'
<1>1. /\ pc' = pc /\ starting' = starting /\ keyFile' = keyFile /\ certFile' = certFile
      /\ missed' = missed /\ served' = Older(served, HostLife)
    BY DEF Tick, mtls
<1>2. /\ served \in Nat /\ served' \in Nat /\ served' <= served + 1
    BY <1>1, MaintenanceAssumption, OlderRange DEF TypeOK, HostExpired
<1>3. /\ renewIn \in 0..RenewInterval /\ HostDue \in Nat /\ RenewSpent \in Nat
      /\ RenewInterval \in Nat
    BY Numbers, MaintenanceAssumption DEF TypeOK
<1>4. ~ HostChecked'
    BY <1>1 DEF HostChecked, Tick
<1>5. CASE pc = "down"
    <2>1. ~ Waiting'
        BY <1>1, <1>5 DEF Waiting, Refreshing
    <2>2. ASSUME HostClaim', Startable'
          PROVE  served' <= HostDue + RenewSpent'
        <3>1. Waited
            BY <1>5, <2>2, TickSpending, TolerateLess DEF HostClaim
        <3>2. HostClaim /\ Startable
            BY <1>1, <2>2, <3>1, TolerateLess DEF HostClaim, Startable
        <3>3. served <= HostDue + RenewSpent
            BY <3>2 DEF ServedBound
        <3> QED
            BY <1>2, <1>3, <3>1, <3>3 DEF Waited
    <2> QED
        BY <1>1, <1>4, <1>5, <2>1, <2>2 DEF ServedBound, HostDue
<1>6. CASE pc = "idle"
    <2>1. renewIn > 0 /\ renewIn' = renewIn - 1 /\ ~ Startable'
        BY <1>1, <1>6 DEF Tick, Startable
    <2>2. ASSUME HostClaim'
          PROVE  /\ served' + renewIn' <= HostDue + RenewSpent' + RenewInterval
                 /\ served' <= HostDue + RenewSpent' + RenewInterval
        <3>1. CASE AllInOrder
            <4>1. served <= HostDue /\ RenewSpent' = 0
                BY <1>6, <3>1, TickSpending DEF AllInOrder, HostDue, Settled
            <4>2. served + renewIn <= HostDue + 0 + RenewInterval
                BY <1>2, <1>3, <4>1
            <4>3. HostDue + 0 + RenewInterval \in Nat /\ renewIn \in Nat
                BY <1>3
            <4>4. /\ served' + (renewIn - 1) <= HostDue + 0 + RenewInterval
                  /\ served' <= HostDue + 0 + RenewInterval
                BY ONLY <1>2, <2>1, <4>2, <4>3, Nearer
            <4> QED
                BY <2>1, <4>1, <4>4
        <3>2. CASE ~ AllInOrder
            <4>1. Free
                BY <1>6, <3>2, TickSpending
            <4>2. HostClaim
                BY <1>1, <2>2, <4>1, TolerateLess DEF HostClaim
            <4>3. served + renewIn <= HostDue + RenewSpent + RenewInterval
                BY <1>6, <4>2 DEF ServedBound, Waiting
            <4>4. HostDue + RenewSpent + RenewInterval \in Nat /\ renewIn \in Nat
                BY <1>3
            <4>5. /\ served' + (renewIn - 1) <= HostDue + RenewSpent + RenewInterval
                  /\ served' <= HostDue + RenewSpent + RenewInterval
                BY ONLY <1>2, <2>1, <4>3, <4>4, Nearer
            <4> QED
                BY <2>1, <4>1, <4>5 DEF Free
        <3> QED
            BY <3>1, <3>2
    <2> QED
        BY <1>4, <2>1, <2>2 DEF ServedBound, HostDue
<1> QED
    BY <1>5, <1>6 DEF Tick

(* Every step keeps the bound on the served certificate's age.             *)
LEMMA ServedStep ==
    ASSUME TypeOK, TypeOK', PairPlaces, ChannelBound, ServedIsFile, ServedBound, Next
    PROVE  ServedBound'
<1> USE DEF mtls, timers, time, host, failures, Untroubled
<1>1. CASE Tick
    BY <1>1, ServedTick
<1>2. CASE Start
    <2>1. /\ Startable /\ pc' = "bundle" /\ starting' = TRUE
          /\ served' = served /\ missed' = missed /\ Untroubled
        BY <1>2 DEF Start, Startable
    <2>2. Free /\ ~ Waiting' /\ ~ Startable' /\ ~ HostChecked'
        BY <2>1, Spending DEF Waiting, Refreshing, Startable, HostChecked
    <2>3. ASSUME HostClaim' PROVE served <= HostDue + RenewSpent
        BY <2>1, <2>2, <2>3, ServedNumbers DEF ServedBound
    <2>4. ASSUME HostClaim' PROVE served' <= HostDue + RenewSpent' + RenewInterval
        BY <2>1, <2>2, <2>3, <2>4, ServedNumbers DEF Free
    <2> QED
        BY <2>2, <2>4 DEF ServedBound, HostDue
<1>3. CASE Crash
    <2>1. /\ pc # "down" /\ pc' = "down" /\ Fault /\ outage' = outage /\ served' = served
          /\ ~ missed' => ~ missed
        BY <1>3 DEF Crash, TypeOK
    <2>2. Paid /\ ~ Waiting' /\ ~ HostChecked'
        BY <2>1, Spending DEF Waiting, Refreshing, HostChecked
    <2>3. ASSUME HostClaim' PROVE served <= HostDue + RenewSpent + RenewInterval
        BY <2>1, <2>2, <2>3, ServedNumbers DEF ServedBound
    <2>4. ASSUME HostClaim' PROVE served' <= HostDue + RenewSpent'
        BY <2>1, <2>2, <2>3, <2>4, ServedNumbers DEF Paid
    <2> QED
        BY <2>1, <2>2, <2>4 DEF ServedBound, HostDue
<1>4. CASE RenewTick
    <2>1. /\ pc = "idle" /\ pc' = "renew" /\ served' = served /\ missed' = missed
          /\ Untroubled
        BY <1>4 DEF RenewTick
    <2>2. Free /\ ~ Waiting' /\ ~ Startable' /\ ~ HostChecked'
        BY <2>1, Spending DEF Waiting, Refreshing, Startable, HostChecked
    <2>3. ASSUME HostClaim' PROVE served <= HostDue + RenewSpent + RenewInterval
        BY <2>1, <2>2, <2>3, ServedNumbers DEF ServedBound
    <2> QED
        BY <2>1, <2>2, <2>3 DEF ServedBound, HostDue, Free
<1>5. CASE BundleTick
    <2>1. /\ pc = "idle" /\ pc' = "bundle" /\ served' = served /\ missed' = missed
          /\ Untroubled /\ renewIn' = renewIn
        BY <1>5 DEF BundleTick
    <2>2. Free /\ Waiting /\ ~ HostChecked'
        BY <2>1, Spending DEF Waiting, HostChecked
    <2> QED
        BY <2>1, <2>2, ServedSame
<1>6. CASE \/ FetchBundle \/ ClearBundle \/ FillBundle \/ FetchBundleFails \/ FillBundleFails
    <2>1. /\ Refreshing /\ pc # "down" /\ pc' # "down" /\ served' = served
          /\ missed' = missed /\ renewIn' = renewIn /\ starting' = starting
          /\ pc' = "idle" => ~ starting
        BY <1>6 DEF FetchBundle, ClearBundle, FillBundle, FetchBundleFails, FillBundleFails,
                    AfterBundle, Refreshing
    <2>2. Free \/ Paid
        BY <1>6, Spending DEF FetchBundle, ClearBundle, FillBundle, FetchBundleFails,
                              FillBundleFails, CallFails
    <2>3. Waiting' => Waiting
        BY <2>1 DEF Waiting
    <2>4. ~ HostChecked'
        BY <1>6 DEF FetchBundle, ClearBundle, FillBundle, FetchBundleFails, FillBundleFails,
                    AfterBundle, HostChecked
    <2> QED
        BY <2>1, <2>2, <2>3, <2>4, ServedSame
<1>7. CASE (Renew /\ NeedsRenewal) \/ ClearHostCert \/ FillHostCert
    <2>1. /\ pc # "down" /\ pc' \in {"hostClear", "hostFill", "reload"}
          /\ served' = served /\ missed' = missed /\ renewIn' = renewIn /\ Untroubled
        BY <1>7 DEF Renew, ClearHostCert, FillHostCert
    <2>2. Free /\ ~ Waiting' /\ ~ HostChecked' /\ pc' # "down"
        BY <2>1, Spending DEF Waiting, Refreshing, HostChecked
    <2> QED
        BY <2>1, <2>2, ServedSame
<1>8. CASE Renew /\ ~ NeedsRenewal
    <2>1. /\ pc = "renew" /\ pc' = "rotate" /\ served' = served /\ missed' = missed
          /\ Untroubled /\ hostAge <= HostDue
        BY <1>8, MaintenanceAssumption, Numbers
           DEF Renew, NeedsRenewal, TypeOK, HostExpired, HostDue
    <2>2. Free /\ pc # "down" /\ pc # "reload"
        BY <2>1, Spending
    <2>3. HostExpired > HostDue
        BY Numbers DEF HostExpired
    <2>4. hostAge # HostExpired
        BY <2>1, <2>3, Numbers DEF HostExpired
    <2>5. ~ missed => served = hostAge
        BY <2>2, <2>4 DEF ServedIsFile
    <2>6. HostClaim' => CheckPassed
        BY <2>1, <2>5 DEF HostClaim, CheckPassed
    <2> QED
        BY <2>1, <2>2, <2>6, ServedCheck
<1>9. CASE RenewFails \/ FillHostCertFails
    <2>1. /\ pc # "down" /\ pc' = "rotate" /\ served' = served /\ missed' = missed
          /\ (Fault /\ outage' = outage) \/ (~ ChannelOpen /\ Untroubled)
        BY <1>9 DEF RenewFails, FillHostCertFails, CallFails
    <2>2. Free \/ Paid
        BY <2>1, Spending
    <2>3. Tolerates(MTLSLife)' => ChannelOpen
        BY <2>1, <2>2, TolerateLess, OpenWithin
    <2>4. HostClaim' => Paid
        BY <2>1, <2>3, Spending DEF HostClaim
    <2>5. HostClaim' => CheckPassed
        BY <2>1, <2>4 DEF CheckPassed
    <2> QED
        BY <2>1, <2>2, <2>5, ServedCheck
<1>10. CASE Reload
    <2>1. /\ pc = "reload" /\ pc' = "rotate" /\ served' = hostAge /\ Untroubled
        BY <1>10 DEF Reload
    <2>2. Free /\ pc # "down" /\ served' = 0
        BY <2>1, Spending DEF ServedIsFile
    <2>3. served' <= HostDue
        BY <2>2, Numbers
    <2> QED
        BY <2>1, <2>2, <2>3, ServedCheck DEF CheckPassed
<1>11. CASE ReloadFails
    BY <1>11 DEF ReloadFails, ServedBound, HostClaim
<1>12. CASE RotateSkipped \/ RenewMTLSFails \/ WriteFails \/ SetClientCert
    <2>1. /\ HostChecked /\ pc' = "idle" /\ served' = served /\ missed' = missed
        BY <1>12 DEF RotateSkipped, RenewMTLSFails, WriteFails, SetClientCert, EndRound,
                     HostChecked
    <2>2. Free \/ Paid
        BY <1>12, Spending DEF RotateSkipped, RenewMTLSFails, WriteFails, SetClientCert,
                     CallFails
    <2> QED
        BY <2>1, <2>2, ServedRound
<1>13. CASE (\E p \in Pairs : RenewMTLS(p)) \/ WriteKey \/ WriteCert
    <2>1. /\ HostChecked /\ pc # "down" /\ pc' \in {"key", "cert", "swap"}
          /\ served' = served /\ missed' = missed /\ renewIn' = renewIn /\ Untroubled
        BY <1>13 DEF RenewMTLS, WriteKey, WriteCert, HostChecked
    <2>2. Free /\ ~ Waiting' /\ pc' # "down"
        BY <2>1, Spending DEF Waiting, Refreshing
    <2> QED
        BY <2>1, <2>2, ServedSame
<1>14. CASE BundleChanges
    <2>1. /\ pc' = pc /\ starting' = starting /\ served' = served /\ missed' = missed
          /\ certFile' = certFile /\ keyFile' = keyFile /\ renewIn' = renewIn
          /\ Untroubled
        BY <1>14 DEF BundleChanges
    <2> QED
        BY <2>1 DEF ServedBound, HostClaim, HostChecked, Waiting, Refreshing, Startable,
                    Tolerates, RenewSpent, HostDue
<1> QED
    BY <1>1, <1>2, <1>3, <1>4, <1>5, <1>6, <1>7, <1>8, <1>9, <1>10, <1>11, <1>12, <1>13,
       <1>14 DEF Next, LoopStep, Failure

-----------------------------------------------------------------------------
(* The numbers of the bundle's lag.                                        *)
LEMMA BundleNumbers ==
    ASSUME TypeOK, TypeOK', Free \/ Paid
    PROVE  /\ BundleSpent \in Nat /\ BundleInterval \in Nat
           /\ BundleSpent' \in Nat /\ BundleSpent' >= BundleSpent
           /\ lag \in Nat /\ lag' \in Nat
           /\ bundleIn \in 0..BundleInterval /\ bundleIn' \in 0..BundleInterval
           /\ Tolerates(MTLSLife)' => Tolerates(MTLSLife)
<1>1. /\ BundleSpent \in Nat /\ BundleInterval \in Nat
      /\ lag \in Nat /\ lag' \in Nat
      /\ bundleIn \in 0..BundleInterval /\ bundleIn' \in 0..BundleInterval
    BY Numbers, MaintenanceAssumption DEF TypeOK
<1>2. BundleSpent' \in Nat /\ BundleSpent' >= BundleSpent
    BY <1>1 DEF Free, Paid
<1> QED
    BY <1>1, <1>2, TolerateLess

(* A step outside the refresh that lets no time pass.                      *)
LEMMA BundleSame ==
    ASSUME TypeOK, TypeOK', BundleBound, Free \/ Paid, pc # "down", pc' # "down",
           ~ Writing', Stale' => Stale, Past' => Past,
           Between' => Between /\ bundleIn' = bundleIn, lag' = lag
    PROVE  BundleBound'
<1>1. ASSUME Tolerates(MTLSLife)', Stale'
      PROVE  /\ Past => lag <= BundleSpent
             /\ lag <= BundleSpent + BundleInterval
             /\ Between => lag + bundleIn <= BundleSpent + BundleInterval
    BY <1>1, BundleNumbers DEF BundleBound
<1>2. ASSUME Tolerates(MTLSLife)', Stale'
      PROVE  /\ Past => lag <= BundleSpent'
             /\ lag <= BundleSpent' + BundleInterval
             /\ Between => lag + bundleIn <= BundleSpent' + BundleInterval
    BY <1>1, <1>2, BundleNumbers
<1>3. ~ Startable'
    BY DEF Startable
<1> QED
    BY <1>2, <1>3 DEF BundleBound

(* The end of a round; that of a new process sets the ticker.              *)
LEMMA BundleRound ==
    ASSUME TypeOK, TypeOK', BundleBound, Free \/ Paid, Past \/ Between, EndRound,
           bundleFile' = bundleFile, bundleSrv' = bundleSrv, lag' = lag
    PROVE  BundleBound'
<1>1. pc' = "idle" /\ starting' = FALSE
    BY DEF EndRound
<1>2. ~ Startable' /\ ~ Past' /\ ~ Writing' /\ (Stale' <=> Stale) /\ pc # "down"
    BY <1>1 DEF Startable, Past, Between, Writing, Stale
<1>3. Between => bundleIn' = bundleIn
    BY DEF EndRound, Between, timers
<1>4. ASSUME Tolerates(MTLSLife)', Stale
      PROVE  lag + bundleIn' <= BundleSpent' + BundleInterval
    <2>1. CASE Past
        <3>1. lag <= BundleSpent
            BY <1>4, <2>1, BundleNumbers DEF BundleBound
        <3> QED
            BY <3>1, BundleNumbers
    <2>2. CASE Between
        <3>1. lag + bundleIn <= BundleSpent + BundleInterval
            BY <1>4, <2>2, BundleNumbers DEF BundleBound
        <3> QED
            BY <1>3, <2>2, <3>1, BundleNumbers
    <2> QED
        BY <2>1, <2>2
<1>5. ASSUME Tolerates(MTLSLife)', Stale
      PROVE  lag <= BundleSpent' + BundleInterval
    BY <1>4, <1>5, BundleNumbers
<1> QED
    BY <1>2, <1>4, <1>5 DEF BundleBound

(* The refresh breaks off.                                                 *)
LEMMA RefreshBroken ==
    ASSUME TypeOK, TypeOK', BundleBound, pc # "down", pc' # "down", ~ Writing',
           Free \/ Paid, Tolerates(MTLSLife)' => Paid,
           bundleFile' = bundleFile, bundleSrv' = bundleSrv, lag' = lag
    PROVE  BundleBound'
<1>1. ~ Startable' /\ (Stale' <=> Stale)
    BY DEF Startable, Stale
<1>2. ASSUME Tolerates(MTLSLife)', Stale
      PROVE  /\ lag <= BundleSpent + BundleInterval
             /\ BundleSpent' = BundleSpent + BundleInterval
    BY <1>2, BundleNumbers DEF BundleBound, Paid
<1>3. ASSUME Tolerates(MTLSLife)', Stale
      PROVE  /\ lag <= BundleSpent' /\ lag <= BundleSpent' + BundleInterval
             /\ lag + bundleIn' <= BundleSpent' + BundleInterval
    BY <1>2, <1>3, BundleNumbers
<1> QED
    BY <1>1, <1>3 DEF BundleBound

(* The refresh itself.                                                     *)
LEMMA RefreshStep ==
    ASSUME TypeOK, TypeOK', ChannelBound, BundleBound,
           \/ FetchBundle \/ ClearBundle \/ FillBundle \/ FetchBundleFails \/ FillBundleFails
    PROVE  BundleBound'
<1> USE DEF bundle, timers, time, failures, Untroubled
<1>1. pc # "down" /\ pc' # "down" /\ lag' = lag /\ bundleSrv' = bundleSrv
    BY DEF FetchBundle, ClearBundle, FillBundle, FetchBundleFails, FillBundleFails,
           AfterBundle
<1>2. ~ Startable'
    BY <1>1 DEF Startable
<1>3. CASE FetchBundle
    <2>1. Free /\ bundleFile' = bundleFile /\ fetched' = bundleSrv
        BY <1>3, Spending DEF FetchBundle
    <2>2. CASE ~ Stale
        <3>1. ~ Stale' /\ ~ Writing'
            BY <1>1, <1>3, <2>1, <2>2 DEF Stale, FetchBundle, AfterBundle, Writing
        <3> QED
            BY <3>1 DEF BundleBound
    <2>3. CASE Stale
        <3>1. pc' = "bundleWrite"
            BY <1>3, <2>3 DEF Stale, FetchBundle
        <3>2. ~ Past' /\ ~ Between'
            BY <3>1 DEF Past, Between, Refreshing
        <3>3. ASSUME Tolerates(MTLSLife)' PROVE lag <= BundleSpent + BundleInterval
            BY <1>1, <2>1, <2>3, <3>3, BundleNumbers DEF BundleBound
        <3> QED
            BY <1>1, <1>2, <2>1, <3>2, <3>3 DEF BundleBound, Free
    <2> QED
        BY <2>2, <2>3
<1>4. CASE ClearBundle
    <2>1. Free /\ fetched' = fetched /\ pc' = "bundleFill" /\ Writing
        BY <1>4, Spending DEF ClearBundle, Writing
    <2>2. ~ Past' /\ ~ Between'
        BY <2>1 DEF Past, Between, Refreshing
    <2>3. ASSUME Tolerates(MTLSLife)'
          PROVE  /\ lag <= BundleSpent + BundleInterval
                 /\ fetched # bundleSrv => lag = 0
        BY <2>1, <2>3, BundleNumbers DEF BundleBound
    <2> QED
        BY <1>1, <1>2, <2>1, <2>2, <2>3 DEF BundleBound, Free
<1>5. CASE FillBundle
    <2>1. Free /\ bundleFile' = fetched /\ Writing /\ ~ Writing'
        BY <1>5, Spending DEF FillBundle, Writing, AfterBundle
    <2>2. ASSUME Tolerates(MTLSLife)', Stale' PROVE lag = 0
        BY <1>1, <2>1, <2>2, BundleNumbers DEF BundleBound, Stale
    <2>3. ASSUME Tolerates(MTLSLife)', Stale'
          PROVE  /\ lag <= BundleSpent' /\ lag <= BundleSpent' + BundleInterval
                 /\ lag + bundleIn' <= BundleSpent' + BundleInterval
        BY <2>1, <2>2, <2>3, BundleNumbers
    <2> QED
        BY <1>1, <2>1, <2>3 DEF BundleBound
<1>6. CASE FetchBundleFails \/ FillBundleFails
    <2>1. (Fault /\ outage' = outage) \/ (~ ChannelOpen /\ Untroubled)
        BY <1>6 DEF FetchBundleFails, FillBundleFails, CallFails
    <2>2. Free \/ Paid
        BY <2>1, Spending
    <2>3. Tolerates(MTLSLife)' => ChannelOpen
        BY <1>1, <2>2, TolerateLess, OpenWithin
    <2>4. Tolerates(MTLSLife)' => Paid
        BY <2>1, <2>3, Spending
    <2>5. ~ Writing'
        BY <1>6 DEF FetchBundleFails, FillBundleFails, AfterBundle, Writing
    <2>6. bundleFile' = bundleFile
        BY <1>6 DEF FetchBundleFails, FillBundleFails
    <2> QED
        BY <1>1, <2>2, <2>4, <2>5, <2>6, RefreshBroken
<1> QED
    BY <1>3, <1>4, <1>5, <1>6

(* Time brings the next refresh nearer as the lag grows.                   *)
LEMMA BundleTime ==
    ASSUME TypeOK, TypeOK', PairPlaces, BundleBound, Tick PROVE BundleBound'
<1>1. /\ pc' = pc /\ starting' = starting /\ keyFile' = keyFile /\ certFile' = certFile
      /\ bundleFile' = bundleFile /\ bundleSrv' = bundleSrv
    BY DEF Tick, mtls, bundle
<1>2. /\ lag \in Nat /\ lag' \in Nat /\ lag' <= lag + 1 /\ BundleSpent \in Nat
      /\ BundleInterval \in Nat /\ bundleIn \in 0..BundleInterval
    BY Numbers, MaintenanceAssumption DEF Tick, TypeOK
<1>3. ~ Writing' /\ (Stale' <=> Stale)
    BY <1>1 DEF Tick, Writing, Stale
<1>4. CASE pc = "down"
    <2>1. ASSUME Tolerates(MTLSLife)', Stale, Startable' PROVE lag' <= BundleSpent'
        <3>1. Waited
            BY <1>4, <2>1, TickSpending, TolerateLess
        <3>2. Tolerates(MTLSLife) /\ Startable
            BY <1>1, <2>1, <3>1, TolerateLess DEF Startable
        <3>3. lag <= BundleSpent
            BY <2>1, <3>2 DEF BundleBound
        <3> QED
            BY <1>2, <3>1, <3>3 DEF Waited
    <2> QED
        BY <1>1, <1>3, <1>4, <2>1 DEF BundleBound, Past, Between
<1>5. CASE pc = "idle"
    <2>1. bundleIn > 0 /\ bundleIn' = bundleIn - 1 /\ ~ Startable'
        BY <1>1, <1>5 DEF Tick, Startable
    <2>2. ~ Past' /\ Between
        BY <1>1, <1>5 DEF Past, Between, Refreshing, PairPlaces
    <2>3. ASSUME Tolerates(MTLSLife)', Stale
          PROVE  /\ lag' + bundleIn' <= BundleSpent' + BundleInterval
                 /\ lag' <= BundleSpent' + BundleInterval
        <3>1. ~ AllInOrder
            BY <2>3 DEF AllInOrder, Stale
        <3>2. Free
            BY <1>5, <3>1, TickSpending
        <3>3. lag + bundleIn <= BundleSpent + BundleInterval
            BY <2>2, <2>3, <3>2, TolerateLess DEF BundleBound
        <3>4. BundleSpent + BundleInterval \in Nat /\ bundleIn \in Nat
            BY <1>2
        <3>5. /\ lag' + (bundleIn - 1) <= BundleSpent + BundleInterval
              /\ lag' <= BundleSpent + BundleInterval
            BY ONLY <1>2, <2>1, <3>3, <3>4, Nearer
        <3> QED
            BY <2>1, <3>2, <3>5 DEF Free
    <2> QED
        BY <1>3, <2>1, <2>2, <2>3 DEF BundleBound
<1> QED
    BY <1>4, <1>5 DEF Tick

(* Every step keeps the bound on the bundle's lag.                         *)
LEMMA BundleStep ==
    ASSUME TypeOK, TypeOK', PairPlaces, ChannelBound, BundleBound, Next PROVE BundleBound'
<1> USE DEF bundle, timers, time, failures, Untroubled
<1>1. CASE Tick
    BY <1>1, BundleTime
<1>2. CASE Start
    <2>1. /\ Startable /\ pc' = "bundle" /\ lag' = lag /\ Untroubled
          /\ bundleFile' = bundleFile /\ bundleSrv' = bundleSrv
        BY <1>2 DEF Start, Startable
    <2>2. /\ Free /\ ~ Startable' /\ ~ Past' /\ ~ Between' /\ ~ Writing'
          /\ (Stale' <=> Stale)
        BY <2>1, Spending DEF Startable, Past, Between, Refreshing, Writing, Stale
    <2>3. ASSUME Tolerates(MTLSLife)', Stale PROVE lag <= BundleSpent
        BY <2>1, <2>2, <2>3, BundleNumbers DEF BundleBound
    <2>4. ASSUME Tolerates(MTLSLife)', Stale PROVE lag' <= BundleSpent' + BundleInterval
        BY <2>1, <2>2, <2>3, <2>4, BundleNumbers DEF Free
    <2> QED
        BY <2>2, <2>4 DEF BundleBound
<1>3. CASE Crash
    <2>1. /\ pc # "down" /\ pc' = "down" /\ Fault /\ outage' = outage /\ lag' = lag
          /\ bundleFile' = bundleFile /\ bundleSrv' = bundleSrv
        BY <1>3 DEF Crash
    <2>2. Paid /\ ~ Past' /\ ~ Between' /\ ~ Writing' /\ (Stale' <=> Stale)
        BY <2>1, Spending DEF Past, Between, Writing, Stale
    <2>3. ASSUME Tolerates(MTLSLife)', Stale PROVE lag <= BundleSpent + BundleInterval
        BY <2>1, <2>2, <2>3, BundleNumbers DEF BundleBound
    <2>4. ASSUME Tolerates(MTLSLife)', Stale PROVE lag' <= BundleSpent'
        BY <2>1, <2>2, <2>3, <2>4 DEF Paid
    <2> QED
        BY <2>1, <2>2, <2>4 DEF BundleBound
<1>4. CASE BundleTick
    <2>1. /\ pc = "idle" /\ pc' = "bundle" /\ lag' = lag /\ Untroubled
          /\ bundleFile' = bundleFile /\ bundleSrv' = bundleSrv
        BY <1>4 DEF BundleTick
    <2>2. Free /\ ~ Past' /\ ~ Between' /\ ~ Writing' /\ (Stale' <=> Stale)
        BY <2>1, Spending DEF Past, Between, Refreshing, Writing, Stale
    <2> QED
        BY <2>1, <2>2, BundleSame
<1>5. CASE \/ FetchBundle \/ ClearBundle \/ FillBundle \/ FetchBundleFails \/ FillBundleFails
    BY <1>5, RefreshStep
<1>6. CASE \/ RenewTick \/ Renew \/ ClearHostCert \/ FillHostCert \/ Reload
           \/ RenewFails \/ FillHostCertFails \/ ReloadFails
           \/ (\E p \in Pairs : RenewMTLS(p)) \/ WriteKey \/ WriteCert
    <2>1. /\ pc \in {"idle", "renew", "hostClear", "hostFill", "reload", "rotate", "key",
                     "cert"}
          /\ pc' \in {"renew", "hostClear", "hostFill", "reload", "rotate", "key", "cert",
                      "swap"}
          /\ starting' = starting /\ lag' = lag /\ bundleIn' = bundleIn
          /\ bundleFile' = bundleFile /\ bundleSrv' = bundleSrv
        BY <1>6 DEF RenewTick, Renew, ClearHostCert, FillHostCert, Reload, RenewFails,
           FillHostCertFails, ReloadFails, RenewMTLS, WriteKey, WriteCert
    <2>2. Free \/ Paid
        BY <1>6, Spending DEF RenewTick, Renew, ClearHostCert, FillHostCert, Reload,
           RenewFails, FillHostCertFails, ReloadFails, RenewMTLS, WriteKey, WriteCert,
           CallFails
    <2>3. pc # "down" /\ pc' # "down" /\ ~ Refreshing /\ ~ Refreshing' /\ ~ Writing'
        BY <2>1 DEF Refreshing, Writing
    <2>4. (Past' <=> Past) /\ (Between' <=> Between) /\ (Stale' <=> Stale)
        BY <2>1, <2>3 DEF Past, Between, Stale
    <2> QED
        BY <2>1, <2>2, <2>3, <2>4, BundleSame
<1>7. CASE RotateSkipped \/ RenewMTLSFails \/ WriteFails \/ SetClientCert
    <2>1. /\ pc \in {"rotate", "key", "cert", "swap"} /\ EndRound /\ lag' = lag
          /\ bundleFile' = bundleFile /\ bundleSrv' = bundleSrv
        BY <1>7 DEF RotateSkipped, RenewMTLSFails, WriteFails, SetClientCert
    <2>2. Free \/ Paid
        BY <1>7, Spending DEF RotateSkipped, RenewMTLSFails, WriteFails, SetClientCert,
                     CallFails
    <2>3. Past \/ Between
        BY <2>1 DEF Past, Between, Refreshing
    <2> QED
        BY <2>1, <2>2, <2>3, BundleRound
<1>8. CASE BundleChanges
    <2>1. lag' = 0 /\ bundleIn' = bundleIn /\ Untroubled
        BY <1>8 DEF BundleChanges
    <2>2. Free
        BY <2>1, Spending
    <2>3. /\ lag' <= BundleSpent' /\ lag' <= BundleSpent' + BundleInterval
          /\ lag' + bundleIn' <= BundleSpent' + BundleInterval
        BY <2>1, <2>2, BundleNumbers
    <2> QED
        BY <2>1, <2>3 DEF BundleBound
<1> QED
    BY <1>1, <1>2, <1>3, <1>4, <1>5, <1>6, <1>7, <1>8 DEF Next, LoopStep, Failure

-----------------------------------------------------------------------------
(* After enrollment nothing is due.                                        *)
LEMMA InitTimeInv == Init => TimeInv
<1> SUFFICES ASSUME Init PROVE TimeInv
    OBVIOUS
<1>1. TypeOK
    BY InitTypeOK
<1>2. /\ pc = "down" /\ age = [p \in Pairs |-> 0] /\ certFile \in Pairs
      /\ served = 0 /\ hostAge = 0 /\ bundleFile = bundleSrv
    BY <1>1 DEF Init, TypeOK
<1>3. ~ Waiting /\ ~ HostChecked /\ ~ Writing /\ ~ Stale
    BY <1>2 DEF Waiting, Refreshing, HostChecked, Writing, Stale
<1>4. PairPlaces
    BY <1>2 DEF PairPlaces
<1>5. age[certFile] <= MTLSDue + RenewSpent
    BY <1>1, <1>2, Numbers
<1>6. served <= HostDue + RenewSpent
    BY <1>1, <1>2, Numbers
<1>7. ChannelBound
    BY <1>2, <1>3, <1>5 DEF ChannelBound
<1>8. ServedBound
    BY <1>2, <1>3, <1>6 DEF ServedBound
<1>9. ServedIsFile /\ BundleBound
    BY <1>2, <1>3 DEF ServedIsFile, BundleBound
<1> QED
    BY <1>1, <1>4, <1>7, <1>8, <1>9 DEF TimeInv

(* Every step keeps the bounds.                                            *)
LEMMA NextTimeInv == TimeInv /\ [Next]_vars => TimeInv'
<1> SUFFICES ASSUME TimeInv, [Next]_vars PROVE TimeInv'
    OBVIOUS
<1>1. TypeOK' /\ PairPlaces'
    BY TypeStep, PlacesStep DEF TimeInv
<1>2. CASE Next
    BY <1>1, <1>2, ChannelStep, FileStep, ServedStep, BundleStep DEF TimeInv
<1>3. CASE UNCHANGED vars
    <2>1. /\ pc' = pc /\ starting' = starting /\ renewIn' = renewIn /\ bundleIn' = bundleIn
          /\ keyFile' = keyFile /\ certFile' = certFile /\ loaded' = loaded /\ age' = age
          /\ hostAge' = hostAge /\ served' = served /\ missed' = missed
          /\ bundleSrv' = bundleSrv /\ bundleFile' = bundleFile /\ fetched' = fetched
          /\ lag' = lag /\ strikes' = strikes /\ outage' = outage
        BY <1>3 DEF vars, failures, timers, mtls, host, bundle, time
    <2>2. ChannelBound'
        BY <2>1 DEF TimeInv, ChannelBound, Waiting, Refreshing, Startable, Tolerates,
                    RenewSpent, MTLSDue
    <2>3. ServedIsFile' /\ ServedBound'
        BY <2>1 DEF TimeInv, ServedIsFile, ServedBound, HostClaim, HostChecked, Waiting,
                    Refreshing, Startable, Tolerates, RenewSpent, HostDue
    <2>4. BundleBound'
        BY <2>1 DEF TimeInv, BundleBound, Writing, Stale, Past, Between, Refreshing,
                    Startable, Tolerates, BundleSpent
    <2> QED
        BY <1>1, <2>2, <2>3, <2>4 DEF TimeInv
<1> QED
    BY <1>2, <1>3

(* The bounds hold throughout.                                             *)
THEOREM TimeInvHolds == Spec => []TimeInv
<1>1. Init => TimeInv
    BY InitTimeInv
<1>2. TimeInv /\ [Next]_vars => TimeInv'
    BY NextTimeInv
<1> QED
    BY <1>1, <1>2, PTL DEF Spec

(* Type correctness of the maintenance loop.                               *)
THEOREM MaintenanceTypeCorrect == Spec => []TypeOK
<1>1. TimeInv => TypeOK
    BY DEF TimeInv
<1> QED
    BY <1>1, TimeInvHolds, PTL

(* The agent does not lock itself out: rotateMTLSIfNeeded replaces the     *)
(* client certificate in time as long as the failures and the downtime     *)
(* since all was last in order fit into its last third.                    *)
THEOREM ChannelStaysOpen == Spec => []ChannelSurvives
<1>1. TimeInv => ChannelSurvives
    BY OpenWithin DEF TimeInv, ChannelSurvives
<1> QED
    BY <1>1, TimeInvHolds, PTL

(* sshd presents a valid host certificate: renewIfNeeded replaces it in    *)
(* time, a torn file included, under the same budget and unless the reload *)
(* after the last renewal was missed.                                      *)
THEOREM ServedStaysValid == Spec => []ServedCertValid
<1>1. TimeInv => ServedCertValid
    <2> SUFFICES ASSUME TimeInv, pc # "down", ~ missed, Tolerates(MTLSLife),
                        Tolerates(HostLife)
                 PROVE  served <= HostLife
        BY DEF ServedCertValid
    <2>1. served <= HostDue + RenewSpent + RenewInterval
        BY DEF TimeInv, ServedBound, HostClaim
    <2>2. served \in Nat /\ TypeOK
        BY MaintenanceAssumption DEF TimeInv, TypeOK
    <2> QED
        BY <2>1, <2>2, Numbers
<1> QED
    BY <1>1, TimeInvHolds, PTL

(* refreshBundle brings a changed CA bundle to the host within the         *)
(* interval, one more interval for each failure, and the downtime.         *)
THEOREM BundleArrivesInTime == Spec => []BundleArrives
<1>1. TimeInv => BundleArrives
    <2> SUFFICES ASSUME TimeInv, pc # "down", Tolerates(MTLSLife),
                        lag > (strikes + 1) * BundleInterval + outage, Stale
                 PROVE  FALSE
        BY DEF BundleArrives, Stale
    <2>1. lag <= BundleSpent + BundleInterval
        BY DEF TimeInv, BundleBound
    <2>2. /\ strikes \in Nat /\ outage \in Nat /\ BundleInterval \in Nat /\ lag \in Nat
        BY MaintenanceAssumption DEF TimeInv, TypeOK
    <2>3. /\ strikes * BundleInterval \in Nat
          /\ (strikes + 1) * BundleInterval = strikes * BundleInterval + BundleInterval
        BY <2>2, Products
    <2> QED
        BY <2>1, <2>2, <2>3 DEF BundleSpent
<1> QED
    BY <1>1, TimeInvHolds, PTL
=============================================================================
