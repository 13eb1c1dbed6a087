-------------------------- MODULE AgentMaintenance --------------------------
(***************************************************************************)
(* The maintenance loop of gssh-agentd (internal/agentd/daemon.go): the    *)
(* host certificate, the CA bundle and the mTLS key pair that a host keeps *)
(* on disk, and the processes that use them.                               *)
(*                                                                         *)
(* The loop is one goroutine; every call and every file operation is a     *)
(* step, and the process may die between any two and stay down for any     *)
(* time.  Network calls are short against the intervals, so time passes    *)
(* only while the loop waits or no process runs.                           *)
(* Certificates are known by their age; an age stops counting once it is   *)
(* past the lifetime.                                                      *)
(***************************************************************************)
EXTENDS Integers

CONSTANTS MTLSLife,        \* lifetime of an mTLS certificate
          HostLife,        \* lifetime of a host certificate
          RenewInterval,   \* renew_interval
          BundleInterval,  \* bundle_interval
          MaxLag,          \* bound: how far the bundle's lag is counted
          MaxChanges,      \* bound: changes of the CA bundle at the server
          MaxFaults        \* bound: failed calls, failed writes, crashes

ASSUME MaintenanceAssumption == /\ MTLSLife \in Nat
                                /\ HostLife \in Nat
                                /\ RenewInterval \in Nat \ {0}
                                /\ BundleInterval \in Nat \ {0}
                                /\ MaxLag \in Nat
                                /\ MaxChanges \in Nat
                                /\ MaxFaults \in Nat

VARIABLES pc,         \* where the loop stands; "down" when no process runs
          starting,   \* the initial maintenance is under way
          renewIn, bundleIn,  \* time until the tickers fire
          keyFile, certFile,  \* the pair each mTLS file belongs to
          loaded,     \* the pair of the API client
          new,        \* the pair a rotation has just obtained
          age,        \* age of each pair's certificate
          hostAge,    \* age of the host certificate file; past HostLife
                      \* when the file is absent or torn
          served,     \* age of the host certificate sshd presents
          missed,     \* history: a new certificate did not reach sshd
          bundleSrv,  \* the bundle at the server
          bundleFile, \* the TrustedUserCAKeys file
          fetched,    \* the bundle just fetched
          lag,        \* time since the server's bundle changed last
          faults,
          strikes,    \* history: the faults since all was last in order
          outage      \* history: the time spent down since then

mtls == <<keyFile, certFile, loaded, new>>
host == <<hostAge, served, missed>>
bundle == <<bundleSrv, bundleFile, fetched>>
timers == <<renewIn, bundleIn>>
time == <<age, lag, outage>>
failures == <<faults, strikes>>

vars == <<pc, starting, timers, mtls, host, bundle, time, failures>>

Pairs == 0..3
Versions == 0..MaxChanges
Torn == MaxChanges + 1
HostExpired == HostLife + 1

(* After enrollment: all files written, sshd reloaded, no daemon yet.      *)
Init == /\ pc = "down"
        /\ starting = FALSE
        /\ renewIn = 0 /\ bundleIn = 0
        /\ keyFile = 0 /\ certFile = 0 /\ loaded = 0 /\ new = 0
        /\ age = [p \in Pairs |-> 0]
        /\ hostAge = 0 /\ served = 0 /\ missed = FALSE
        /\ bundleSrv = 0 /\ bundleFile = 0 /\ fetched = 0
        /\ lag = 0
        /\ faults = 0 /\ strikes = 0 /\ outage = 0

-----------------------------------------------------------------------------
Fault == /\ faults < MaxFaults
         /\ faults' = faults + 1
         /\ strikes' = strikes + 1

(* The server accepts the client certificate the daemon has loaded.        *)
ChannelOpen == age[loaded] <= MTLSLife

CallFails == Fault \/ (~ ChannelOpen /\ UNCHANGED failures)

(* NewDaemon, newAPIClient: the process starts only with a matching pair.  *)
Start ==
    /\ pc = "down"
    /\ keyFile = certFile
    /\ loaded' = certFile
    /\ pc' = "bundle"
    /\ starting' = TRUE
    /\ UNCHANGED <<timers, keyFile, certFile, new, host, bundle, time, failures>>

Crash ==
    /\ pc # "down"
    /\ Fault
    /\ pc' = "down"
    /\ missed' = (missed \/ pc = "reload")
    /\ UNCHANGED <<starting, timers, mtls, hostAge, served, bundle, time>>

(* Run: a ticker fires.                                                    *)
RenewTick ==
    /\ pc = "idle"
    /\ renewIn = 0
    /\ pc' = "renew"
    /\ renewIn' = RenewInterval
    /\ UNCHANGED <<starting, bundleIn, mtls, host, bundle, time, failures>>

BundleTick ==
    /\ pc = "idle"
    /\ bundleIn = 0
    /\ pc' = "bundle"
    /\ bundleIn' = BundleInterval
    /\ UNCHANGED <<starting, renewIn, mtls, host, bundle, time, failures>>

(* Nothing is due and the bundle is the server's.                          *)
AllInOrder == /\ age[loaded] <= (2 * MTLSLife) \div 3
              /\ served <= (2 * HostLife) \div 3
              /\ bundleFile = bundleSrv

Older(a, life) == IF a > life THEN a ELSE a + 1

(* Time passes while the loop waits, and while no process runs.  The       *)
(* account of faults and downtime is closed whenever the loop waits and    *)
(* all is in order.                                                        *)
Tick ==
    /\ \/ /\ pc = "idle" /\ renewIn > 0 /\ bundleIn > 0
          /\ renewIn' = renewIn - 1 /\ bundleIn' = bundleIn - 1
          /\ strikes' = IF AllInOrder THEN 0 ELSE strikes
          /\ outage' = IF AllInOrder THEN 0 ELSE outage
       \/ /\ pc = "down"
          /\ outage' = Older(outage, MTLSLife)
          /\ UNCHANGED <<timers, strikes>>
    /\ age' = [p \in Pairs |-> IF p \in {certFile, loaded}
                               THEN Older(age[p], MTLSLife) ELSE 0]
    /\ hostAge' = Older(hostAge, HostLife)
    /\ served' = Older(served, HostLife)
    /\ lag' = IF lag < MaxLag THEN lag + 1 ELSE lag
    /\ UNCHANGED <<pc, starting, mtls, missed, bundle, faults>>

-----------------------------------------------------------------------------
(* The server: a CA key is rotated or retired.                             *)
BundleChanges ==
    /\ bundleSrv < MaxChanges
    /\ bundleSrv' = bundleSrv + 1
    /\ lag' = 0
    /\ UNCHANGED <<pc, starting, timers, mtls, host, bundleFile, fetched, age, outage, failures>>

AfterBundle == IF starting THEN "renew" ELSE "idle"

(* refreshBundle: the bundle is fetched and compared with the file ...     *)
FetchBundle ==
    /\ pc = "bundle"
    /\ ChannelOpen
    /\ fetched' = bundleSrv
    /\ pc' = IF bundleSrv = bundleFile THEN AfterBundle ELSE "bundleWrite"
    /\ UNCHANGED <<starting, timers, mtls, host, bundleSrv, bundleFile, time, failures>>

FetchBundleFails ==
    /\ pc = "bundle"
    /\ CallFails
    /\ pc' = AfterBundle
    /\ UNCHANGED <<starting, timers, mtls, host, bundle, time>>

(* ... which os.WriteFile first empties ...                                *)
ClearBundle ==
    /\ pc = "bundleWrite"
    /\ bundleFile' = Torn
    /\ pc' = "bundleFill"
    /\ UNCHANGED <<starting, timers, mtls, host, bundleSrv, fetched, time, failures>>

(* A mutant: the comparison's other side is written back.                  *)
FillBundleStale ==
    /\ pc = "bundleFill"
    /\ bundleFile' = 0
    /\ pc' = AfterBundle
    /\ UNCHANGED <<starting, timers, mtls, host, bundleSrv, fetched, time, failures>>

(* ... and then fills.                                                     *)
FillBundle ==
    /\ pc = "bundleFill"
    /\ bundleFile' = fetched
    /\ pc' = AfterBundle
    /\ UNCHANGED <<starting, timers, mtls, host, bundleSrv, fetched, time, failures>>

FillBundleFails ==
    /\ pc = "bundleFill"
    /\ Fault
    /\ pc' = AfterBundle
    /\ UNCHANGED <<starting, timers, mtls, host, bundle, time>>

-----------------------------------------------------------------------------
(* A mutant: the certificate is renewed once it has expired.               *)
RenewalWhenExpired == hostAge > HostLife

(* needsRenewal: more than 2/3 of the validity is over, or no certificate. *)
NeedsRenewal == hostAge > (2 * HostLife) \div 3

(* renewIfNeeded: the API call ...                                         *)
Renew ==
    /\ pc = "renew"
    /\ IF NeedsRenewal THEN ChannelOpen /\ pc' = "hostClear" ELSE pc' = "rotate"
    /\ UNCHANGED <<starting, timers, mtls, host, bundle, time, failures>>

RenewFails ==
    /\ pc = "renew"
    /\ NeedsRenewal
    /\ CallFails
    /\ pc' = "rotate"
    /\ UNCHANGED <<starting, timers, mtls, host, bundle, time>>

(* ... os.WriteFile, which empties the file and then fills it ...          *)
ClearHostCert ==
    /\ pc = "hostClear"
    /\ hostAge' = HostExpired
    /\ pc' = "hostFill"
    /\ UNCHANGED <<starting, timers, mtls, served, missed, bundle, time, failures>>

FillHostCert ==
    /\ pc = "hostFill"
    /\ hostAge' = 0
    /\ pc' = "reload"
    /\ UNCHANGED <<starting, timers, mtls, served, missed, bundle, time, failures>>

FillHostCertFails ==
    /\ pc = "hostFill"
    /\ Fault
    /\ pc' = "rotate"
    /\ UNCHANGED <<starting, timers, mtls, host, bundle, time>>

(* ... and runReloadCommand, whose failure is only logged.                 *)
Reload ==
    /\ pc = "reload"
    /\ served' = hostAge
    /\ missed' = FALSE
    /\ pc' = "rotate"
    /\ UNCHANGED <<starting, timers, mtls, hostAge, bundle, time, failures>>

ReloadFails ==
    /\ pc = "reload"
    /\ Fault
    /\ missed' = TRUE
    /\ pc' = "rotate"
    /\ UNCHANGED <<starting, timers, mtls, hostAge, served, bundle, time>>

-----------------------------------------------------------------------------
(* A mutant: the rotation waits for the last moment.                       *)
RotationWhenExpired == age[certFile] > MTLSLife

(* mtlsNeedsRotation, decided by the certificate file.                     *)
NeedsRotation == age[certFile] > (2 * MTLSLife) \div 3

(* The end of a round: the tickers of a new process start here.            *)
EndRound ==
    /\ pc' = "idle"
    /\ starting' = FALSE
    /\ IF starting THEN renewIn' = RenewInterval /\ bundleIn' = BundleInterval
       ELSE UNCHANGED timers

RotateSkipped ==
    /\ pc = "rotate"
    /\ ~ NeedsRotation
    /\ EndRound
    /\ UNCHANGED <<mtls, host, bundle, time, failures>>

(* rotateMTLSIfNeeded: a fresh key pair, its certificate over the old      *)
(* channel ...                                                             *)
RenewMTLS(p) ==
    /\ pc = "rotate"
    /\ NeedsRotation
    /\ ChannelOpen
    /\ p \notin {keyFile, certFile, loaded}
    /\ new' = p
    /\ age' = [age EXCEPT ![p] = 0]
    /\ pc' = "key"
    /\ UNCHANGED <<starting, timers, keyFile, certFile, loaded, host, bundle, lag, outage, failures>>

RenewMTLSFails ==
    /\ pc = "rotate"
    /\ NeedsRotation
    /\ CallFails
    /\ EndRound
    /\ UNCHANGED <<mtls, host, bundle, time>>

(* A mutant: the certificate is written first.                             *)
WriteCertFirst ==
    /\ pc = "key"
    /\ certFile' = new
    /\ pc' = "cert"
    /\ UNCHANGED <<starting, timers, keyFile, loaded, new, host, bundle, time, failures>>

(* ... writeFileAtomic for the key ...                                     *)
WriteKey ==
    /\ pc = "key"
    /\ keyFile' = new
    /\ pc' = "cert"
    /\ UNCHANGED <<starting, timers, certFile, loaded, new, host, bundle, time, failures>>

(* ... and for the certificate ...                                         *)
WriteCert ==
    /\ pc = "cert"
    /\ certFile' = new
    /\ pc' = "swap"
    /\ UNCHANGED <<starting, timers, keyFile, loaded, new, host, bundle, time, failures>>

WriteFails ==
    /\ pc \in {"key", "cert"}
    /\ Fault
    /\ EndRound
    /\ UNCHANGED <<mtls, host, bundle, time>>

(* ... and setClientCert.                                                  *)
SetClientCert ==
    /\ pc = "swap"
    /\ loaded' = new
    /\ EndRound
    /\ UNCHANGED <<keyFile, certFile, new, host, bundle, time, failures>>

-----------------------------------------------------------------------------
LoopStep == \/ Start \/ RenewTick \/ BundleTick
            \/ FetchBundle \/ ClearBundle \/ FillBundle
            \/ Renew \/ ClearHostCert \/ FillHostCert \/ Reload
            \/ RotateSkipped \/ \E p \in Pairs : RenewMTLS(p)
            \/ WriteKey \/ WriteCert \/ SetClientCert

Failure == \/ FetchBundleFails \/ FillBundleFails
           \/ RenewFails \/ FillHostCertFails \/ ReloadFails
           \/ RenewMTLSFails \/ WriteFails

Next == LoopStep \/ Failure \/ Crash \/ Tick \/ BundleChanges

Spec == Init /\ [][Next]_vars

(* The loop runs on, systemd restarts the service, and time passes.        *)
FairSpec == Spec /\ WF_vars(LoopStep \/ Failure) /\ WF_vars(Tick)

-----------------------------------------------------------------------------
(* The types of the variables.                                             *)
TypeOK ==
    /\ pc \in {"down", "idle", "bundle", "bundleWrite", "bundleFill", "renew",
               "hostClear", "hostFill", "reload", "rotate", "key", "cert", "swap"}
    /\ starting \in BOOLEAN /\ missed \in BOOLEAN
    /\ renewIn \in 0..RenewInterval /\ bundleIn \in 0..BundleInterval
    /\ keyFile \in Pairs /\ certFile \in Pairs /\ loaded \in Pairs /\ new \in Pairs
    /\ age \in [Pairs -> 0..(MTLSLife + 1)]
    /\ hostAge \in 0..HostExpired /\ served \in 0..HostExpired
    /\ bundleSrv \in Versions /\ fetched \in Versions
    /\ bundleFile \in Versions \cup {Torn}
    /\ lag \in 0..MaxLag
    /\ faults \in 0..MaxFaults /\ strikes \in 0..faults
    /\ outage \in 0..(MTLSLife + 1)

(* What went wrong since all was last in order, the failures and the time  *)
(* down, leaves one attempt in the last third of a certificate's life.     *)
Tolerates(life) ==
    (strikes + 1) * RenewInterval + outage <= life - (2 * life) \div 3

(* A running agent never locks itself out: the client certificate it holds *)
(* is valid, unless failures and downtime since it last was in order used  *)
(* up the last third of it.                                                *)
ChannelSurvives == pc # "down" /\ Tolerates(MTLSLife) => ChannelOpen

(* While key and certificate files do not match, a rotation is due: that   *)
(* is what lets the next check repair them, and it rests on the key being  *)
(* written before the certificate.                                         *)
HalfWrittenPairIsDue == keyFile # certFile => NeedsRotation

(* sshd presents a valid host certificate under the same budget, as long   *)
(* as the reload after the last renewal was not missed: a missed one is    *)
(* logged and not tried again before the next renewal.                     *)
ServedCertValid ==
    pc # "down" /\ ~ missed /\ Tolerates(MTLSLife) /\ Tolerates(HostLife) =>
        served <= HostLife

(* A change of the CA bundle reaches the host's file within the bundle     *)
(* interval; each failure costs at most one more, and downtime its length. *)
BundleArrives ==
    /\ pc # "down" /\ Tolerates(MTLSLife)
    /\ lag > (strikes + 1) * BundleInterval + outage
    => bundleFile = bundleSrv

(* Key and certificate written only half match again, or the process died, *)
(* or the API failed until the certificate was void.                       *)
HealsWhileUp ==
    keyFile # certFile ~> (keyFile = certFile \/ pc = "down" \/ ~ ChannelOpen)

(* daemon.go: "the tiny window of an inconsistent pair is healed by the    *)
(* next rotation run".                                                     *)
InconsistentPairHeals == keyFile # certFile ~> keyFile = certFile
=============================================================================
