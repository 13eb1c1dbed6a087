--------------------------- MODULE SelfManagedCA ---------------------------
(***************************************************************************)
(* The CA keys of a self-managed deployment: every replica loads the       *)
(* mounted key files when it starts (internal/ca/keyfiles.go), registers   *)
(* them in ca_keys (AdoptExternalKeys over AdoptCAKey) and signs with them *)
(* until it stops.  Keys are rotated by mounting other files.              *)
(*                                                                         *)
(* One purpose is followed; the three are adopted one after the other in   *)
(* transactions of their own.  A version stands for the key and, for the   *)
(* mTLS CA, its certificate; the two files are read one after the other.   *)
(* Transactions run READ COMMITTED: an INSERT waits for another one of the *)
(* same key, an UPDATE sees the rows committed when it began.              *)
(***************************************************************************)
EXTENDS Integers, FiniteSets

CONSTANTS KeyServers,    \* replicas
          Versions,      \* key files that exist
          MaxMounts,     \* bound on the changes of the secret
          MaxKeyFaults   \* bound on retirements and on starts that break off

ASSUME SelfManagedAssumption == {MaxMounts, MaxKeyFaults} \subseteq Nat

VARIABLES secret,     \* the version in the secret
          mounted,    \* the version each replica has mounted
          keyRow,     \* by version: the state of its row in ca_keys
          server,     \* the replicas
          audits,     \* EventKeyAdopted, by version
          mounts, keyFaults,  \* counters for the bounds
          demoted,    \* history: versions that were ever replaced
          unaudited   \* history: adoptions whose replica died before the event

keyVars == <<secret, mounted, keyRow, server, audits, mounts, keyFaults,
             demoted, unaudited>>

Stopped == [pc |-> "down", key |-> 0, demotes |-> {}, excused |-> FALSE]

SelfManagedInit ==
    /\ secret \in Versions
    /\ mounted = [r \in KeyServers |-> secret]
    /\ keyRow = [v \in Versions |-> "none"]
    /\ server = [r \in KeyServers |-> Stopped]
    /\ audits = [v \in Versions |-> 0]
    /\ mounts = 0 /\ keyFaults = 0
    /\ demoted = {} /\ unaudited = {}

KeyFault == keyFaults < MaxKeyFaults /\ keyFaults' = keyFaults + 1

(* A version is committed to the secret, also one that was used before.    *)
ChangeSecret(v) ==
    /\ mounts < MaxMounts /\ v # secret
    /\ mounts' = mounts + 1
    /\ secret' = v
    /\ UNCHANGED <<mounted, keyRow, server, audits, keyFaults, demoted, unaudited>>

SyncMount(r) ==
    /\ mounted[r] # secret
    /\ mounted' = [mounted EXCEPT ![r] = secret]
    /\ UNCHANGED <<secret, keyRow, server, audits, mounts, keyFaults, demoted, unaudited>>

-----------------------------------------------------------------------------
(* setup: the private key is read,                                         *)
LoadKeyFile(r) ==
    /\ server[r].pc = "down"
    /\ server' = [server EXCEPT ![r] = [@ EXCEPT !.pc = "loading", !.key = mounted[r]]]
    /\ UNCHANGED <<secret, mounted, keyRow, audits, mounts, keyFaults, demoted, unaudited>>

(* then the certificate, which must belong to it: files changed in between *)
(* end the start.                                                          *)
LoadCertFile(r) ==
    /\ server[r].pc = "loading"
    /\ server' = [server EXCEPT ![r] =
                    IF mounted[r] = @.key THEN [@ EXCEPT !.pc = "loaded"] ELSE Stopped]
    /\ UNCHANGED <<secret, mounted, keyRow, audits, mounts, keyFaults, demoted, unaudited>>

(* Versions a replica has inserted and not committed.                      *)
Inserting(v) == {r \in KeyServers : server[r].key = v /\
                   server[r].pc \in {"inserted", "demoting", "locked"}}

(* Rows a transaction has demoted and not committed.                       *)
LockedRows == UNION {server[r].demotes : r \in {x \in KeyServers : server[x].pc = "locked"}}

(* A mutant: a key that was retired is adopted again.                      *)
NeverRefused(s) == FALSE

(* ErrCAKeyRetired.                                                        *)
KeyRefused(s) == s = "retired"

(* AdoptCAKey: a row that exists is taken as it is, unless it was retired. *)
AdoptInsert(r) ==
    LET v == server[r].key
    IN /\ server[r].pc = "loaded"
       /\ Inserting(v) = {}
       /\ server' = [server EXCEPT ![r] =
                       IF keyRow[v] = "none" THEN [@ EXCEPT !.pc = "inserted"]
                       ELSE IF KeyRefused(keyRow[v]) THEN Stopped
                       ELSE [@ EXCEPT !.pc = "serving"]]
       /\ UNCHANGED <<secret, mounted, keyRow, audits, mounts, keyFaults, demoted, unaudited>>

(* The UPDATE that demotes the keys before: the rows it finds,             *)
DemoteBegin(r) ==
    /\ server[r].pc = "inserted"
    /\ server' = [server EXCEPT ![r] =
                    [@ EXCEPT !.pc = "demoting",
                       !.demotes = {v \in Versions : keyRow[v] = "active"}]]
    /\ UNCHANGED <<secret, mounted, keyRow, audits, mounts, keyFaults, demoted, unaudited>>

(* of which those still active are changed once nobody else holds them.    *)
DemoteRows(r) ==
    /\ server[r].pc = "demoting"
    /\ server[r].demotes \cap LockedRows = {}
    /\ server' = [server EXCEPT ![r] =
                    [@ EXCEPT !.pc = "locked",
                       !.demotes = {v \in server[r].demotes : keyRow[v] = "active"}]]
    /\ UNCHANGED <<secret, mounted, keyRow, audits, mounts, keyFaults, demoted, unaudited>>

AdoptCommit(r) ==
    /\ server[r].pc = "locked"
    /\ keyRow' = [v \in Versions |-> IF v = server[r].key THEN "active"
                                     ELSE IF v \in server[r].demotes THEN "retiring"
                                     ELSE keyRow[v]]
    /\ demoted' = demoted \cup server[r].demotes
    /\ server' = [server EXCEPT ![r] = [@ EXCEPT !.pc = "auditing", !.demotes = {}]]
    /\ UNCHANGED <<secret, mounted, audits, mounts, keyFaults, unaudited>>

(* The first adoption is audited; then the signer is in use.               *)
AuditAdoption(r) ==
    /\ server[r].pc = "auditing"
    /\ audits' = [audits EXCEPT ![server[r].key] = @ + 1]
    /\ server' = [server EXCEPT ![r].pc = "serving"]
    /\ UNCHANGED <<secret, mounted, keyRow, mounts, keyFaults, demoted, unaudited>>

(* A deployment restarts a replica that serves.                            *)
Redeploy(r) ==
    /\ server[r].pc = "serving"
    /\ server' = [server EXCEPT ![r] = Stopped]
    /\ UNCHANGED <<secret, mounted, keyRow, audits, mounts, keyFaults, demoted, unaudited>>

(* A start breaks off; the database rolls an open transaction back.        *)
StartBreaks(r) ==
    /\ server[r].pc \notin {"down", "serving"} /\ KeyFault
    /\ server' = [server EXCEPT ![r] = Stopped]
    /\ unaudited' = IF server[r].pc = "auditing" THEN unaudited \cup {server[r].key}
                                                  ELSE unaudited
    /\ UNCHANGED <<secret, mounted, keyRow, audits, mounts, demoted>>

(* An operator retires a key, replaced or not.                             *)
RetireRow(v) ==
    /\ keyRow[v] \in {"active", "retiring"} /\ v \notin LockedRows
    /\ KeyFault
    /\ keyRow' = [keyRow EXCEPT ![v] = "retired"]
    /\ server' = [r \in KeyServers |->
                    IF server[r].key = v /\ server[r].pc \in {"auditing", "serving"}
                    THEN [server[r] EXCEPT !.excused = TRUE] ELSE server[r]]
    /\ UNCHANGED <<secret, mounted, audits, mounts, demoted, unaudited>>

SelfManagedNext ==
    \/ \E v \in Versions : ChangeSecret(v) \/ RetireRow(v)
    \/ \E r \in KeyServers :
         \/ SyncMount(r) \/ LoadKeyFile(r) \/ LoadCertFile(r)
         \/ AdoptInsert(r) \/ DemoteBegin(r) \/ DemoteRows(r) \/ AdoptCommit(r)
         \/ AuditAdoption(r) \/ Redeploy(r) \/ StartBreaks(r)

SelfManagedSpec == SelfManagedInit /\ [][SelfManagedNext]_keyVars

-----------------------------------------------------------------------------
(* While replicas with different files start, restart and die in any       *)
(* order: every key that signs is in the bundle the hosts get, unless it   *)
(* was retired under a running replica; a key that was replaced is not     *)
(* active again, also when its file is mounted again; and an adoption is   *)
(* audited once, unless its replica died just before.                      *)
AdoptionSound ==
    /\ \A r \in KeyServers : server[r].pc = "serving" /\ ~server[r].excused
          => keyRow[server[r].key] \in {"active", "retiring"}
    /\ \A v \in demoted : keyRow[v] # "active"
    /\ \A v \in Versions : keyRow[v] # "none" =>
          audits[v] + Cardinality({r \in KeyServers : server[r].pc = "auditing" /\
                                                      server[r].key = v})
            = IF v \in unaudited THEN 0 ELSE 1
=============================================================================
