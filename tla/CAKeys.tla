------------------------------- MODULE CAKeys -------------------------------
(***************************************************************************)
(* The CA keys of one purpose in managed mode (internal/ca/ca.go and       *)
(* internal/store/ca_keys.go): the table ca_keys shared by the server's    *)
(* replicas, the bootstrap of a starting replica, the lifecycle operations *)
(* Rotate and RetireKey, and the signer each replica caches.               *)
(*                                                                         *)
(* Every statement is a step of its own.  activeSigner holds ca.mu while   *)
(* it reads the table, and so does invalidateSigner.  Keys are numbered in *)
(* the order of their creation; 0 stands for no key.                       *)
(***************************************************************************)
EXTENDS Naturals, FiniteSets

CONSTANTS Replicas,
          MaxKeys,     \* bound: keys ever created
          MaxOps,      \* lifecycle operations running at the same time
          RetireFrom,  \* the states of the keys an operator retires
          MaxFaults    \* bound: failed statements and crashes

ASSUME CAKeysAssumption == /\ IsFiniteSet(Replicas)
                           /\ MaxKeys \in Nat \ {0}
                           /\ MaxOps \in Nat
                           /\ RetireFrom \subseteq {"active", "retiring", "retired"}
                           /\ MaxFaults \in Nat

VARIABLES state,    \* ca_keys.state of each key
          last,     \* the newest key
          boot,     \* where each replica's EnsureCAKeys stands
          op,       \* the lifecycle operation running on each replica
          signer,   \* ca.signers of each replica
          mu,       \* who holds ca.mu of each replica
          issue,    \* the Issue call running on each replica
          done,     \* history: per replica, the keys it rotated away from
                    \* and retired, by operations that returned no error
          settled,  \* history: keys retired while no rotation had listed them
          faults

vars == <<state, last, boot, op, signer, mu, issue, done, settled, faults>>

Keys == 1..MaxKeys

States == {"none", "active", "retiring", "retired"}

Ops == [pc : {"idle", "create", "audit", "demote", "retired"},
        previous : SUBSET Keys, target : 0..MaxKeys]

NoOp == [pc |-> "idle", previous |-> {}, target |-> 0]

NoIssue == [pc |-> "idle", key |-> 0]

Init == /\ state = [k \in Keys |-> "none"]
        /\ last = 0
        /\ boot = [r \in Replicas |-> "down"]
        /\ op = [r \in Replicas |-> NoOp]
        /\ signer = [r \in Replicas |-> 0]
        /\ mu = [r \in Replicas |-> "free"]
        /\ issue = [r \in Replicas |-> NoIssue]
        /\ done = [r \in Replicas |-> {}]
        /\ settled = {}
        /\ faults = 0

-----------------------------------------------------------------------------
(* ListActiveCAKeys: all keys that are not retired (the bundle's content). *)
ListActiveCAKeys == {k \in Keys : state[k] \in {"active", "retiring"}}

Newest(keys) == CHOOSE k \in keys : \A j \in keys : j <= k

ActiveKeys == {k \in Keys : state[k] = "active"}

(* A mutant: the new row's state is one no reader knows.                   *)
CreateUnusable == /\ last < MaxKeys
                  /\ last' = last + 1
                  /\ state' = [state EXCEPT ![last + 1] = "created"]

(* CreateCAKey: a fresh key pair, so the unique index never objects.       *)
CreateCAKey == /\ last < MaxKeys
               /\ last' = last + 1
               /\ state' = [state EXCEPT ![last + 1] = "active"]

(* A mutant: the lock is not taken.                                        *)
InvalidateUnlocked(r) == signer' = [signer EXCEPT ![r] = 0]

(* invalidateSigner waits for ca.mu, then drops the signer.                *)
InvalidateSigner(r) == /\ mu[r] = "free"
                       /\ signer' = [signer EXCEPT ![r] = 0]

-----------------------------------------------------------------------------
(* A starting replica: EnsureCAKeys lists the keys ...                     *)
BootList(r) ==
    /\ boot[r] = "down"
    /\ boot' = [boot EXCEPT ![r] = IF ListActiveCAKeys = {} THEN "create" ELSE "up"]
    /\ UNCHANGED <<state, last, op, signer, mu, issue, done, settled, faults>>

(* ... creates one if it saw none ...                                      *)
BootCreate(r) ==
    /\ boot[r] = "create"
    /\ CreateCAKey
    /\ boot' = [boot EXCEPT ![r] = "audit"]
    /\ UNCHANGED <<op, signer, mu, issue, done, settled, faults>>

(* ... and writes its audit event; the server then takes requests.         *)
BootAudit(r) ==
    /\ boot[r] = "audit"
    /\ boot' = [boot EXCEPT ![r] = "up"]
    /\ UNCHANGED <<state, last, op, signer, mu, issue, done, settled, faults>>

(* The process ends at any point, or a failed bootstrap ends it.           *)
Crash(r) ==
    /\ boot[r] # "down"
    /\ faults < MaxFaults
    /\ faults' = faults + 1
    /\ boot' = [boot EXCEPT ![r] = "down"]
    /\ op' = [op EXCEPT ![r] = NoOp]
    /\ signer' = [signer EXCEPT ![r] = 0]
    /\ mu' = [mu EXCEPT ![r] = "free"]
    /\ issue' = [issue EXCEPT ![r] = NoIssue]
    /\ done' = [done EXCEPT ![r] = {}]
    /\ UNCHANGED <<state, last, settled>>

-----------------------------------------------------------------------------
MayStart(r) == /\ boot[r] = "up"
               /\ op[r] = NoOp
               /\ Cardinality({q \in Replicas : op[q] # NoOp}) < MaxOps

(* A mutant: every key is demoted, whatever its state.                     *)
RotateListsAll(r) ==
    /\ MayStart(r)
    /\ op' = [op EXCEPT ![r] = [NoOp EXCEPT !.pc = "create", !.previous = 1..last]]
    /\ UNCHANGED <<state, last, boot, signer, mu, issue, done, settled, faults>>

(* Rotate: the keys before the new one ...                                 *)
RotateList(r) ==
    /\ MayStart(r)
    /\ op' = [op EXCEPT ![r] = [NoOp EXCEPT !.pc = "create",
                                            !.previous = ActiveKeys]]
    /\ UNCHANGED <<state, last, boot, signer, mu, issue, done, settled, faults>>

(* A mutant: the old keys are demoted before the new one exists.           *)
RotateDemotesFirst(r) ==
    /\ op[r].pc = "create"
    /\ state' = [k \in Keys |-> IF k \in op[r].previous THEN "retiring" ELSE state[k]]
    /\ op' = [op EXCEPT ![r].pc = "audit", ![r].target = last]
    /\ UNCHANGED <<last, boot, signer, mu, issue, done, settled, faults>>

(* ... createKey: the new key ...                                          *)
RotateCreate(r) ==
    /\ op[r].pc = "create"
    /\ CreateCAKey
    /\ op' = [op EXCEPT ![r].pc = "audit", ![r].target = last + 1]
    /\ UNCHANGED <<boot, signer, mu, issue, done, settled, faults>>

(* ... its audit event and the first invalidation ...                      *)
RotateAudit(r) ==
    /\ op[r].pc = "audit"
    /\ InvalidateSigner(r)
    /\ op' = [op EXCEPT ![r].pc = "demote"]
    /\ UNCHANGED <<state, last, boot, mu, issue, done, settled, faults>>

(* ... one UPDATE per key that was active, by id alone ...                 *)
RotateDemote(r, k) ==
    /\ op[r].pc = "demote"
    /\ k \in op[r].previous
    /\ state' = [state EXCEPT ![k] = "retiring"]
    /\ op' = [op EXCEPT ![r].previous = @ \ {k}]
    /\ UNCHANGED <<last, boot, signer, mu, issue, done, settled, faults>>

(* ... and the second invalidation.                                        *)
RotateEnd(r) ==
    /\ op[r].pc = "demote"
    /\ op[r].previous = {}
    /\ InvalidateSigner(r)
    /\ done' = [done EXCEPT ![r] = @ \cup 1..(op[r].target - 1)]
    /\ op' = [op EXCEPT ![r] = NoOp]
    /\ UNCHANGED <<state, last, boot, mu, issue, settled, faults>>

(* RetireKey: the UPDATE, by id alone ...                                  *)
Retire(r, k) ==
    /\ MayStart(r)
    /\ state[k] \in RetireFrom
    /\ state' = [state EXCEPT ![k] = "retired"]
    /\ op' = [op EXCEPT ![r] = [NoOp EXCEPT !.pc = "retired", !.target = k]]
    /\ settled' = IF \E q \in Replicas : k \in op[q].previous THEN settled
                  ELSE settled \cup {k}
    /\ UNCHANGED <<last, boot, signer, mu, issue, done, faults>>

(* ... the audit event and the invalidation.                               *)
RetireEnd(r) ==
    /\ op[r].pc = "retired"
    /\ InvalidateSigner(r)
    /\ done' = [done EXCEPT ![r] = @ \cup {op[r].target}]
    /\ op' = [op EXCEPT ![r] = NoOp]
    /\ UNCHANGED <<state, last, boot, mu, issue, settled, faults>>

(* A statement of a lifecycle operation fails: it returns at once, without *)
(* the invalidation, and what is written stays.                            *)
OpFails(r) ==
    /\ op[r] # NoOp
    /\ faults < MaxFaults
    /\ faults' = faults + 1
    /\ op' = [op EXCEPT ![r] = NoOp]
    /\ UNCHANGED <<state, last, boot, signer, mu, issue, done, settled>>

-----------------------------------------------------------------------------
(* Issue: activeSigner finds a cached signer ...                           *)
UseCached(r) ==
    /\ boot[r] = "up"
    /\ issue[r] = NoIssue
    /\ mu[r] = "free"
    /\ signer[r] # 0
    /\ issue' = [issue EXCEPT ![r] = [pc |-> "sign", key |-> signer[r]]]
    /\ UNCHANGED <<state, last, boot, op, signer, mu, done, settled, faults>>

(* ... or reads the table, under the lock: the newest active key, or none  *)
(* and the request fails ...                                               *)
ReadKeys(r) ==
    /\ boot[r] = "up"
    /\ issue[r] = NoIssue
    /\ mu[r] = "free"
    /\ signer[r] = 0
    /\ ActiveKeys # {}
    /\ mu' = [mu EXCEPT ![r] = "issue"]
    /\ issue' = [issue EXCEPT ![r] = [pc |-> "read", key |-> Newest(ActiveKeys)]]
    /\ UNCHANGED <<state, last, boot, op, signer, done, settled, faults>>

(* ... and caches it.                                                      *)
CacheSigner(r) ==
    /\ issue[r].pc = "read"
    /\ signer' = [signer EXCEPT ![r] = issue[r].key]
    /\ mu' = [mu EXCEPT ![r] = "free"]
    /\ issue' = [issue EXCEPT ![r].pc = "sign"]
    /\ UNCHANGED <<state, last, boot, op, done, settled, faults>>

(* Issue: sign, and record certificate and audit event in one transaction. *)
Sign(r) ==
    /\ issue[r].pc = "sign"
    /\ issue' = [issue EXCEPT ![r] = NoIssue]
    /\ UNCHANGED <<state, last, boot, op, signer, mu, done, settled, faults>>

-----------------------------------------------------------------------------
ReplicaStep(r) ==
    \/ BootList(r) \/ BootCreate(r) \/ BootAudit(r) \/ Crash(r)
    \/ RotateList(r) \/ RotateCreate(r) \/ RotateAudit(r) \/ RotateEnd(r)
    \/ \E k \in Keys : RotateDemote(r, k) \/ Retire(r, k)
    \/ RetireEnd(r) \/ OpFails(r)
    \/ UseCached(r) \/ ReadKeys(r) \/ CacheSigner(r) \/ Sign(r)

Next == \E r \in Replicas : ReplicaStep(r)

Spec == Init /\ [][Next]_vars

-----------------------------------------------------------------------------
(* The types of the variables.                                             *)
TypeOK ==
    /\ state \in [Keys -> States]
    /\ last \in 0..MaxKeys
    /\ boot \in [Replicas -> {"down", "create", "audit", "up"}]
    /\ op \in [Replicas -> Ops]
    /\ signer \in [Replicas -> 0..MaxKeys]
    /\ mu \in [Replicas -> {"free", "issue"}]
    /\ issue \in [Replicas -> [pc : {"idle", "read", "sign"}, key : 0..MaxKeys]]
    /\ done \in [Replicas -> SUBSET (0..MaxKeys)]
    /\ settled \in SUBSET Keys
    /\ faults \in 0..MaxFaults

(* From the moment a replica takes requests there is an active key,        *)
(* whatever rotations are under way or broke off on the way: as long as    *)
(* only keys in transition are retired, no step of the lifecycle leaves    *)
(* the purpose without a key to sign with.                                 *)
NeverUnsignable == (\E r \in Replicas : boot[r] = "up") => ActiveKeys # {}

(* Once Rotate or RetireKey has returned without error, the replica that   *)
(* ran it never again caches the keys rotated away or retired, although    *)
(* Issue calls read the table concurrently.                                *)
OwnOperationTakesEffect == \A r \in Replicas : signer[r] \notin done[r]

(* A retired key never signs again, and it comes back into the bundle only *)
(* if a rotation that had listed it before was still running when it was   *)
(* retired, whose late UPDATE makes it a retiring key once more.  Rotate's *)
(* UPDATE is by id alone, so that retirement is "permanent" (ca.go:277,    *)
(* docs/operations-manual.md:196) rests on what a rotation lists.          *)
RetirementHolds ==
    [][\A k \in Keys : state[k] = "retired" =>
          \/ state'[k] = "retired"
          \/ state'[k] = "retiring" /\ k \notin settled]_vars

(* 0005_ca_key_unique.sql: the unique index "also closes the existing      *)
(* bootstrap race in EnsureCAKeys, where two replicas could each create an *)
(* active key".  Where nobody rotates, there is at most one active key.    *)
BootstrapCreatesOneKey == Cardinality(ActiveKeys) <= 1
=============================================================================
