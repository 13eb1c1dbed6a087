---------------------------- MODULE CAKeysProofs ----------------------------
(***************************************************************************)
(* Proofs about CAKeys, for any number of replicas, keys, faults and       *)
(* concurrent lifecycle operations.                                        *)
(*                                                                         *)
(* NeverUnsignable is not inductive: a rotation demotes keys it listed     *)
(* long before.  The strengthening says which key is always safe from it,  *)
(* the newest one: a rotation demotes only keys older than the one it has  *)
(* created.                                                                *)
(***************************************************************************)
EXTENDS CAKeys, TLAPS

(* Keys are created in order.                                              *)
CreatedInOrder == \A k \in Keys : k > last <=> state[k] = "none"

(* The newest key is active.                                               *)
NewestActive == last > 0 => state[last] = "active"

(* What a rotation will demote is older than what it has created.          *)
DemotesOlder ==
    \A r \in Replicas :
        /\ op[r].pc = "create" => op[r].previous \subseteq 1..last
        /\ op[r].pc \in {"audit", "demote"} =>
              /\ op[r].target <= last
              /\ op[r].previous \subseteq 1..(op[r].target - 1)

(* A replica that takes requests found or created a key.                   *)
UpHasKey == \A r \in Replicas : boot[r] \in {"audit", "up"} => last > 0

(* The inductive invariant.                                                *)
KeyInv == TypeOK /\ CreatedInOrder /\ NewestActive /\ DemotesOlder /\ UpHasKey

-----------------------------------------------------------------------------
(* The initial table is empty.                                             *)
LEMMA InitKeyInv == Init => KeyInv
BY CAKeysAssumption
   DEF Init, KeyInv, TypeOK, CreatedInOrder, NewestActive, DemotesOlder, UpHasKey,
       NoOp, NoIssue, Keys, States, Ops

(* The key activeSigner picks is the newest of all, so it exists.          *)
LEMMA NewestIsLast == KeyInv /\ ActiveKeys # {} => Newest(ActiveKeys) \in ActiveKeys
<1> SUFFICES ASSUME KeyInv, ActiveKeys # {} PROVE Newest(ActiveKeys) \in ActiveKeys
    OBVIOUS
<1>1. /\ last \in 0..MaxKeys
      /\ \A k \in ActiveKeys : k \in Keys /\ state[k] = "active"
    BY DEF KeyInv, TypeOK, ActiveKeys
<1>2. \A k \in ActiveKeys : k <= last
    BY <1>1, CAKeysAssumption DEF KeyInv, CreatedInOrder, Keys
<1>3. last \in ActiveKeys
    BY <1>1, <1>2, CAKeysAssumption DEF KeyInv, NewestActive, ActiveKeys, Keys
<1>4. \E k \in ActiveKeys : \A j \in ActiveKeys : j <= k
    BY <1>2, <1>3
<1> QED
    BY <1>4 DEF Newest

(* Updates of an operation's record.                                       *)
LEMMA OpUpdates ==
    ASSUME NEW o \in Ops, NEW s \in SUBSET Keys, NEW k \in 0..MaxKeys
    PROVE  /\ NoOp \in Ops
           /\ [NoOp EXCEPT !.pc = "create", !.previous = s] \in Ops
           /\ [NoOp EXCEPT !.pc = "retired", !.target = k] \in Ops
           /\ [o EXCEPT !.pc = "audit", !.target = k] \in Ops
           /\ [o EXCEPT !.pc = "demote"] \in Ops
           /\ [o EXCEPT !.previous = o.previous \ {k}] \in Ops
<1>1. 0 \in 0..MaxKeys
    BY CAKeysAssumption
<1>2. /\ NoOp \in Ops
      /\ [NoOp EXCEPT !.pc = "create", !.previous = s] \in Ops
      /\ [NoOp EXCEPT !.pc = "retired", !.target = k] \in Ops
    BY <1>1 DEF NoOp, Ops
<1>3. [o EXCEPT !.pc = "audit", !.target = k] \in Ops
    BY DEF Ops
<1>4. [o EXCEPT !.pc = "demote"] \in Ops
    BY DEF Ops
<1>5. [o EXCEPT !.previous = o.previous \ {k}] \in Ops
    BY DEF Ops
<1> QED
    BY <1>2, <1>3, <1>4, <1>5

(* Every variable keeps its type.                                          *)
LEMMA TypeStep == KeyInv /\ [Next]_vars => TypeOK'
<1> SUFFICES ASSUME KeyInv, [Next]_vars PROVE TypeOK'
    OBVIOUS
<1> TypeOK
    BY DEF KeyInv
<1> USE CAKeysAssumption DEF TypeOK, Keys, States, NoIssue
<1>a. NoOp \in Ops
    BY DEF NoOp, Ops
<1>b. ASSUME NEW r \in Replicas, NEW o \in Ops, op' = [op EXCEPT ![r] = o]
      PROVE  op' \in [Replicas -> Ops]
    BY <1>b
<1>1. CASE UNCHANGED vars
    BY <1>1 DEF vars
<1>2. ASSUME NEW r \in Replicas, ReplicaStep(r) PROVE TypeOK'
    <2>1. CASE BootList(r) BY <2>1 DEF BootList
    <2>2. CASE BootCreate(r) BY <2>2 DEF BootCreate, CreateCAKey
    <2>3. CASE BootAudit(r) BY <2>3 DEF BootAudit
    <2>4. CASE Crash(r) BY <1>a, <2>4 DEF Crash
    <2>5. CASE RotateList(r)
        <3>1. [NoOp EXCEPT !.pc = "create", !.previous = ActiveKeys] \in Ops
            BY OpUpdates, <1>a DEF ActiveKeys
        <3> QED BY <1>b, <2>5, <3>1 DEF RotateList
    <2>6. CASE RotateCreate(r)
        <3>1. last + 1 \in 0..MaxKeys
            BY <2>6 DEF RotateCreate, CreateCAKey
        <3>2. [op[r] EXCEPT !.pc = "audit", !.target = last + 1] \in Ops
            BY OpUpdates, <3>1
        <3>3. op' = [op EXCEPT ![r] = [op[r] EXCEPT !.pc = "audit", !.target = last + 1]]
            BY <2>6 DEF RotateCreate
        <3>4. op' \in [Replicas -> Ops]
            BY <1>b, <3>2, <3>3
        <3> QED BY <2>6, <3>4 DEF RotateCreate, CreateCAKey
    <2>7. CASE RotateAudit(r)
        <3>1. [op[r] EXCEPT !.pc = "demote"] \in Ops
            BY OpUpdates, <1>a
        <3>2. op' = [op EXCEPT ![r] = [op[r] EXCEPT !.pc = "demote"]]
            BY <2>7 DEF RotateAudit
        <3>3. op' \in [Replicas -> Ops]
            BY <1>b, <3>1, <3>2
        <3> QED BY <2>7, <3>3 DEF RotateAudit, InvalidateSigner
    <2>8. CASE RotateEnd(r)
        <3>1. op[r].target \in 0..MaxKeys
            BY DEF Ops
        <3> QED BY <1>a, <2>8, <3>1 DEF RotateEnd, InvalidateSigner
    <2>9. ASSUME NEW k \in Keys, RotateDemote(r, k) PROVE TypeOK'
        <3>0. k \in 0..MaxKeys
            OBVIOUS
        <3>1. [op[r] EXCEPT !.previous = op[r].previous \ {k}] \in Ops
            BY OpUpdates, <1>a, <3>0
        <3>2. op' = [op EXCEPT ![r] = [op[r] EXCEPT !.previous = op[r].previous \ {k}]]
            BY <2>9 DEF RotateDemote
        <3>3. op' \in [Replicas -> Ops]
            BY <1>b, <3>1, <3>2
        <3> QED BY <2>9, <3>3 DEF RotateDemote
    <2>10. ASSUME NEW k \in Keys, Retire(r, k) PROVE TypeOK'
        <3>0. k \in 0..MaxKeys
            OBVIOUS
        <3>1. [NoOp EXCEPT !.pc = "retired", !.target = k] \in Ops
            BY OpUpdates, <1>a, <3>0
        <3> QED BY <1>b, <2>10, <3>1 DEF Retire
    <2>11. CASE RetireEnd(r)
        <3>1. op[r].target \in 0..MaxKeys
            BY DEF Ops
        <3> QED BY <1>a, <2>11, <3>1 DEF RetireEnd, InvalidateSigner
    <2>12. CASE OpFails(r) BY <1>a, <2>12 DEF OpFails
    <2>13. CASE UseCached(r) BY <2>13 DEF UseCached
    <2>14. CASE ReadKeys(r)
        <3>1. Newest(ActiveKeys) \in Keys
            BY <2>14, NewestIsLast DEF ReadKeys, ActiveKeys
        <3> QED BY <2>14, <3>1 DEF ReadKeys
    <2>15. CASE CacheSigner(r) BY <2>15 DEF CacheSigner
    <2>16. CASE Sign(r) BY <2>16 DEF Sign
    <2> QED
        BY <1>2, <2>1, <2>2, <2>3, <2>4, <2>5, <2>6, <2>7, <2>8, <2>9, <2>10,
           <2>11, <2>12, <2>13, <2>14, <2>15, <2>16 DEF ReplicaStep
<1> QED
    BY <1>1, <1>2 DEF Next

-----------------------------------------------------------------------------
(* What a table step must keep.                                            *)
TableInv == CreatedInOrder /\ NewestActive

(* Creating a key: it is the newest, and active.                           *)
LEMMA CreateStep == KeyInv /\ CreateCAKey => TableInv'
<1> SUFFICES ASSUME KeyInv, CreateCAKey PROVE TableInv'
    OBVIOUS
<1> USE CAKeysAssumption DEF Keys, States
<1>1. /\ state \in [Keys -> States]
      /\ last \in 0..MaxKeys /\ last < MaxKeys
      /\ last' = last + 1
      /\ state' = [state EXCEPT ![last + 1] = "active"]
    BY DEF KeyInv, TypeOK, CreateCAKey
<1>2. \A k \in Keys : k > last' <=> state'[k] = "none"
    BY <1>1 DEF KeyInv, CreatedInOrder
<1>3. state'[last'] = "active"
    BY <1>1
<1> QED
    BY <1>2, <1>3 DEF TableInv, CreatedInOrder, NewestActive

(* Changing the state of an older key leaves the newest one alone.         *)
LEMMA DemoteStep ==
    ASSUME KeyInv, NEW k \in Keys, k < last, NEW s \in {"retiring", "retired"},
           state' = [state EXCEPT ![k] = s], last' = last
    PROVE  TableInv'
<1> USE CAKeysAssumption DEF Keys, States
<1>1. state \in [Keys -> States] /\ last \in 0..MaxKeys
    BY DEF KeyInv, TypeOK
<1>2. \A j \in Keys : j > last' <=> state'[j] = "none"
    BY <1>1 DEF KeyInv, CreatedInOrder
<1>3. last' > 0 => state'[last'] = "active"
    BY <1>1 DEF KeyInv, NewestActive
<1> QED
    BY <1>2, <1>3 DEF TableInv, CreatedInOrder, NewestActive

(* Operators retire keys that Rotate has already replaced.                 *)
RetiresReplaced == RetireFrom \subseteq {"retiring", "retired"}

(* The table keeps its shape in every step.                                *)
LEMMA TableStep == RetiresReplaced /\ KeyInv /\ [Next]_vars => TableInv' /\ last' >= last
<1> SUFFICES ASSUME RetiresReplaced, KeyInv, [Next]_vars
             PROVE  TableInv' /\ last' >= last
    OBVIOUS
<1>0. /\ TableInv
      /\ last \in 0..MaxKeys
      /\ op \in [Replicas -> Ops]
    BY DEF KeyInv, TypeOK, TableInv
<1>1. CASE UNCHANGED <<state, last>>
    BY <1>0, <1>1 DEF TableInv, CreatedInOrder, NewestActive
<1>2. CASE CreateCAKey
    BY <1>0, <1>2, CreateStep DEF CreateCAKey
<1>3. ASSUME NEW r \in Replicas, NEW k \in Keys, RotateDemote(r, k)
      PROVE  TableInv' /\ last' >= last
    <2>1. /\ op[r].pc = "demote" /\ k \in op[r].previous
          /\ state' = [state EXCEPT ![k] = "retiring"]
          /\ last' = last
        BY <1>3 DEF RotateDemote
    <2>2. op[r].target <= last /\ op[r].previous \subseteq 1..(op[r].target - 1)
        BY <2>1 DEF KeyInv, DemotesOlder
    <2>3. op[r].target \in 0..MaxKeys
        BY <1>0 DEF Ops
    <2>4. k < last
        BY <1>0, <2>1, <2>2, <2>3
    <2>5. TableInv'
        BY <2>1, <2>4, DemoteStep
    <2> QED
        BY <1>0, <2>1, <2>5
<1>4. ASSUME NEW r \in Replicas, NEW k \in Keys, Retire(r, k)
      PROVE  TableInv' /\ last' >= last
    <2>1. /\ state[k] \in {"retiring", "retired"}
          /\ state' = [state EXCEPT ![k] = "retired"]
          /\ last' = last
        BY <1>4 DEF Retire, RetiresReplaced
    <2>2. k # last /\ ~ (k > last)
        BY <1>0, <2>1, CAKeysAssumption DEF KeyInv, NewestActive, CreatedInOrder, Keys
    <2>3. k < last
        BY <1>0, <2>2, CAKeysAssumption DEF Keys
    <2>4. TableInv'
        BY <2>1, <2>3, DemoteStep
    <2> QED
        BY <1>0, <2>1, <2>4
<1>5. \/ UNCHANGED <<state, last>>
      \/ CreateCAKey
      \/ \E r \in Replicas, k \in Keys : RotateDemote(r, k) \/ Retire(r, k)
    BY DEF Next, vars, ReplicaStep, BootList, BootCreate, BootAudit, Crash, RotateList,
           RotateCreate, RotateAudit, RotateEnd, RetireEnd, OpFails, UseCached, ReadKeys,
           CacheSigner, Sign
<1> QED
    BY <1>1, <1>2, <1>3, <1>4, <1>5

(* A rotation's plan stays behind the key it created.                      *)
LEMMA PlanStep == KeyInv /\ [Next]_vars /\ last' >= last => DemotesOlder'
<1> SUFFICES ASSUME KeyInv, [Next]_vars, last' >= last, NEW q \in Replicas
             PROVE  /\ op'[q].pc = "create" => op'[q].previous \subseteq 1..last'
                    /\ op'[q].pc \in {"audit", "demote"} =>
                          /\ op'[q].target <= last'
                          /\ op'[q].previous \subseteq 1..(op'[q].target - 1)
    BY DEF DemotesOlder
<1>0. /\ op \in [Replicas -> Ops]
      /\ last \in 0..MaxKeys
      /\ last' \in 0..MaxKeys
      /\ op[q].pc = "create" => op[q].previous \subseteq 1..last
      /\ op[q].pc \in {"audit", "demote"} =>
            /\ op[q].target <= last
            /\ op[q].previous \subseteq 1..(op[q].target - 1)
      /\ op[q].target \in 0..MaxKeys
    BY TypeStep DEF KeyInv, TypeOK, DemotesOlder, Ops
<1>1. CASE op'[q] = op[q]
    BY <1>0, <1>1
<1>2. CASE op'[q] = NoOp
    BY <1>2 DEF NoOp
<1>3. CASE RotateList(q)
    <2>1. op'[q] = [NoOp EXCEPT !.pc = "create", !.previous = ActiveKeys] /\ last' = last
        BY <1>0, <1>3 DEF RotateList
    <2>2. ActiveKeys \subseteq 1..last
        BY <1>0, CAKeysAssumption DEF KeyInv, CreatedInOrder, ActiveKeys, Keys
    <2>3. op'[q].pc = "create" /\ op'[q].previous = ActiveKeys
        BY <2>1 DEF NoOp
    <2> QED BY <2>1, <2>2, <2>3
<1>4. CASE RotateCreate(q)
    <2>1. /\ op[q].pc = "create"
          /\ op' = [op EXCEPT ![q].pc = "audit", ![q].target = last + 1]
          /\ last' = last + 1
        BY <1>4 DEF RotateCreate, CreateCAKey
    <2>2. op'[q].pc = "audit" /\ op'[q].target = last + 1 /\ op'[q].previous = op[q].previous
        BY <1>0, <2>1 DEF Ops
    <2> QED BY <1>0, <2>1, <2>2
<1>5. CASE RotateAudit(q)
    <2>1. /\ op[q].pc = "audit" /\ last' = last
          /\ op'[q].pc = "demote" /\ op'[q].target = op[q].target
          /\ op'[q].previous = op[q].previous
        BY <1>0, <1>5 DEF RotateAudit, Ops
    <2> QED BY <1>0, <2>1
<1>6. ASSUME NEW k \in Keys, RotateDemote(q, k)
      PROVE  /\ op[q].pc = "demote" /\ last' = last
             /\ op'[q].pc = "demote" /\ op'[q].target = op[q].target
             /\ op'[q].previous \subseteq op[q].previous
    BY <1>0, <1>6 DEF RotateDemote, Ops
<1>7. ASSUME NEW k \in Keys, Retire(q, k) PROVE op'[q].pc = "retired"
    BY <1>0, <1>7 DEF Retire, NoOp
<1>8. \/ op'[q] = op[q]
      \/ op'[q] = NoOp
      \/ RotateList(q) \/ RotateCreate(q) \/ RotateAudit(q)
      \/ \E k \in Keys : RotateDemote(q, k) \/ Retire(q, k)
    <2>1. CASE UNCHANGED vars
        BY <2>1 DEF vars
    <2>2. ASSUME NEW r \in Replicas, ReplicaStep(r), r # q PROVE op'[q] = op[q]
        BY <1>0, <2>2 DEF ReplicaStep, BootList, BootCreate, BootAudit, Crash, RotateList,
           RotateCreate, RotateAudit, RotateDemote, RotateEnd, Retire, RetireEnd, OpFails,
           UseCached, ReadKeys, CacheSigner, Sign
    <2>3. CASE ReplicaStep(q)
        BY <1>0, <2>3 DEF ReplicaStep, BootList, BootCreate, BootAudit, Crash,
           RotateEnd, RetireEnd, OpFails, UseCached, ReadKeys, CacheSigner, Sign
    <2> QED
        BY <2>1, <2>2, <2>3 DEF Next
<1> QED
    BY <1>0, <1>1, <1>2, <1>3, <1>4, <1>5, <1>6, <1>7, <1>8

(* A replica gets ready for requests only once there is a key.             *)
LEMMA ReadyStep == KeyInv /\ [Next]_vars /\ last' >= last => UpHasKey'
<1> SUFFICES ASSUME KeyInv, [Next]_vars, last' >= last, NEW q \in Replicas,
                    boot'[q] \in {"audit", "up"}
             PROVE  last' > 0
    BY DEF UpHasKey
<1>0. /\ boot \in [Replicas -> {"down", "create", "audit", "up"}]
      /\ last \in 0..MaxKeys
      /\ last' \in 0..MaxKeys
      /\ boot[q] \in {"audit", "up"} => last > 0
    BY TypeStep DEF KeyInv, TypeOK, UpHasKey
<1>1. CASE boot[q] \in {"audit", "up"}
    BY <1>0, <1>1
<1>2. CASE BootList(q)
    <2>1. ListActiveCAKeys # {}
        BY <1>0, <1>2 DEF BootList
    <2>2. PICK k \in Keys : state[k] \in {"active", "retiring"}
        BY <2>1 DEF ListActiveCAKeys
    <2>3. ~ (k > last)
        BY <2>2 DEF KeyInv, CreatedInOrder
    <2> QED BY <1>0, <2>3, CAKeysAssumption DEF Keys
<1>3. CASE BootCreate(q)
    BY <1>0, <1>3 DEF BootCreate, CreateCAKey
<1>4. boot[q] \in {"audit", "up"} \/ BootList(q) \/ BootCreate(q)
    <2>1. CASE UNCHANGED vars
        BY <2>1 DEF vars
    <2>2. ASSUME NEW r \in Replicas, ReplicaStep(r), r # q PROVE boot'[q] = boot[q]
        BY <1>0, <2>2 DEF ReplicaStep, BootList, BootCreate, BootAudit, Crash, RotateList,
           RotateCreate, RotateAudit, RotateDemote, RotateEnd, Retire, RetireEnd, OpFails,
           UseCached, ReadKeys, CacheSigner, Sign
    <2>3. ASSUME ReplicaStep(q), ~ BootList(q), ~ BootCreate(q)
          PROVE  boot[q] \in {"audit", "up"}
        BY <1>0, <2>3 DEF ReplicaStep, BootAudit, Crash, RotateList,
           RotateCreate, RotateAudit, RotateDemote, RotateEnd, Retire, RetireEnd, OpFails,
           UseCached, ReadKeys, CacheSigner, Sign
    <2> QED
        BY <2>1, <2>2, <2>3 DEF Next
<1> QED
    BY <1>1, <1>2, <1>3, <1>4

-----------------------------------------------------------------------------
(* The inductive invariant holds as long as operators retire only keys     *)
(* that a rotation has replaced.                                           *)
THEOREM KeyInvHolds == RetiresReplaced /\ Spec => []KeyInv
<1>1. RetiresReplaced /\ KeyInv /\ [Next]_vars => KeyInv'
    BY TypeStep, TableStep, PlanStep, ReadyStep DEF KeyInv, TableInv
<1>2. SUFFICES ASSUME RetiresReplaced PROVE Spec => []KeyInv
    OBVIOUS
<1> QED
    BY <1>1, <1>2, InitKeyInv, PTL DEF Spec

(* From the first request on there is always an active key, for every      *)
(* number of replicas, of concurrent rotations and of faults.              *)
THEOREM SignableAlways == RetiresReplaced /\ Spec => []NeverUnsignable
<1>1. KeyInv => NeverUnsignable
    <2> SUFFICES ASSUME KeyInv, NEW r \in Replicas, boot[r] = "up"
                 PROVE  ActiveKeys # {}
        BY DEF NeverUnsignable
    <2>1. last \in 0..MaxKeys /\ last > 0 /\ state[last] = "active"
        BY DEF KeyInv, TypeOK, UpHasKey, NewestActive
    <2>2. last \in ActiveKeys
        BY <2>1, CAKeysAssumption DEF ActiveKeys, Keys
    <2> QED
        BY <2>2
<1> QED
    BY <1>1, KeyInvHolds, PTL

(* The types of the variables.                                             *)
THEOREM KeysTypeCorrect == RetiresReplaced /\ Spec => []TypeOK
<1>1. KeyInv => TypeOK
    BY DEF KeyInv
<1> QED
    BY <1>1, KeyInvHolds, PTL

-----------------------------------------------------------------------------
(* The effect of an operation on the replica that ran it.  What the        *)
(* replica has rotated away or retired is older than the newest key; the   *)
(* table is read under ca.mu, and invalidateSigner waits for ca.mu: no     *)
(* read straddles an invalidation.                                         *)
DoneIsOld(r) == /\ done[r] \subseteq 1..(last - 1)
                /\ op[r].pc = "retired" => op[r].target \in 1..(last - 1)

CacheIsNew(r) == /\ signer[r] \notin done[r]
                 /\ issue[r].pc = "read" => mu[r] = "issue" /\ issue[r].key \notin done[r]

EffectInv == \A r \in Replicas : DoneIsOld(r) /\ CacheIsNew(r)

(* Nothing is cached and nothing done.                                     *)
LEMMA InitEffect == Init => EffectInv
BY DEF Init, EffectInv, DoneIsOld, CacheIsNew, NoOp, NoIssue

(* Intervals grow with their end.                                          *)
LEMMA Intervals ==
    ASSUME NEW m \in Nat, NEW n \in Nat, n >= m PROVE 1..(m - 1) \subseteq 1..(n - 1)
OBVIOUS

(* A step that adds nothing to what was done and starts no retirement      *)
(* keeps it old.                                                           *)
LEMMA StillOld ==
    ASSUME KeyInv, KeyInv', last' >= last, NEW q \in Replicas, DoneIsOld(q),
           done'[q] \subseteq done[q], op'[q].pc = "retired" => op'[q] = op[q]
    PROVE  DoneIsOld(q)'
<1>1. last \in Nat /\ last' \in Nat
    BY CAKeysAssumption DEF KeyInv, TypeOK
<1>2. 1..(last - 1) \subseteq 1..(last' - 1)
    BY <1>1, Intervals
<1>3. done'[q] \subseteq 1..(last' - 1)
    BY <1>2 DEF DoneIsOld
<1>4. op'[q].pc = "retired" => op'[q].target \in 1..(last' - 1)
    BY <1>2 DEF DoneIsOld
<1> QED
    BY <1>3, <1>4 DEF DoneIsOld

(* The key that ReadKeys takes is the newest of all.                       *)
LEMMA ReadsLast ==
    ASSUME KeyInv, ActiveKeys # {} PROVE Newest(ActiveKeys) = last /\ last \in Nat \ {0}
<1>1. /\ last \in 0..MaxKeys
      /\ \A k \in ActiveKeys : k \in Keys /\ state[k] = "active"
    BY DEF KeyInv, TypeOK, ActiveKeys
<1>2. \A k \in ActiveKeys : k <= last
    BY <1>1, CAKeysAssumption DEF KeyInv, CreatedInOrder, Keys
<1>3. last \in ActiveKeys
    BY <1>1, <1>2, CAKeysAssumption DEF KeyInv, NewestActive, ActiveKeys, Keys
<1>4. Newest(ActiveKeys) \in ActiveKeys /\ \A j \in ActiveKeys : j <= Newest(ActiveKeys)
    BY <1>2, <1>3 DEF Newest
<1>k. \A k \in Keys : k \in Nat \ {0}
    BY CAKeysAssumption DEF Keys
<1>5. Newest(ActiveKeys) \in Nat /\ last \in Nat \ {0}
    BY <1>1, <1>3, <1>4, <1>k
<1>6. Newest(ActiveKeys) <= last /\ last <= Newest(ActiveKeys)
    BY <1>2, <1>3, <1>4
<1> QED
    BY <1>5, <1>6

(* The steps of a replica keep its own part.                               *)
LEMMA EffectOwnStep ==
    ASSUME RetiresReplaced, KeyInv, KeyInv', last' >= last, NEW r \in Replicas,
           DoneIsOld(r), CacheIsNew(r), ReplicaStep(r)
    PROVE  DoneIsOld(r)' /\ CacheIsNew(r)'
<1>0. /\ last \in 0..MaxKeys /\ op \in [Replicas -> Ops] /\ done \in [Replicas -> SUBSET (0..MaxKeys)]
      /\ signer \in [Replicas -> 0..MaxKeys] /\ mu \in [Replicas -> {"free", "issue"}]
      /\ issue \in [Replicas -> [pc : {"idle", "read", "sign"}, key : 0..MaxKeys]]
      /\ op[r] \in Ops /\ op[r].target \in 0..MaxKeys /\ last \in Nat
    BY CAKeysAssumption DEF KeyInv, TypeOK, Ops
<1>1. CASE \/ BootList(r) \/ BootCreate(r) \/ BootAudit(r)
    <2>1. /\ done' = done /\ op' = op /\ signer' = signer /\ issue' = issue /\ mu' = mu
        BY <1>1 DEF BootList, BootCreate, BootAudit
    <2> QED
        BY <2>1, StillOld DEF CacheIsNew
<1>2. CASE Crash(r)
    <2>1. done'[r] = {} /\ op'[r] = NoOp /\ issue'[r] = NoIssue
        BY <1>0, <1>2 DEF Crash
    <2>2. DoneIsOld(r)'
        BY <2>1, StillOld DEF NoOp
    <2> QED
        BY <2>1, <2>2 DEF CacheIsNew, NoIssue
<1>3. CASE RotateList(r) \/ RotateCreate(r)
    <2>0. CASE RotateList(r)
        <3>1. op' = [op EXCEPT ![r] = [NoOp EXCEPT !.pc = "create", !.previous = ActiveKeys]]
            BY <2>0 DEF RotateList
        <3>2. op'[r].pc = "create"
            BY <1>0, <3>1 DEF NoOp
        <3>3. /\ done' = done /\ signer' = signer /\ issue' = issue /\ mu' = mu
            BY <2>0 DEF RotateList
        <3> QED
            BY <3>2, <3>3, StillOld DEF CacheIsNew
    <2>1. CASE RotateCreate(r)
        <3>1. op' = [op EXCEPT ![r].pc = "audit", ![r].target = last + 1]
            BY <2>1 DEF RotateCreate
        <3>2. op'[r].pc = "audit"
            BY <1>0, <3>1 DEF Ops
        <3>3. /\ done' = done /\ signer' = signer /\ issue' = issue /\ mu' = mu
            BY <2>1 DEF RotateCreate
        <3> QED
            BY <3>2, <3>3, StillOld DEF CacheIsNew
    <2> QED
        BY <1>3, <2>0, <2>1
<1>4. CASE RotateAudit(r)
    <2>1. /\ done' = done /\ signer'[r] = 0 /\ issue' = issue /\ mu' = mu
          /\ op'[r].pc = "demote"
        BY <1>0, <1>4 DEF RotateAudit, InvalidateSigner, Ops
    <2>2. 0 \notin done[r]
        BY <1>0 DEF DoneIsOld
    <2> QED
        BY <2>1, <2>2, StillOld DEF CacheIsNew
<1>5. CASE RotateEnd(r)
    <2>1. /\ op[r].pc = "demote" /\ signer'[r] = 0 /\ mu[r] = "free" /\ issue' = issue
          /\ done'[r] = done[r] \cup 1..(op[r].target - 1) /\ op'[r] = NoOp /\ last' = last
        BY <1>0, <1>5 DEF RotateEnd, InvalidateSigner
    <2>2. op[r].target <= last
        BY <2>1 DEF KeyInv, DemotesOlder
    <2>3. 1..(op[r].target - 1) \subseteq 1..(last - 1)
        BY <1>0, <2>2, CAKeysAssumption
    <2>4. DoneIsOld(r)'
        BY <2>1, <2>3 DEF DoneIsOld, NoOp
    <2>5. 0 \notin done'[r]
        BY <1>0, <2>1, <2>4 DEF DoneIsOld
    <2> QED
        BY <2>1, <2>4, <2>5 DEF CacheIsNew
<1>6. ASSUME NEW k \in Keys, RotateDemote(r, k) PROVE DoneIsOld(r)' /\ CacheIsNew(r)'
    <2>1. /\ done' = done /\ signer' = signer /\ issue' = issue /\ mu' = mu
          /\ op'[r].pc = "demote"
        BY <1>0, <1>6 DEF RotateDemote, Ops
    <2> QED
        BY <2>1, StillOld DEF CacheIsNew
<1>7. ASSUME NEW k \in Keys, Retire(r, k) PROVE DoneIsOld(r)' /\ CacheIsNew(r)'
    <2>1. /\ done' = done /\ signer' = signer /\ issue' = issue /\ mu' = mu /\ last' = last
          /\ op'[r].target = k
          /\ state[k] \in {"retiring", "retired"}
        BY <1>0, <1>7 DEF Retire, NoOp, RetiresReplaced
    <2>2. k # last /\ ~ (k > last)
        BY <1>0, <2>1, CAKeysAssumption DEF KeyInv, NewestActive, CreatedInOrder, Keys
    <2>3. k \in 1..(last - 1)
        BY <1>0, <2>2, CAKeysAssumption DEF Keys
    <2> QED
        BY <2>1, <2>3 DEF CacheIsNew, DoneIsOld
<1>8. CASE RetireEnd(r)
    <2>1. /\ op[r].pc = "retired" /\ signer'[r] = 0 /\ mu[r] = "free" /\ issue' = issue
          /\ done'[r] = done[r] \cup {op[r].target} /\ op'[r] = NoOp /\ last' = last
        BY <1>0, <1>8 DEF RetireEnd, InvalidateSigner
    <2>2. DoneIsOld(r)'
        BY <2>1 DEF DoneIsOld, NoOp
    <2>3. 0 \notin done'[r]
        BY <1>0, <2>1, <2>2 DEF DoneIsOld
    <2> QED
        BY <2>1, <2>2, <2>3 DEF CacheIsNew
<1>9. CASE OpFails(r)
    <2>1. /\ done' = done /\ signer' = signer /\ issue' = issue /\ mu' = mu /\ op'[r] = NoOp
        BY <1>0, <1>9 DEF OpFails
    <2> QED
        BY <2>1, StillOld DEF CacheIsNew, NoOp
<1>10. CASE UseCached(r) \/ Sign(r)
    <2>1. /\ done' = done /\ op' = op /\ signer' = signer
          /\ issue'[r].pc # "read"
        BY <1>0, <1>10 DEF UseCached, Sign, NoIssue
    <2> QED
        BY <2>1, StillOld DEF CacheIsNew
<1>11. CASE ReadKeys(r)
    <2>1. /\ done' = done /\ op' = op /\ signer' = signer /\ mu'[r] = "issue"
          /\ issue'[r].key = last
        BY <1>0, <1>11, ReadsLast DEF ReadKeys
    <2>2. last \notin done[r]
        BY <1>0 DEF DoneIsOld
    <2> QED
        BY <2>1, <2>2, StillOld DEF CacheIsNew
<1>12. CASE CacheSigner(r)
    <2>1. /\ done' = done /\ op' = op /\ issue[r].pc = "read" /\ signer'[r] = issue[r].key
          /\ issue'[r].pc = "sign"
        BY <1>0, <1>12 DEF CacheSigner
    <2> QED
        BY <2>1, StillOld DEF CacheIsNew
<1> QED
    BY <1>1, <1>2, <1>3, <1>4, <1>5, <1>6, <1>7, <1>8, <1>9, <1>10, <1>11, <1>12
    DEF ReplicaStep

(* And those of the others leave it alone.                                 *)
LEMMA EffectStep == RetiresReplaced /\ KeyInv /\ KeyInv' /\ EffectInv /\ [Next]_vars => EffectInv'
<1> SUFFICES ASSUME RetiresReplaced, KeyInv, KeyInv', EffectInv, [Next]_vars, NEW q \in Replicas
             PROVE  DoneIsOld(q)' /\ CacheIsNew(q)'
    BY DEF EffectInv
<1>0. DoneIsOld(q) /\ CacheIsNew(q) /\ last' >= last
    BY TableStep DEF EffectInv
<1>1. CASE ReplicaStep(q)
    BY <1>0, <1>1, EffectOwnStep
<1>2. ASSUME NEW r \in Replicas, ReplicaStep(r), r # q
      PROVE  /\ done'[q] = done[q] /\ op'[q] = op[q] /\ signer'[q] = signer[q]
             /\ mu'[q] = mu[q] /\ issue'[q] = issue[q]
    <2>0. /\ op \in [Replicas -> Ops] /\ done \in [Replicas -> SUBSET (0..MaxKeys)]
          /\ signer \in [Replicas -> 0..MaxKeys] /\ mu \in [Replicas -> {"free", "issue"}]
          /\ issue \in [Replicas -> [pc : {"idle", "read", "sign"}, key : 0..MaxKeys]]
        BY DEF KeyInv, TypeOK
    <2>1. CASE \/ BootList(r) \/ BootCreate(r) \/ BootAudit(r) \/ Crash(r)
               \/ RotateList(r) \/ RotateCreate(r) \/ RotateAudit(r) \/ RotateEnd(r)
        BY <1>2, <2>0, <2>1 DEF BootList, BootCreate, BootAudit, Crash, RotateList,
           RotateCreate, RotateAudit, RotateEnd, InvalidateSigner
    <2>2. CASE \E k \in Keys : RotateDemote(r, k) \/ Retire(r, k)
        BY <1>2, <2>0, <2>2 DEF RotateDemote, Retire
    <2>3. CASE RetireEnd(r) \/ OpFails(r)
        BY <1>2, <2>0, <2>3 DEF RetireEnd, OpFails, InvalidateSigner
    <2>4. CASE UseCached(r) \/ ReadKeys(r) \/ CacheSigner(r) \/ Sign(r)
        BY <1>2, <2>0, <2>4 DEF UseCached, ReadKeys, CacheSigner, Sign
    <2> QED
        BY <1>2, <2>1, <2>2, <2>3, <2>4 DEF ReplicaStep
<1>3. CASE /\ done'[q] = done[q] /\ op'[q] = op[q] /\ signer'[q] = signer[q]
           /\ mu'[q] = mu[q] /\ issue'[q] = issue[q]
    BY <1>0, <1>3, StillOld DEF CacheIsNew
<1>4. CASE UNCHANGED vars
    BY <1>3, <1>4 DEF vars
<1> QED
    BY <1>1, <1>2, <1>3, <1>4 DEF Next

(* Once Rotate or RetireKey returned without error, its replica never      *)
(* caches what was rotated away or retired (ca.go: activeSigner,           *)
(* invalidateSigner), for every number of replicas and of operations.      *)
THEOREM OwnOperationSeen == RetiresReplaced /\ Spec => []OwnOperationTakesEffect
<1>1. EffectInv => OwnOperationTakesEffect
    BY DEF EffectInv, CacheIsNew, OwnOperationTakesEffect
<1>2. SUFFICES ASSUME RetiresReplaced PROVE Spec => []OwnOperationTakesEffect
    OBVIOUS
<1>3. KeyInv /\ KeyInv' /\ EffectInv /\ [Next]_vars => EffectInv'
    BY <1>2, EffectStep
<1>4. Spec => []KeyInv
    BY <1>2, KeyInvHolds
<1> QED
    BY <1>1, <1>3, <1>4, InitEffect, PTL DEF Spec

-----------------------------------------------------------------------------
(* Retirement.  A key retired while no rotation had listed it stays        *)
(* retired, and since a rotation lists active keys only, none ever lists   *)
(* it again.                                                               *)
SettledGone == \A k \in settled :
    /\ state[k] = "retired"
    /\ \A r \in Replicas : k \notin op[r].previous

(* What no step does to a retired key.                                     *)
KeepsRetired == \A k \in Keys : state[k] = "retired" =>
                    \/ state'[k] = "retired"
                    \/ state'[k] = "retiring" /\ k \notin settled

(* A step that changes no state and adds nothing to any plan.              *)
LEMMA SettledQuiet ==
    ASSUME SettledGone, state' = state, settled' = settled,
           \A q \in Replicas : op'[q].previous \subseteq op[q].previous
    PROVE  SettledGone' /\ KeepsRetired
BY DEF SettledGone, KeepsRetired

(* A new key is not one that was retired.                                  *)
LEMMA SettledCreate ==
    ASSUME KeyInv, SettledGone, CreateCAKey, settled' = settled,
           \A q \in Replicas : op'[q].previous \subseteq op[q].previous
    PROVE  SettledGone' /\ KeepsRetired
<1>1. state \in [Keys -> States] /\ last \in 0..MaxKeys /\ settled \in SUBSET Keys
    BY DEF KeyInv, TypeOK
<1>2. last + 1 \in Keys /\ state[last + 1] = "none"
    BY <1>1, CAKeysAssumption DEF CreateCAKey, KeyInv, CreatedInOrder, Keys
<1>3. \A k \in Keys : state[k] = "retired" => state'[k] = "retired"
    BY <1>1, <1>2 DEF CreateCAKey
<1> QED
    BY <1>1, <1>3 DEF SettledGone, KeepsRetired

(* Every step keeps settled keys retired and out of the plans.             *)
LEMMA SettledStep ==
    ASSUME KeyInv, SettledGone, [Next]_vars
    PROVE  SettledGone' /\ KeepsRetired
<1>0. /\ state \in [Keys -> States] /\ op \in [Replicas -> Ops] /\ settled \in SUBSET Keys
    BY DEF KeyInv, TypeOK
<1>1. CASE UNCHANGED vars
    BY <1>1, SettledQuiet DEF vars
<1>2. ASSUME NEW r \in Replicas,
             \/ BootList(r) \/ BootAudit(r) \/ Crash(r) \/ RotateEnd(r)
             \/ RetireEnd(r) \/ OpFails(r) \/ UseCached(r) \/ ReadKeys(r)
             \/ CacheSigner(r) \/ Sign(r)
      PROVE  SettledGone' /\ KeepsRetired
    <2>1. /\ state' = state /\ settled' = settled
          /\ op' = op \/ op' = [op EXCEPT ![r] = NoOp]
        BY <1>2 DEF BootList, BootAudit, Crash, RotateEnd, RetireEnd, OpFails, UseCached,
           ReadKeys, CacheSigner, Sign
    <2>2. NoOp.previous = {}
        BY DEF NoOp
    <2>3. \A q \in Replicas : op'[q].previous \subseteq op[q].previous
        BY <1>0, <2>1, <2>2
    <2> QED
        BY <2>1, <2>3, SettledQuiet
<1>3. ASSUME NEW r \in Replicas, BootCreate(r) \/ RotateCreate(r)
      PROVE  SettledGone' /\ KeepsRetired
    <2>1. CreateCAKey /\ settled' = settled
        BY <1>3 DEF BootCreate, RotateCreate
    <2>2. \A q \in Replicas : op'[q].previous = op[q].previous
        BY <1>0, <1>3 DEF BootCreate, RotateCreate, Ops
    <2> QED
        BY <2>1, <2>2, SettledCreate
<1>4. ASSUME NEW r \in Replicas, RotateAudit(r)
      PROVE  SettledGone' /\ KeepsRetired
    <2>1. /\ state' = state /\ settled' = settled
          /\ \A q \in Replicas : op'[q].previous = op[q].previous
        BY <1>0, <1>4 DEF RotateAudit, Ops
    <2> QED
        BY <2>1, SettledQuiet
<1>5. ASSUME NEW r \in Replicas, RotateList(r)
      PROVE  SettledGone' /\ KeepsRetired
    <2>1. /\ state' = state /\ settled' = settled /\ op'[r].previous = ActiveKeys
          /\ \A q \in Replicas : q # r => op'[q] = op[q]
        BY <1>0, <1>5 DEF RotateList, NoOp
    <2>2. \A k \in settled : k \notin ActiveKeys
        BY DEF SettledGone, ActiveKeys
    <2> QED
        BY <2>1, <2>2 DEF SettledGone, KeepsRetired
<1>6. ASSUME NEW r \in Replicas, NEW k \in Keys, RotateDemote(r, k)
      PROVE  SettledGone' /\ KeepsRetired
    <2>1. /\ k \in op[r].previous /\ settled' = settled
          /\ state' = [state EXCEPT ![k] = "retiring"]
          /\ op'[r].previous \subseteq op[r].previous
          /\ \A q \in Replicas : q # r => op'[q] = op[q]
        BY <1>0, <1>6 DEF RotateDemote, Ops
    <2>2. k \notin settled
        BY <2>1 DEF SettledGone
    <2> QED
        BY <1>0, <2>1, <2>2 DEF SettledGone, KeepsRetired
<1>7. ASSUME NEW r \in Replicas, NEW k \in Keys, Retire(r, k)
      PROVE  SettledGone' /\ KeepsRetired
    <2>1. /\ state' = [state EXCEPT ![k] = "retired"]
          /\ op'[r].previous = {}
          /\ \A q \in Replicas : q # r => op'[q] = op[q]
        BY <1>0, <1>7 DEF Retire, NoOp
    <2>2. \A q \in Replicas : op'[q].previous \subseteq op[q].previous
        BY <2>1
    <2>3. \A j \in Keys : state[j] = "retired" \/ j = k => state'[j] = "retired"
        BY <1>0, <2>1
    <2>4. \A j \in settled' : j \in settled \/
              (j = k /\ \A q \in Replicas : k \notin op[q].previous)
        BY <1>7 DEF Retire
    <2> QED
        BY <1>0, <2>2, <2>3, <2>4 DEF SettledGone, KeepsRetired
<1> QED
    BY <1>1, <1>2, <1>3, <1>4, <1>5, <1>6, <1>7 DEF Next, ReplicaStep

(* For every number of replicas and of lifecycle operations at the same    *)
(* time, a retired key never becomes active again, and returns to the      *)
(* bundle only if a rotation that listed it was running when RetireKey was *)
(* called (ca.go: Rotate, RetireKey).                                      *)
THEOREM RetirementAlwaysHolds == RetiresReplaced /\ Spec => RetirementHolds
<1> SUFFICES ASSUME RetiresReplaced PROVE Spec => RetirementHolds
    OBVIOUS
<1>1. Init => SettledGone
    BY DEF Init, SettledGone
<1>2. KeyInv /\ SettledGone /\ [Next]_vars => SettledGone'
    BY SettledStep
<1>3. KeyInv /\ SettledGone /\ [Next]_vars =>
         [\A k \in Keys : state[k] = "retired" =>
            \/ state'[k] = "retired"
            \/ state'[k] = "retiring" /\ k \notin settled]_vars
    BY SettledStep DEF KeepsRetired
<1>4. Spec => []KeyInv
    BY KeyInvHolds
<1> QED
    BY <1>1, <1>2, <1>3, <1>4, PTL DEF Spec, RetirementHolds
=============================================================================
