----------------------- MODULE PrincipalsCacheProofs -----------------------
(***************************************************************************)
(* The staleness bounds of the principals cache, for any number of users,  *)
(* lookups and lists and any timeouts.  The invariant IInv is inductive:   *)
(* every entry anywhere in the agent is honest about its age (CacheHonest) *)
(* because a call ends within its deadline (CallsOK), and the server's     *)
(* history only moves forward (HeldOK, HeldMonotone).                      *)
(***************************************************************************)
EXTENDS PrincipalsCache, TLAPS

USE DEF Garbage

(* The empty cache and the idle record are of their types.                 *)
LEMMA ConstantsTyped == /\ Empty \in Caches
                        /\ HonestCache(Empty)
                        /\ Idle \in Records
                        /\ Idle.snap = Empty
                        /\ Idle.user = None
                        /\ Idle.pc = "idle"
<1>1. NoEntry \in Entries \cup {NoEntry}
  OBVIOUS
<1>2. Empty \in Caches
  BY <1>1 DEF Empty, Caches
<1>3. HonestCache(Empty)
  BY DEF HonestCache, Empty, Honest
<1>4. Idle \in Records
  BY <1>1, <1>2, TimesAssumption DEF Idle, Records, PCs
<1>5. QED
  BY <1>2, <1>3, <1>4 DEF Idle

(* Initially nothing is cached, called or served.                          *)
LEMMA InitIInv == Init => IInv
<1> SUFFICES ASSUME Init PROVE IInv
  OBVIOUS
<1> USE TimesAssumption, NoneAssumption
<1>1. Never \in Int /\ Never <= 0
  BY DEF Never, StaleBound
<1>2. TypeOK
  BY <1>1, ConstantsTyped DEF Init, TypeOK
<1>3. HeldOK
  <2> SUFFICES ASSUME NEW u \in Users
               PROVE  /\ lastHeld[u][acl[u]] = now
                      /\ \A p \in Lists : lastHeld[u][p] <= now
    BY DEF HeldOK
  <2>1. acl[u] \in Lists
    BY DEF Init
  <2>2. QED
    BY <1>1, <2>1 DEF Init
<1>4. CacheHonest
  BY ConstantsTyped DEF Init, CacheHonest
<1>5. CallsOK
  BY ConstantsTyped DEF Init, CallsOK, CallOK
<1>6. RevocationReachesHost /\ OnlineLag
  BY DEF Init, RevocationReachesHost, OnlineLag
<1>7. QED
  BY <1>2, <1>3, <1>4, <1>5, <1>6 DEF IInv

(* The instants at which the server held a list only move forward.         *)
HeldMonotone == \A u \in Users, p \in Lists :
                   lastHeld[u][p] <= lastHeld'[u][p]

(* A step keeps the server's history and never rewrites its past.          *)
LEMMA StepHeld == IInv /\ [Next]_vars => HeldOK' /\ HeldMonotone
                                         /\ now' \in 0..MaxTime
                                         /\ acl' \in [Users -> Lists]
                                         /\ lastHeld' \in [Users -> [Lists -> Int]]
<1> SUFFICES ASSUME IInv, [Next]_vars
             PROVE  HeldOK' /\ HeldMonotone /\ now' \in 0..MaxTime
                    /\ acl' \in [Users -> Lists]
                    /\ lastHeld' \in [Users -> [Lists -> Int]]
  OBVIOUS
<1> USE TimesAssumption DEF IInv
<1>1. CASE \E u \in Users, p \in Lists : ChangeAcl(u, p)
  BY <1>1 DEF ChangeAcl, HeldOK, HeldMonotone, TypeOK
<1>2. CASE Tick
  <2>1. lastHeld' \in [Users -> [Lists -> Int]]
    BY <1>2 DEF Tick, TypeOK
  <2>2. now' \in 0..MaxTime /\ acl' \in [Users -> Lists]
    BY <1>2 DEF Tick, TypeOK
  <2>3. HeldOK' /\ HeldMonotone
    BY <1>2 DEF Tick, HeldOK, HeldMonotone, TypeOK
  <2>4. QED
    BY <2>1, <2>2, <2>3
<1>3. CASE UNCHANGED <<now, acl, lastHeld>>
  BY <1>3 DEF HeldOK, HeldMonotone, TypeOK
<1>4. QED
  BY <1>1, <1>2, <1>3 DEF Next, vars, ServeFresh, StartCall, ServerReads,
     DaemonStep, ReceiveAnswer, ServeFallback, Deny, Marshal, Truncate, Fill,
     WriteFails, Restart

(* An entry stays honest when the server's history moves forward.          *)
LEMMA HonestStep == ASSUME HeldMonotone, lastHeld \in [Users -> [Lists -> Int]],
                           lastHeld' \in [Users -> [Lists -> Int]],
                           NEW u \in Users, NEW e \in Entries \cup {NoEntry},
                           Honest(u, e)
                    PROVE  e # NoEntry =>
                             e.FetchedAt <= lastHeld'[u][e.Principals] + ApiTimeout
<1> SUFFICES ASSUME e # NoEntry
             PROVE  e.FetchedAt <= lastHeld'[u][e.Principals] + ApiTimeout
  OBVIOUS
<1>1. e.Principals \in Lists /\ e.FetchedAt \in Nat
  BY TimesAssumption DEF Entries
<1>2. lastHeld[u][e.Principals] <= lastHeld'[u][e.Principals]
  BY <1>1 DEF HeldMonotone
<1>3. lastHeld[u][e.Principals] \in Int /\ lastHeld'[u][e.Principals] \in Int
  BY <1>1
<1>4. QED
  BY <1>1, <1>2, <1>3, TimesAssumption DEF Honest

(* What a received answer is stored as: of the type of an entry, and       *)
(* stamped within apiTimeout of the server's reading.                      *)
LEMMA AnswerEntry == ASSUME IInv, NEW l \in Lookups, lookup[l].pc = "answered"
                     PROVE  LET e == [Principals |-> lookup[l].resp,
                                      FetchedAt |-> now]
                            IN  /\ lookup[l].user \in Users
                                /\ lookup[l].resp \in Lists
                                /\ e \in Entries
                                /\ Honest(lookup[l].user, e)
<1>1. CallOK(lookup[l])
  BY DEF IInv, CallsOK
<1>2. lookup[l].user \in Users /\ lookup[l].resp \in Lists
  BY <1>1 DEF CallOK
<1>3. lookup[l].start \in Int /\ now \in 0..MaxTime
  BY TimesAssumption DEF IInv, TypeOK, Records
<1>4. lastHeld[lookup[l].user][lookup[l].resp] \in Int
  BY <1>2 DEF IInv, TypeOK
<1>5. now <= lastHeld[lookup[l].user][lookup[l].resp] + ApiTimeout
  BY <1>1, <1>2, <1>3, <1>4, TimesAssumption DEF CallOK
<1>6. QED
  BY <1>2, <1>3, <1>5 DEF Entries, Honest

(* A step leaves the cache and its file of their type.                     *)
LEMMA StepCacheType == IInv /\ [Next]_vars => cache' \in Caches /\ disk' \in Caches
<1> SUFFICES ASSUME IInv, [Next]_vars
             PROVE  cache' \in Caches /\ disk' \in Caches
  OBVIOUS
<1>0. cache \in Caches /\ disk \in Caches
  BY DEF IInv, TypeOK
<1>1. CASE \E l \in Lookups : ReceiveAnswer(l)
  <2>1. PICK l \in Lookups : ReceiveAnswer(l)
    BY <1>1
  <2>2. [Principals |-> lookup[l].resp, FetchedAt |-> now] \in Entries
    BY <2>1, AnswerEntry DEF ReceiveAnswer
  <2>3. QED
    BY <1>0, <2>1, <2>2 DEF ReceiveAnswer, Caches
<1>2. CASE \E l \in Lookups : Truncate(l)
  BY <1>0, <1>2, ConstantsTyped DEF Truncate
<1>3. CASE \E l \in Lookups : Fill(l)
  <2>1. \A l \in Lookups : lookup[l].snap \in Caches
    BY DEF IInv, TypeOK, Records
  <2>2. QED
    BY <1>0, <1>3, <2>1, ConstantsTyped DEF Fill
<1>4. CASE Restart
  BY <1>0, <1>4 DEF Restart, LoadCache
<1>5. CASE UNCHANGED <<cache, disk>>
  BY <1>0, <1>5
<1>6. QED
  BY <1>1, <1>2, <1>3, <1>4, <1>5 DEF Next, vars, ChangeAcl, Tick, ServeFresh,
     StartCall, ServerReads, DaemonStep, ServeFallback, Deny, Marshal, WriteFails

(* A step leaves every lookup of its type.                                 *)
LEMMA StepLookupType == IInv /\ [Next]_vars => lookup' \in [Lookups -> Records]
<1> SUFFICES ASSUME IInv, [Next]_vars
             PROVE  lookup' \in [Lookups -> Records]
  OBVIOUS
<1> USE TimesAssumption
<1>0. /\ lookup \in [Lookups -> Records]
      /\ cache \in Caches
      /\ now \in 0..MaxTime
      /\ acl \in [Users -> Lists]
  BY DEF IInv, TypeOK
<1>1. CASE \E l \in Lookups, u \in Users : StartCall(l, u)
  <2>1. PICK l \in Lookups, u \in Users : StartCall(l, u)
    BY <1>1
  <2>2. cache[u] \in Entries \cup {NoEntry}
    BY <1>0 DEF Caches
  <2>3. [Idle EXCEPT !.pc = "calling", !.user = u, !.entry = cache[u],
                     !.start = now] \in Records
    BY <1>0, <2>2, ConstantsTyped DEF Records, PCs
  <2>4. QED
    BY <1>0, <2>1, <2>3 DEF StartCall
<1>2. CASE \E l \in Lookups : ServerReads(l)
  <2>1. PICK l \in Lookups : ServerReads(l)
    BY <1>2
  <2>2. lookup[l].user \in Users
    BY <2>1 DEF ServerReads, IInv, CallsOK, CallOK
  <2>3. acl[lookup[l].user] \in Lists
    BY <1>0, <2>2
  <2>4. [lookup[l] EXCEPT !.pc = "answered", !.resp = acl[lookup[l].user]]
           \in Records
    BY <1>0, <2>3 DEF Records, PCs
  <2>5. QED
    BY <1>0, <2>1, <2>4 DEF ServerReads
<1>3. CASE \E l \in Lookups : ReceiveAnswer(l)
  <2>1. [Idle EXCEPT !.pc = "marshal"] \in Records
    BY ConstantsTyped DEF Records, PCs
  <2>2. QED
    BY <1>0, <1>3, <2>1 DEF ReceiveAnswer
<1>4. CASE \E l \in Lookups : ServeFallback(l) \/ Deny(l) \/ Fill(l) \/ WriteFails(l)
  BY <1>0, <1>4, ConstantsTyped DEF ServeFallback, Deny, Fill, WriteFails
<1>5. CASE \E l \in Lookups : Marshal(l)
  <2>1. PICK l \in Lookups : Marshal(l)
    BY <1>5
  <2>2. [lookup[l] EXCEPT !.pc = "write", !.snap = cache] \in Records
    BY <1>0 DEF Records, PCs
  <2>3. QED
    BY <1>0, <2>1, <2>2 DEF Marshal
<1>6. CASE \E l \in Lookups : Truncate(l)
  <2>1. PICK l \in Lookups : Truncate(l)
    BY <1>6
  <2>2. [lookup[l] EXCEPT !.pc = "writing"] \in Records
    BY <1>0 DEF Records, PCs
  <2>3. QED
    BY <1>0, <2>1, <2>2 DEF Truncate
<1>7. CASE Restart
  BY <1>7, ConstantsTyped DEF Restart
<1>8. CASE UNCHANGED lookup
  BY <1>0, <1>8
<1>9. QED
  BY <1>1, <1>2, <1>3, <1>4, <1>5, <1>6, <1>7, <1>8
     DEF Next, vars, ChangeAcl, Tick, ServeFresh, DaemonStep

(* A lookup unchanged by a step other than Tick stays within its deadline, *)
(* and its answer stays as recent as it was.                               *)
LEMMA CallKept == ASSUME IInv, HeldMonotone,
                         lastHeld' \in [Users -> [Lists -> Int]],
                         NEW l \in Lookups, lookup'[l] = lookup[l], now' = now
                  PROVE  CallOK(lookup[l])'
<1>1. CallOK(lookup[l])
  BY DEF IInv, CallsOK
<1>2. lastHeld \in [Users -> [Lists -> Int]] /\ lookup[l].start \in Int
  BY DEF IInv, TypeOK, Records
<1>3. ASSUME lookup[l].user \in Users, lookup[l].resp \in Lists,
             lookup[l].start <= lastHeld[lookup[l].user][lookup[l].resp]
      PROVE  lookup[l].start <= lastHeld'[lookup[l].user][lookup[l].resp]
  <2>1. lastHeld[lookup[l].user][lookup[l].resp]
           <= lastHeld'[lookup[l].user][lookup[l].resp]
    BY <1>3 DEF HeldMonotone
  <2>2. QED
    BY <1>2, <1>3, <2>1
<1>4. QED
  BY <1>1, <1>3 DEF CallOK

(* A step keeps every call in flight within its deadline.                  *)
LEMMA StepCalls == IInv /\ [Next]_vars => CallsOK'
<1> SUFFICES ASSUME IInv, [Next]_vars, NEW l \in Lookups
             PROVE  CallOK(lookup[l])'
  BY DEF CallsOK
<1> USE TimesAssumption
<1>0. /\ HeldMonotone
      /\ lastHeld' \in [Users -> [Lists -> Int]]
      /\ lookup \in [Lookups -> Records]
      /\ now \in 0..MaxTime
      /\ CallOK(lookup[l])
  BY StepHeld DEF IInv, TypeOK, CallsOK
<1>1. CASE Tick
  <2>1. now' = now + 1 /\ lookup' = lookup
    BY <1>1 DEF Tick
  <2>2. lookup[l].start \in Int
    BY <1>0 DEF Records
  <2>3. lookup[l].pc \in {"calling", "answered"} =>
           now < lookup[l].start + ApiTimeout
    BY <1>1 DEF Tick
  <2>4. ASSUME lookup[l].user \in Users, lookup[l].resp \in Lists,
               lookup[l].start <= lastHeld[lookup[l].user][lookup[l].resp]
        PROVE  lookup[l].start <= lastHeld'[lookup[l].user][lookup[l].resp]
    <3>1. lastHeld[lookup[l].user][lookup[l].resp]
             <= lastHeld'[lookup[l].user][lookup[l].resp]
      BY <1>0, <2>4 DEF HeldMonotone
    <3>2. lastHeld[lookup[l].user][lookup[l].resp] \in Int
      BY <2>4 DEF IInv, TypeOK
    <3>3. QED
      BY <1>0, <2>2, <2>4, <3>1, <3>2
  <2>5. QED
    BY <1>0, <2>1, <2>2, <2>3, <2>4 DEF CallOK
<1>2. CASE \E m \in Lookups, u \in Users : StartCall(m, u)
  <2>1. PICK m \in Lookups, u \in Users : StartCall(m, u)
    BY <1>2
  <2>2. now' = now
    BY <2>1 DEF StartCall
  <2>3. CASE l = m
    BY <1>0, <2>1, <2>2, <2>3 DEF StartCall, CallOK, Idle
  <2>4. CASE l # m
    BY <1>0, <2>1, <2>2, <2>4, CallKept DEF StartCall
  <2>5. QED
    BY <2>3, <2>4
<1>3. CASE \E m \in Lookups : ServerReads(m)
  <2>1. PICK m \in Lookups : ServerReads(m)
    BY <1>3
  <2>2. now' = now /\ lastHeld' = lastHeld
    BY <2>1 DEF ServerReads
  <2>3. CASE l = m
    <3>1. lookup[l].user \in Users /\ lookup[l].start <= now
          /\ now <= lookup[l].start + ApiTimeout
      BY <1>0, <2>1, <2>3 DEF ServerReads, CallOK
    <3>2. lastHeld[lookup[l].user][acl[lookup[l].user]] = now
          /\ acl[lookup[l].user] \in Lists
      BY <3>1 DEF IInv, HeldOK, TypeOK
    <3>3. lookup'[l] = [lookup[l] EXCEPT !.pc = "answered",
                                         !.resp = acl[lookup[l].user]]
      BY <1>0, <2>1, <2>3 DEF ServerReads
    <3>4. /\ lookup'[l].user = lookup[l].user
          /\ lookup'[l].start = lookup[l].start
          /\ lookup'[l].resp = acl[lookup[l].user]
      BY <1>0, <3>3 DEF Records
    <3>5. QED
      BY <2>2, <3>1, <3>2, <3>4 DEF CallOK
  <2>4. CASE l # m
    BY <1>0, <2>1, <2>2, <2>4, CallKept DEF ServerReads
  <2>5. QED
    BY <2>3, <2>4
<1>4. CASE Restart
  BY <1>4, ConstantsTyped DEF Restart, CallOK
<1>5. CASE /\ now' = now
           /\ \/ lookup'[l] = lookup[l]
              \/ lookup'[l].pc \notin {"calling", "answered"}
  BY <1>0, <1>5, CallKept DEF CallOK
<1>6. CASE \E m \in Lookups : DaemonStep(m)
  <2>1. PICK m \in Lookups : DaemonStep(m)
    BY <1>6
  <2>2. now' = now /\ (l # m => lookup'[l] = lookup[l])
    BY <1>0, <2>1 DEF DaemonStep, ReceiveAnswer, ServeFallback, Deny, Marshal,
       Truncate, Fill, WriteFails
  <2>3. lookup'[m].pc \in {"idle", "marshal", "write", "writing"}
    BY <1>0, <2>1 DEF DaemonStep, ReceiveAnswer, ServeFallback, Deny, Marshal,
       Truncate, Fill, WriteFails, Idle, Records
  <2>4. QED
    BY <1>5, <2>2, <2>3
<1>7. QED
  BY <1>1, <1>2, <1>3, <1>4, <1>5, <1>6 DEF Next, vars, ChangeAcl, ServeFresh

(* The entries of c are honest by the server's history after a step.       *)
HonestAfter(c) ==
    \A u \in Users : c[u] # NoEntry =>
        c[u].FetchedAt <= lastHeld'[u][c[u].Principals] + ApiTimeout

(* A cache that was honest before a step still is, whoever holds it.       *)
LEMMA HonestCacheKept == ASSUME IInv, [Next]_vars
                         PROVE  \A c \in Caches : HonestCache(c) => HonestAfter(c)
<1> SUFFICES ASSUME NEW c \in Caches, HonestCache(c), NEW u \in Users
             PROVE  c[u] # NoEntry =>
                      c[u].FetchedAt <= lastHeld'[u][c[u].Principals] + ApiTimeout
  BY DEF HonestAfter
<1>1. c[u] \in Entries \cup {NoEntry} /\ Honest(u, c[u])
  BY DEF Caches, HonestCache
<1>2. /\ HeldMonotone
      /\ lastHeld \in [Users -> [Lists -> Int]]
      /\ lastHeld' \in [Users -> [Lists -> Int]]
  BY StepHeld DEF IInv, TypeOK
<1>3. QED
  BY <1>1, <1>2, HonestStep

(* What a step does to the user, the entry and the snapshot of a lookup.   *)
LEMMA LookupFrame ==
    ASSUME IInv, [Next]_vars, NEW l \in Lookups
    PROVE  \/ \E u \in Users : StartCall(l, u)
           \/ Marshal(l)
           \/ lookup'[l].user = None /\ lookup'[l].snap = Empty
           \/ /\ lookup'[l].user = lookup[l].user
              /\ lookup'[l].entry = lookup[l].entry
              /\ lookup'[l].snap = lookup[l].snap
<1>0. lookup \in [Lookups -> Records]
  BY DEF IInv, TypeOK
<1>1. CASE \E m \in Lookups, u \in Users : StartCall(m, u)
  BY <1>0, <1>1 DEF StartCall
<1>2. CASE \E m \in Lookups : ServerReads(m) \/ Truncate(m)
  <2>1. PICK m \in Lookups : ServerReads(m) \/ Truncate(m)
    BY <1>2
  <2>2. CASE m = l
    BY <1>0, <2>1, <2>2 DEF ServerReads, Truncate, Records
  <2>3. CASE m # l
    BY <1>0, <2>1, <2>3 DEF ServerReads, Truncate
  <2>4. QED
    BY <2>2, <2>3
<1>3. CASE \E m \in Lookups : \/ ReceiveAnswer(m) \/ ServeFallback(m) \/ Deny(m)
                              \/ Fill(m) \/ WriteFails(m)
  <2>1. PICK m \in Lookups : \/ ReceiveAnswer(m) \/ ServeFallback(m) \/ Deny(m)
                             \/ Fill(m) \/ WriteFails(m)
    BY <1>3
  <2>2. \/ lookup' = [lookup EXCEPT ![m] = Idle]
        \/ lookup' = [lookup EXCEPT ![m] = [Idle EXCEPT !.pc = "marshal"]]
    BY <2>1 DEF ReceiveAnswer, ServeFallback, Deny, Fill, WriteFails
  <2>3. QED
    BY <1>0, <2>2 DEF Idle
<1>4. CASE \E m \in Lookups : Marshal(m)
  BY <1>0, <1>4 DEF Marshal
<1>5. CASE Restart
  BY <1>5 DEF Restart, Idle
<1>6. CASE lookup' = lookup
  BY <1>6
<1>7. QED
  BY <1>1, <1>2, <1>3, <1>4, <1>5, <1>6
     DEF Next, vars, ChangeAcl, Tick, ServeFresh, DaemonStep

(* A step keeps the cache, its file and its snapshots honest.              *)
LEMMA StepHonest == IInv /\ [Next]_vars => CacheHonest'
<1> SUFFICES ASSUME IInv, [Next]_vars PROVE CacheHonest'
  OBVIOUS
<1> USE TimesAssumption
<1>0. /\ cache \in Caches /\ disk \in Caches
      /\ HonestCache(cache) /\ HonestCache(disk)
      /\ lookup \in [Lookups -> Records]
      /\ \A c \in Caches : HonestCache(c) => HonestAfter(c)
      /\ HonestAfter(Empty)
  BY HonestCacheKept, ConstantsTyped DEF IInv, TypeOK, CacheHonest
<1>1. \A l \in Lookups : lookup[l].snap \in Caches
                         /\ HonestCache(lookup[l].snap)
  BY <1>0 DEF IInv, CacheHonest, Records
<1>2. HonestAfter(cache')
  <2>1. CASE \E l \in Lookups : ReceiveAnswer(l)
    <3>1. PICK l \in Lookups : ReceiveAnswer(l)
      BY <2>1
    <3>2. /\ lookup[l].user \in Users
          /\ Honest(lookup[l].user, [Principals |-> lookup[l].resp,
                                     FetchedAt |-> now])
      BY <3>1, AnswerEntry DEF ReceiveAnswer
    <3>3. lastHeld' = lastHeld
      BY <3>1 DEF ReceiveAnswer
    <3>4. QED
      BY <1>0, <3>1, <3>2, <3>3 DEF ReceiveAnswer, HonestAfter, Honest, HonestCache,
         Caches
  <2>2. CASE Restart
    BY <1>0, <2>2 DEF Restart, LoadCache
  <2>3. CASE cache' = cache
    BY <1>0, <2>3
  <2>4. QED
    BY <2>1, <2>2, <2>3 DEF Next, vars, ChangeAcl, Tick, ServeFresh, StartCall,
       ServerReads, DaemonStep, ServeFallback, Deny, Marshal, Truncate, Fill,
       WriteFails
<1>3. HonestAfter(disk')
  <2>1. CASE \E l \in Lookups : Truncate(l) \/ Fill(l)
    BY <1>0, <1>1, <2>1 DEF Truncate, Fill
  <2>2. CASE disk' = disk
    BY <1>0, <2>2
  <2>3. QED
    BY <2>1, <2>2 DEF Next, vars, ChangeAcl, Tick, ServeFresh, StartCall,
       ServerReads, DaemonStep, ReceiveAnswer, ServeFallback, Deny, Marshal,
       WriteFails, Restart
<1>4. ASSUME NEW l \in Lookups
      PROVE  HonestAfter(lookup'[l].snap)
  <2>1. CASE Marshal(l)
    BY <1>0, <2>1 DEF Marshal, Records
  <2>2. CASE lookup'[l].snap = Empty
    BY <1>0, <2>2
  <2>3. CASE lookup'[l].snap = lookup[l].snap
    BY <1>0, <1>1, <2>3
  <2>4. CASE \E u \in Users : StartCall(l, u)
    BY <1>0, <2>2, <2>4 DEF StartCall, Idle
  <2>5. QED
    BY <2>1, <2>2, <2>3, <2>4, LookupFrame
<1>5. ASSUME NEW l \in Lookups, lookup'[l].user # None,
             lookup'[l].entry # NoEntry
      PROVE  lookup'[l].entry.FetchedAt <=
               lastHeld'[lookup'[l].user][lookup'[l].entry.Principals] + ApiTimeout
  <2>1. CASE \E u \in Users : StartCall(l, u)
    <3>1. PICK u \in Users : StartCall(l, u)
      BY <2>1
    <3>2. lookup'[l].user = u /\ lookup'[l].entry = cache[u]
      BY <1>0, <3>1 DEF StartCall, Idle
    <3>3. HonestAfter(cache)
      BY <1>0
    <3>4. QED
      BY <1>5, <3>2, <3>3 DEF HonestAfter
  <2>2. CASE /\ lookup'[l].user = lookup[l].user
             /\ lookup'[l].entry = lookup[l].entry
    <3>1. lookup[l].user \in Users
          /\ lookup[l].entry \in Entries \cup {NoEntry}
      BY <1>0, <1>5, <2>2 DEF Records
    <3>2. Honest(lookup[l].user, lookup[l].entry)
      BY <1>5, <2>2 DEF IInv, CacheHonest
    <3>3. /\ HeldMonotone
          /\ lastHeld \in [Users -> [Lists -> Int]]
          /\ lastHeld' \in [Users -> [Lists -> Int]]
      BY StepHeld DEF IInv, TypeOK
    <3>4. QED
      BY <1>5, <2>2, <3>1, <3>2, <3>3, HonestStep
  <2>3. CASE Marshal(l)
    BY <1>0, <2>2, <2>3 DEF Marshal, Records
  <2>4. QED
    BY <1>5, <2>1, <2>2, <2>3, LookupFrame
<1>6. QED
  BY <1>2, <1>3, <1>4, <1>5 DEF CacheHonest, HonestCache, Honest, HonestAfter

(* A step hands out only answers within the bounds.                        *)
LEMMA StepServed == IInv /\ [Next]_vars => /\ served' \in Answers \cup {None}
                                          /\ RevocationReachesHost'
                                          /\ OnlineLag'
<1> SUFFICES ASSUME IInv, [Next]_vars
             PROVE  /\ served' \in Answers \cup {None}
                    /\ RevocationReachesHost'
                    /\ OnlineLag'
  OBVIOUS
<1> USE TimesAssumption
<1>0. /\ now \in 0..MaxTime
      /\ lastHeld \in [Users -> [Lists -> Int]]
      /\ cache \in Caches
      /\ lookup \in [Lookups -> Records]
      /\ MinFresh + ApiTimeout <= StaleBound
      /\ CacheTTL + ApiTimeout <= StaleBound
      /\ StaleBound \in Int /\ OnlineBound \in Int
  BY DEF IInv, TypeOK, StaleBound, OnlineBound
<1>1. ASSUME NEW u \in Users, NEW e \in Entries \cup {NoEntry},
             NEW limit \in Int, Honest(u, e), Younger(e, limit)
      PROVE  /\ now - lastHeld[u][e.Principals] \in Int
             /\ now - lastHeld[u][e.Principals] < limit + ApiTimeout
  <2>1. e.Principals \in Lists /\ e.FetchedAt \in Int
    BY <1>1 DEF Younger, Entries
  <2>2. lastHeld[u][e.Principals] \in Int
    BY <1>0, <2>1
  <2>3. QED
    BY <1>0, <1>1, <2>1, <2>2 DEF Honest, Younger
<1>2. CASE \E l \in Lookups, u \in Users : ServeFresh(l, u)
  <2>1. PICK l \in Lookups, u \in Users : ServeFresh(l, u)
    BY <1>2
  <2>2. cache[u] \in Entries \cup {NoEntry} /\ Honest(u, cache[u])
    BY <1>0 DEF Caches, IInv, CacheHonest, HonestCache
  <2>3. /\ now - lastHeld[u][cache[u].Principals] \in Int
        /\ now - lastHeld[u][cache[u].Principals] < OnlineBound
    BY <1>1, <2>1, <2>2 DEF ServeFresh, OnlineBound
  <2>4. QED
    BY <1>0, <2>1, <2>3 DEF ServeFresh, Answer, Answers, RevocationReachesHost,
       OnlineLag, OnlineBound, StaleBound
<1>3. CASE \E l \in Lookups : ReceiveAnswer(l)
  <2>1. PICK l \in Lookups : ReceiveAnswer(l)
    BY <1>3
  <2>2. CallOK(lookup[l])
    BY DEF IInv, CallsOK
  <2>3. /\ lookup[l].user \in Users /\ lookup[l].resp \in Lists
        /\ lookup[l].start <= lastHeld[lookup[l].user][lookup[l].resp]
        /\ now <= lookup[l].start + ApiTimeout
    BY <2>1, <2>2 DEF ReceiveAnswer, CallOK
  <2>4. lastHeld[lookup[l].user][lookup[l].resp] \in Int
        /\ lookup[l].start \in Int
    BY <1>0, <2>3 DEF Records
  <2>5. /\ now - lastHeld[lookup[l].user][lookup[l].resp] \in Int
        /\ now - lastHeld[lookup[l].user][lookup[l].resp] < OnlineBound
    BY <1>0, <2>3, <2>4 DEF OnlineBound
  <2>6. QED
    BY <1>0, <2>1, <2>5 DEF ReceiveAnswer, Answer, Answers, RevocationReachesHost,
       OnlineLag, OnlineBound, StaleBound
<1>4. CASE \E l \in Lookups : ServeFallback(l)
  <2>1. PICK l \in Lookups : ServeFallback(l)
    BY <1>4
  <2>2. lookup[l].user \in Users /\ lookup[l].entry \in Entries \cup {NoEntry}
    BY <1>0, <2>1 DEF ServeFallback, IInv, CallsOK, CallOK, Records
  <2>3. Honest(lookup[l].user, lookup[l].entry)
    BY <2>2, NoneAssumption DEF IInv, CacheHonest
  <2>4. /\ now - lastHeld[lookup[l].user][lookup[l].entry.Principals] \in Int
        /\ now - lastHeld[lookup[l].user][lookup[l].entry.Principals]
             < CacheTTL + ApiTimeout
    BY <1>1, <2>1, <2>2, <2>3 DEF ServeFallback
  <2>5. QED
    BY <1>0, <2>1, <2>4 DEF ServeFallback, Answer, Answers,
       RevocationReachesHost, OnlineLag, StaleBound
<1>5. CASE served' = served
  BY <1>5 DEF IInv, TypeOK, RevocationReachesHost, OnlineLag, StaleBound,
     OnlineBound
<1>6. QED
  BY <1>2, <1>3, <1>4, <1>5 DEF Next, vars, ChangeAcl, Tick, StartCall,
     ServerReads, DaemonStep, Deny, Marshal, Truncate, Fill, WriteFails, Restart

(* IInv is inductive.                                                      *)
LEMMA NextIInv == IInv /\ [Next]_vars => IInv'
BY StepHeld, StepCacheType, StepLookupType, StepCalls, StepHonest, StepServed
   DEF IInv, TypeOK

(* Every reachable state satisfies IInv.                                   *)
THEOREM InvariantHolds == Spec => []IInv
BY InitIInv, NextIInv, PTL DEF Spec

(* The variables keep their types.                                         *)
THEOREM TypeCorrect == Spec => []TypeOK
<1>1. IInv => TypeOK
  BY DEF IInv
<1>2. QED
  BY InvariantHolds, <1>1, PTL

(* For any timeouts: sshd is never handed a list the server last held      *)
(* StaleBound or longer ago (daemon.go, principals).                       *)
THEOREM RevocationBound == Spec => []RevocationReachesHost
<1>1. IInv => RevocationReachesHost
  BY DEF IInv
<1>2. QED
  BY InvariantHolds, <1>1, PTL

(* For any timeouts: without a failed call, the lag stays below            *)
(* minFresh + apiTimeout.                                                  *)
THEOREM OnlineLagBound == Spec => []OnlineLag
<1>1. IInv => OnlineLag
  BY DEF IInv
<1>2. QED
  BY InvariantHolds, <1>1, PTL

(* No restart, late write or late answer makes an entry look younger than  *)
(* apiTimeout after the server's reading.                                  *)
THEOREM CacheHonestAlways == Spec => []CacheHonest
<1>1. IInv => CacheHonest
  BY DEF IInv
<1>2. QED
  BY InvariantHolds, <1>1, PTL
=============================================================================
