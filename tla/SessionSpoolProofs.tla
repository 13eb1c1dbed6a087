------------------------- MODULE SessionSpoolProofs -------------------------
(***************************************************************************)
(* Proofs about SessionSpool, for any number of events, sizes, batches and *)
(* faults: accepted events are accounted for, pending in order, and stored *)
(* twice only after a retry.                                               *)
(*                                                                         *)
(* The idea is that Pending - what the flush holds in memory, then the     *)
(* file - is one sequence that the flush loop only moves about: reading,   *)
(* clearing, splitting and writing back leave it as it is (FlushState says *)
(* where its parts are at every program point), handlers append to it, an  *)
(* acknowledgement removes a prefix that the server has dealt with         *)
(* (SentCovered), and a fault removes what it puts into lost.              *)
(***************************************************************************)
EXTENDS SessionSpool, SequenceTheorems, FiniteSetTheorems, TLAPS

Ordered(s) == \A i, j \in DOMAIN s : i < j => s[i].id < s[j].id

(* Where the pending events are, at every point of the flush.              *)
FlushState ==
    /\ flush.pc \in {"idle", "truncate"} => flush.batch = <<>> /\ flush.rest = <<>>
    /\ flush.pc = "truncate" => flush.raw = file
    /\ flush.pc = "clear" => flush.existing = file
    /\ flush.pc = "write" => file = <<>>
    /\ flush.pc \in {"send", "sent"} => flush.rest = <<>>
    /\ flush.pc \in {"truncate", "clear", "write"} => mu = "flush"

(* A call that broke off was a fault.                                      *)
CallsAreFaults == call <= faults

(* What has been sent is at the server, stored, or given up by it.         *)
SentCovered ==
    flush.pc = "sent" =>
        Ids(flush.batch) \subseteq Ids(server[call]) \cup Range(log) \cup lost

(* Only accepted events are pending.                                       *)
PendingKnown == Ids(Pending) \subseteq 1..last

(* The inductive invariant.                                                *)
SpoolInv == /\ TypeOK /\ FlushState /\ CallsAreFaults /\ SentCovered
            /\ PendingKnown /\ PendingOrdered /\ Accounted

-----------------------------------------------------------------------------
(* Sequences of events.                                                    *)

Flushes == [pc : {"idle", "truncate", "requeue", "clear", "write", "send", "sent"},
            raw : Seq(Events), batch : Seq(Events), rest : Seq(Events),
            existing : Seq(Events)]

LEMMA EmptyEvents == <<>> \in Seq(Events) /\ Len(<<>>) = 0
BY EmptySeq

LEMMA EventSequences ==
    ASSUME NEW s \in Seq(Events)
    PROVE  /\ Len(s) \in Nat /\ DOMAIN s = 1..Len(s)
           /\ \A i \in 1..Len(s) : s[i] \in Events /\ s[i].id \in 1..MaxEvents
<1>1. Len(s) \in Nat /\ s \in [1..Len(s) -> Events] /\ DOMAIN s = 1..Len(s)
    BY LenProperties
<1>2. \A e \in Events : e.id \in 1..MaxEvents
    BY DEF Events
<1> QED
    BY <1>1, <1>2

(* Ids, of nothing, of one event more, and of two sequences.               *)
LEMMA IdsEmpty == Ids(<<>>) = {}
<1>1. DOMAIN <<>> = {}
    BY EmptyEvents, EventSequences
<1> QED
    BY <1>1 DEF Ids

LEMMA IdsConcat ==
    ASSUME NEW s \in Seq(Events), NEW t \in Seq(Events)
    PROVE  Ids(s \o t) = Ids(s) \cup Ids(t)
<1>1. /\ s \o t \in Seq(Events)
      /\ Len(s \o t) = Len(s) + Len(t)
      /\ \A i \in 1 .. Len(s) + Len(t) : (s \o t)[i] =
                     IF i <= Len(s) THEN s[i] ELSE t[i - Len(s)]
    BY ConcatProperties
<1>2. /\ DOMAIN s = 1..Len(s) /\ DOMAIN t = 1..Len(t)
      /\ DOMAIN (s \o t) = 1..(Len(s) + Len(t))
      /\ Len(s) \in Nat /\ Len(t) \in Nat
    BY <1>1, EventSequences
<1>3. ASSUME NEW e \in Ids(s \o t) PROVE e \in Ids(s) \cup Ids(t)
    <2>1. PICK i \in 1..(Len(s) + Len(t)) : e = (s \o t)[i].id
        BY <1>2 DEF Ids
    <2>2. CASE i <= Len(s)
        <3>1. i \in DOMAIN s /\ e = s[i].id
            BY <2>1, <2>2, <1>1, <1>2
        <3> QED
            BY <3>1 DEF Ids
    <2>3. CASE ~(i <= Len(s))
        <3>1. i - Len(s) \in DOMAIN t /\ e = t[i - Len(s)].id
            BY <2>1, <2>3, <1>1, <1>2
        <3> QED
            BY <3>1 DEF Ids
    <2> QED
        BY <2>2, <2>3
<1>4. ASSUME NEW e \in Ids(s) PROVE e \in Ids(s \o t)
    <2>1. PICK i \in 1..Len(s) : e = s[i].id
        BY <1>2 DEF Ids
    <2>2. i \in DOMAIN (s \o t) /\ (s \o t)[i] = s[i]
        BY <1>1, <1>2
    <2> QED
        BY <2>1, <2>2 DEF Ids
<1>5. ASSUME NEW e \in Ids(t) PROVE e \in Ids(s \o t)
    <2>1. PICK i \in 1..Len(t) : e = t[i].id
        BY <1>2 DEF Ids
    <2>2. i + Len(s) \in 1..(Len(s) + Len(t)) /\ ~(i + Len(s) <= Len(s))
          /\ (i + Len(s)) - Len(s) = i
        BY <1>2
    <2>3. i + Len(s) \in DOMAIN (s \o t) /\ (s \o t)[i + Len(s)] = t[i]
        BY <1>1, <1>2, <2>2
    <2> QED
        BY <2>1, <2>3 DEF Ids
<1> QED
    BY <1>3, <1>4, <1>5

LEMMA IdsAppend ==
    ASSUME NEW s \in Seq(Events), NEW e \in Events
    PROVE  Ids(Append(s, e)) = Ids(s) \cup {e.id}
<1>1. /\ Append(s, e) \in Seq(Events) /\ Len(Append(s, e)) = Len(s) + 1
      /\ \A i \in 1..Len(s) : Append(s, e)[i] = s[i]
      /\ Append(s, e)[Len(s) + 1] = e
    BY AppendProperties
<1>2. /\ DOMAIN s = 1..Len(s) /\ Len(s) \in Nat
      /\ DOMAIN Append(s, e) = 1..(Len(s) + 1)
    BY <1>1, EventSequences
<1>3. 1..(Len(s) + 1) = (1..Len(s)) \cup {Len(s) + 1}
    BY <1>2
<1> QED
    BY <1>1, <1>2, <1>3 DEF Ids

LEMMA IdsHeadTail ==
    ASSUME NEW s \in Seq(Events), s # <<>>
    PROVE  /\ Head(s) \in Events /\ Tail(s) \in Seq(Events)
           /\ Ids(s) = {Head(s).id} \cup Ids(Tail(s))
<1>1. /\ Head(s) \in Events /\ Tail(s) \in Seq(Events) /\ Len(Tail(s)) = Len(s) - 1
      /\ \A i \in 1..Len(Tail(s)) : Tail(s)[i] = s[i + 1]
    BY HeadTailProperties
<1>2. Len(s) \in Nat \ {0} /\ Head(s) = s[1]
    BY EmptySeq
<1>3. DOMAIN s = 1..Len(s) /\ DOMAIN Tail(s) = 1..(Len(s) - 1)
    BY <1>1, EventSequences
<1>4. ASSUME NEW e \in Ids(s) PROVE e \in {Head(s).id} \cup Ids(Tail(s))
    <2>1. PICK i \in 1..Len(s) : e = s[i].id
        BY <1>3 DEF Ids
    <2>2. CASE i = 1
        BY <2>1, <2>2, <1>2
    <2>3. CASE i # 1
        <3>1. i - 1 \in DOMAIN Tail(s) /\ (i - 1) + 1 = i
            BY <2>3, <1>2, <1>3
        <3>2. Tail(s)[i - 1] = s[i]
            BY <3>1, <1>1, <1>3
        <3> QED
            BY <2>1, <3>1, <3>2 DEF Ids
    <2> QED
        BY <2>2, <2>3
<1>5. Head(s).id \in Ids(s)
    BY <1>2, <1>3 DEF Ids
<1>6. ASSUME NEW e \in Ids(Tail(s)) PROVE e \in Ids(s)
    <2>1. PICK i \in 1..(Len(s) - 1) : e = Tail(s)[i].id
        BY <1>3 DEF Ids
    <2>2. i + 1 \in DOMAIN s /\ Tail(s)[i] = s[i + 1]
        BY <1>1, <1>2, <1>3
    <2> QED
        BY <2>1, <2>2 DEF Ids
<1> QED
    BY <1>1, <1>4, <1>5, <1>6

(* The parts of an ordered sequence are ordered.                           *)
LEMMA OrderedParts ==
    ASSUME NEW s \in Seq(Events), NEW t \in Seq(Events), Ordered(s \o t)
    PROVE  /\ Ordered(s) /\ Ordered(t)
           /\ Ids(s) \cap Ids(t) = {}
<1>1. /\ s \o t \in Seq(Events)
      /\ Len(s \o t) = Len(s) + Len(t)
      /\ \A i \in 1 .. Len(s) + Len(t) : (s \o t)[i] =
                     IF i <= Len(s) THEN s[i] ELSE t[i - Len(s)]
    BY ConcatProperties
<1>2. /\ DOMAIN s = 1..Len(s) /\ DOMAIN t = 1..Len(t)
      /\ DOMAIN (s \o t) = 1..(Len(s) + Len(t))
      /\ Len(s) \in Nat /\ Len(t) \in Nat
    BY <1>1, EventSequences
<1>3. \A i \in 1..Len(s) : i \in DOMAIN (s \o t) /\ (s \o t)[i] = s[i]
    BY <1>1, <1>2
<1>4. ASSUME NEW i \in 1..Len(t)
      PROVE  i + Len(s) \in DOMAIN (s \o t) /\ (s \o t)[i + Len(s)] = t[i]
    <2>1. /\ i + Len(s) \in 1..(Len(s) + Len(t)) /\ ~(i + Len(s) <= Len(s))
          /\ (i + Len(s)) - Len(s) = i
        BY <1>2
    <2> QED
        BY <2>1, <1>1, <1>2
<1>5. Ordered(s)
    BY <1>2, <1>3 DEF Ordered
<1>6. Ordered(t)
    <2> SUFFICES ASSUME NEW i \in 1..Len(t), NEW j \in 1..Len(t), i < j
                 PROVE  t[i].id < t[j].id
        BY <1>2 DEF Ordered
    <2>1. i + Len(s) < j + Len(s)
        BY <1>2
    <2> QED
        BY <1>4, <2>1 DEF Ordered
<1>7. ASSUME NEW e \in Ids(s), e \in Ids(t) PROVE FALSE
    <2>1. PICK i \in 1..Len(s) : e = s[i].id
        BY <1>2 DEF Ids
    <2>2. PICK j \in 1..Len(t) : e = t[j].id
        BY <1>2, <1>7 DEF Ids
    <2>3. i < j + Len(s)
        BY <1>2
    <2>4. e < e
        BY <1>3, <1>4, <2>1, <2>2, <2>3 DEF Ordered
    <2>5. e \in Nat
        BY <2>1, EventSequences
    <2> QED
        BY <2>4, <2>5
<1> QED
    BY <1>5, <1>6, <1>7

LEMMA OrderedAppend ==
    ASSUME NEW s \in Seq(Events), Ordered(s), NEW e \in Events,
           \A x \in Ids(s) : x < e.id
    PROVE  Ordered(Append(s, e))
<1>1. /\ Append(s, e) \in Seq(Events) /\ Len(Append(s, e)) = Len(s) + 1
      /\ \A i \in 1..Len(s) : Append(s, e)[i] = s[i]
      /\ Append(s, e)[Len(s) + 1] = e
    BY AppendProperties
<1>2. /\ DOMAIN s = 1..Len(s) /\ Len(s) \in Nat
      /\ DOMAIN Append(s, e) = 1..(Len(s) + 1)
    BY <1>1, EventSequences
<1> SUFFICES ASSUME NEW i \in 1..(Len(s) + 1), NEW j \in 1..(Len(s) + 1), i < j
             PROVE  Append(s, e)[i].id < Append(s, e)[j].id
    BY <1>2 DEF Ordered
<1>3. i \in 1..Len(s) /\ (j \in 1..Len(s) \/ j = Len(s) + 1)
    BY <1>2
<1>4. s[i].id \in Ids(s)
    BY <1>2, <1>3 DEF Ids
<1> QED
    BY <1>1, <1>2, <1>3, <1>4 DEF Ordered

LEMMA OrderedTail ==
    ASSUME NEW s \in Seq(Events), s # <<>>, Ordered(s)
    PROVE  Ordered(Tail(s)) /\ Head(s).id \notin Ids(Tail(s))
<1>1. /\ Tail(s) \in Seq(Events) /\ Len(Tail(s)) = Len(s) - 1
      /\ \A i \in 1..Len(Tail(s)) : Tail(s)[i] = s[i + 1]
    BY HeadTailProperties
<1>2. Len(s) \in Nat \ {0} /\ Head(s) = s[1]
    BY EmptySeq
<1>3. DOMAIN s = 1..Len(s) /\ DOMAIN Tail(s) = 1..(Len(s) - 1)
    BY <1>1, EventSequences
<1>4. \A i \in 1..(Len(s) - 1) : i + 1 \in DOMAIN s /\ Tail(s)[i] = s[i + 1]
    BY <1>1, <1>2, <1>3
<1>5. Ordered(Tail(s))
    <2> SUFFICES ASSUME NEW i \in 1..(Len(s) - 1), NEW j \in 1..(Len(s) - 1), i < j
                 PROVE  s[i + 1].id < s[j + 1].id
        BY <1>3, <1>4 DEF Ordered
    <2> QED
        BY <1>4 DEF Ordered
<1>6. ASSUME Head(s).id \in Ids(Tail(s)) PROVE FALSE
    <2>1. PICK i \in 1..(Len(s) - 1) : s[1].id = s[i + 1].id
        BY <1>2, <1>3, <1>4, <1>6 DEF Ids
    <2>2. 1 < i + 1 /\ 1 \in DOMAIN s /\ i + 1 \in DOMAIN s
        BY <1>2, <1>3
    <2>3. s[1].id < s[i + 1].id /\ s[1].id \in Nat
        BY <2>2, EventSequences, <1>3 DEF Ordered
    <2> QED
        BY <2>1, <2>3
<1> QED
    BY <1>5, <1>6

-----------------------------------------------------------------------------
(* The flush and its parts.                                                *)

LEMMA IdleFields ==
    /\ Idle \in Flushes /\ Idle.pc = "idle"
    /\ Idle.raw = <<>> /\ Idle.batch = <<>> /\ Idle.rest = <<>> /\ Idle.existing = <<>>
BY EmptyEvents DEF Idle, Flushes

LEMMA FlushParts ==
    ASSUME TypeOK
    PROVE  /\ flush \in Flushes
           /\ flush.raw \in Seq(Events) /\ flush.batch \in Seq(Events)
           /\ flush.rest \in Seq(Events) /\ flush.existing \in Seq(Events)
           /\ file \in Seq(Events)
<1>1. flush \in Flushes /\ file \in Seq(Events)
    BY DEF TypeOK, Flushes
<1> QED
    BY <1>1 DEF Flushes

(* Pending, by its parts.                                                  *)
HeldBy(f) == f.batch \o f.rest \o (IF f.pc = "write" THEN f.existing ELSE <<>>)

PendingPartsOf(f, s, held, pending) ==
    /\ held \in Seq(Events) /\ pending \in Seq(Events)
    /\ pending = held \o s
    /\ f.pc # "write" => held = f.batch \o f.rest
    /\ f.pc = "write" => held = (f.batch \o f.rest) \o f.existing
    /\ f.pc # "write" /\ f.rest = <<>> => held = f.batch
    /\ f.pc # "write" /\ f.batch = <<>> /\ f.rest = <<>> => held = <<>> /\ pending = s

LEMMA PartsOfPending ==
    ASSUME NEW f \in Flushes, NEW s \in Seq(Events)
    PROVE  PendingPartsOf(f, s, HeldBy(f), HeldBy(f) \o s)
<1>1. /\ f.batch \in Seq(Events) /\ f.rest \in Seq(Events)
      /\ f.existing \in Seq(Events) /\ <<>> \in Seq(Events)
    BY EmptyEvents DEF Flushes
<1>2. f.batch \o f.rest \in Seq(Events)
    BY <1>1, ConcatProperties
<1>3. f.pc # "write" => HeldBy(f) = f.batch \o f.rest
    BY <1>2, ConcatEmptySeq DEF HeldBy
<1>4. f.pc = "write" => HeldBy(f) = (f.batch \o f.rest) \o f.existing
    BY DEF HeldBy
<1>5. (f.batch \o f.rest) \o f.existing \in Seq(Events)
    BY <1>1, <1>2, ConcatProperties
<1>6. HeldBy(f) \in Seq(Events)
    BY <1>2, <1>3, <1>4, <1>5
<1>7. HeldBy(f) \o s \in Seq(Events)
    BY <1>6, ConcatProperties
<1>8. f.rest = <<>> => f.batch \o f.rest = f.batch
    BY <1>1, ConcatEmptySeq
<1>9. <<>> \o s = s
    BY ConcatEmptySeq
<1> QED
    BY <1>3, <1>4, <1>6, <1>7, <1>8, <1>9 DEF PendingPartsOf

LEMMA PendingParts ==
    ASSUME TypeOK
    PROVE  PendingPartsOf(flush, file, Held, Pending)
<1>1. Held = HeldBy(flush) /\ Pending = HeldBy(flush) \o file
    BY DEF Held, Pending, HeldBy
<1> QED
    BY <1>1, FlushParts, PartsOfPending

LEMMA PendingPartsNext ==
    ASSUME TypeOK'
    PROVE  PendingPartsOf(flush', file', Held', Pending')
<1>1. Held' = HeldBy(flush') /\ Pending' = HeldBy(flush') \o file'
    BY DEF Held, Pending, HeldBy
<1>2. flush' \in Flushes /\ file' \in Seq(Events)
    BY DEF TypeOK, Flushes
<1> QED
    BY <1>1, <1>2, PartsOfPending

(* A flush that only changes its program counter or its parts has a type.  *)
LEMMA FlushTyped ==
    ASSUME TypeOK, flush' \in Flushes, Len(flush'.batch) <= MaxBatch,
           file' \in Seq(Events), torn' \in BOOLEAN, mu' \in {"free", "flush"},
           call' \in Calls, server' \in [Calls -> Seq(Events)],
           log' \in Seq(1..MaxEvents), last' \in 0..MaxEvents,
           lost' \subseteq 1..MaxEvents, faults' \in 0..MaxFaults
    PROVE  TypeOK'
BY DEF TypeOK, Flushes

LEMMA InitSpoolInv == Init => SpoolInv
<1> SUFFICES ASSUME Init PROVE SpoolInv
    OBVIOUS
<1>1. flush = Idle /\ file = <<>> /\ log = <<>> /\ last = 0
    BY DEF Init
<1>2. TypeOK
    <2>1. Idle \in Flushes /\ Len(Idle.batch) = 0
        BY IdleFields, EmptyEvents
    <2>2. /\ 0 \in Calls /\ 0 \in 0..MaxEvents /\ 0 \in 0..MaxFaults /\ 0 <= MaxBatch
        BY SpoolAssumption DEF Calls
    <2>3. <<>> \in Seq(1..MaxEvents) /\ [c \in Calls |-> <<>>] \in [Calls -> Seq(Events)]
        BY EmptyEvents, EmptySeq
    <2> QED
        BY <2>1, <2>2, <2>3, EmptyEvents DEF Init, TypeOK, Flushes
<1>3. FlushState /\ SentCovered
    BY <1>1, IdleFields DEF FlushState, SentCovered
<1>4. CallsAreFaults
    BY DEF Init, CallsAreFaults
<1>5. Pending = <<>>
    BY <1>1, <1>2, IdleFields, PendingParts DEF PendingPartsOf
<1>6. DOMAIN Pending = {}
    BY <1>5, EmptyEvents, EventSequences
<1>7. PendingKnown /\ PendingOrdered
    BY <1>5, <1>6, IdsEmpty DEF PendingKnown, PendingOrdered
<1>8. Accounted
    BY <1>1 DEF Accounted
<1> QED
    BY <1>2, <1>3, <1>4, <1>7, <1>8 DEF SpoolInv

(* Steps that leave the pending events alone, and forget nothing.          *)
LEMMA PendingKept ==
    ASSUME SpoolInv, Pending' = Pending, last' = last,
           Range(log) \cup lost \subseteq (Range(log) \cup lost)'
    PROVE  PendingKnown' /\ PendingOrdered' /\ Accounted'
<1>1. Ids(Pending)' = Ids(Pending)
    BY DEF Ids
<1> QED
    BY <1>1 DEF SpoolInv, PendingKnown, PendingOrdered, Accounted

(* An event is pending once more, behind all others.                       *)
LEMMA AppendStep ==
    ASSUME SpoolInv, NEW z \in Sizes, SpoolAppend(z)
    PROVE  SpoolInv' /\ Ids(Pending') \subseteq Ids(Pending) \cup {last + 1}
<1> DEFINE e == [id |-> last + 1, size |-> z]
<1>1. /\ mu = "free" /\ last < MaxEvents /\ last' = last + 1 /\ torn' = FALSE
      /\ file' = (IF torn THEN file ELSE Append(file, e))
      /\ lost' = (IF torn THEN lost \cup {e.id} ELSE lost)
      /\ mu' = mu /\ flush' = flush /\ call' = call /\ server' = server
      /\ log' = log /\ faults' = faults
    BY DEF SpoolAppend, AppendLine
<1>2. TypeOK
    BY DEF SpoolInv
<1>3. last \in Nat /\ last + 1 \in 1..MaxEvents
    BY <1>1, <1>2, SpoolAssumption DEF TypeOK
<1>4. e \in Events /\ e.id = last + 1
    BY <1>3 DEF Events
<1> HIDE DEF e
<1>5. Append(file, e) \in Seq(Events)
    BY <1>2, <1>4, AppendProperties DEF TypeOK
<1>6. TypeOK'
    <2>1. file' \in Seq(Events) /\ last' \in 0..MaxEvents /\ lost' \subseteq 1..MaxEvents
        BY <1>1, <1>2, <1>3, <1>4, <1>5 DEF TypeOK
    <2> QED
        BY <1>1, <1>2, <2>1 DEF TypeOK
<1>7. flush.pc \notin {"truncate", "clear", "write"}
    BY <1>1 DEF SpoolInv, FlushState
<1>8. FlushState' /\ CallsAreFaults'
    BY <1>1, <1>7 DEF SpoolInv, FlushState, CallsAreFaults
<1>9. SentCovered'
    BY <1>1 DEF SpoolInv, SentCovered
<1>10. Held' = Held /\ Held \in Seq(Events) /\ file \in Seq(Events)
    BY <1>1, <1>2, PendingParts DEF PendingPartsOf, Held, TypeOK
<1>11. CASE torn
    <2>1. Pending' = Pending
        BY <1>1, <1>10, <1>11 DEF Pending
    <2>2. Ids(Pending)' = Ids(Pending)
        BY <2>1 DEF Ids
    <2>3. 1..last' = 1..last \cup {last + 1}
        BY <1>1, <1>3
    <2>4. lost' = lost \cup {last + 1}
        BY <1>1, <1>4, <1>11
    <2>5. PendingKnown' /\ PendingOrdered'
        BY <2>1, <2>2, <2>3 DEF SpoolInv, PendingKnown, PendingOrdered
    <2>6. Accounted'
        BY <1>1, <2>2, <2>3, <2>4 DEF SpoolInv, Accounted
    <2> QED
        BY <1>6, <1>8, <1>9, <2>1, <2>5, <2>6 DEF SpoolInv
<1>12. CASE ~torn
    <2>1. Pending' = Held \o Append(file, e)
        BY <1>1, <1>10, <1>12 DEF Pending
    <2>2. <<e>> \in Seq(Events) /\ Append(file, e) = file \o <<e>>
        BY <1>4, <1>10, AppendIsConcat
    <2>3. Pending \in Seq(Events) /\ Pending = Held \o file
        BY <1>2, PendingParts DEF PendingPartsOf
    <2>4. Pending' = Pending \o <<e>>
        BY <2>1, <2>2, <2>3, <1>10, ConcatAssociative
    <2>5. Pending' = Append(Pending, e)
        BY <2>3, <2>4, <1>4, AppendIsConcat
    <2>6. Ids(Pending') = Ids(Pending) \cup {last + 1}
        BY <2>3, <2>5, <1>4, IdsAppend
    <2>7. Ids(Pending)' = Ids(Pending) \cup {last + 1}
        BY <2>6 DEF Ids
    <2>8. 1..last' = 1..last \cup {last + 1}
        BY <1>1, <1>3
    <2>9. PendingKnown'
        BY <2>7, <2>8 DEF SpoolInv, PendingKnown
    <2>10. \A x \in Ids(Pending) : x < e.id
        BY <1>3, <1>4 DEF SpoolInv, PendingKnown
    <2>11. Ordered(Pending)
        BY DEF SpoolInv, PendingOrdered, Ordered
    <2>12. Ordered(Append(Pending, e))
        BY <2>3, <2>10, <2>11, <1>4, OrderedAppend
    <2>13. PendingOrdered'
        BY <2>5, <2>12 DEF PendingOrdered, Ordered
    <2>14. Accounted'
        BY <1>1, <1>12, <2>7, <2>8 DEF SpoolInv, Accounted
    <2> QED
        BY <1>6, <1>8, <1>9, <2>6, <2>9, <2>13, <2>14 DEF SpoolInv
<1> QED
    BY <1>11, <1>12

(* A broken append leaves part of a line.                                  *)
LEMMA AppendFailsStep ==
    ASSUME SpoolInv, SpoolAppendFails
    PROVE  SpoolInv' /\ Pending' = Pending
<1>1. /\ torn' = TRUE /\ faults < MaxFaults /\ faults' = faults + 1
      /\ file' = file /\ mu' = mu /\ flush' = flush /\ call' = call
      /\ server' = server /\ log' = log /\ last' = last /\ lost' = lost
    BY DEF SpoolAppendFails, Fault
<1>2. TypeOK' /\ CallsAreFaults'
    BY <1>1, SpoolAssumption DEF SpoolInv, TypeOK, CallsAreFaults, Calls
<1>3. FlushState' /\ SentCovered'
    BY <1>1 DEF SpoolInv, FlushState, SentCovered
<1>4. Pending' = Pending
    BY <1>1 DEF Pending, Held
<1> QED
    BY <1>1, <1>2, <1>3, <1>4, PendingKept DEF SpoolInv

(* flushSpool reads the file.                                              *)
LEMMA FlushReadStep ==
    ASSUME SpoolInv, FlushRead
    PROVE  SpoolInv' /\ Pending' = Pending
<1> DEFINE next == [Idle EXCEPT !.pc = "truncate", !.raw = file]
<1>1. /\ flush.pc = "idle" /\ flush' = next /\ mu' = "flush"
      /\ file' = file /\ torn' = torn /\ call' = call /\ server' = server
      /\ log' = log /\ last' = last /\ lost' = lost /\ faults' = faults
    BY DEF FlushRead
<1>2. TypeOK /\ file \in Seq(Events)
    BY DEF SpoolInv, TypeOK
<1>3. /\ next \in Flushes /\ next.pc = "truncate" /\ next.raw = file
      /\ next.batch = <<>> /\ next.rest = <<>>
    BY <1>2, IdleFields DEF Flushes
<1> HIDE DEF next
<1>4. TypeOK'
    <2>1. Len(next.batch) <= MaxBatch
        BY <1>3, EmptyEvents, SpoolAssumption
    <2> QED
        BY <1>1, <1>2, <1>3, <2>1, FlushTyped DEF TypeOK
<1>5. FlushState' /\ SentCovered' /\ CallsAreFaults'
    BY <1>1, <1>3 DEF SpoolInv, FlushState, SentCovered, CallsAreFaults
<1>6. Pending = file
    BY <1>1, <1>2, PendingParts DEF PendingPartsOf, SpoolInv, FlushState
<1>7. Pending' = file
    <2>1. Pending' = file'
        BY <1>4, <1>1, <1>3, PendingPartsNext DEF PendingPartsOf
    <2> QED
        BY <2>1, <1>1
<1> QED
    BY <1>1, <1>4, <1>5, <1>6, <1>7, PendingKept DEF SpoolInv

(* A file that cannot be cleared is left alone.                            *)
LEMMA TruncateFailsStep ==
    ASSUME SpoolInv, TruncateFails
    PROVE  SpoolInv' /\ Pending' = Pending
<1>1. /\ flush.pc = "truncate" /\ flush' = Idle /\ mu' = "free"
      /\ faults < MaxFaults /\ faults' = faults + 1
      /\ file' = file /\ torn' = torn /\ call' = call /\ server' = server
      /\ log' = log /\ last' = last /\ lost' = lost
    BY DEF TruncateFails, Fault
<1>2. TypeOK /\ file \in Seq(Events)
    BY DEF SpoolInv, TypeOK
<1>3. TypeOK' /\ CallsAreFaults'
    <2>1. Len(Idle.batch) <= MaxBatch
        BY IdleFields, EmptyEvents, SpoolAssumption
    <2>2. faults' \in 0..MaxFaults /\ CallsAreFaults'
        BY <1>1, <1>2, SpoolAssumption DEF TypeOK, SpoolInv, CallsAreFaults, Calls
    <2> QED
        BY <1>1, <1>2, <2>1, <2>2, IdleFields, FlushTyped DEF TypeOK
<1>4. FlushState' /\ SentCovered'
    BY <1>1, IdleFields DEF SpoolInv, FlushState, SentCovered
<1>5. Pending = file
    BY <1>1, <1>2, PendingParts DEF PendingPartsOf, SpoolInv, FlushState
<1>6. Pending' = file
    <2>1. Pending' = file'
        BY <1>3, <1>1, IdleFields, PendingPartsNext DEF PendingPartsOf
    <2> QED
        BY <2>1, <1>1
<1> QED
    BY <1>1, <1>3, <1>4, <1>5, <1>6, PendingKept DEF SpoolInv

(* Batch and remainder are together what was read.                         *)
LEMMA Split ==
    ASSUME NEW raw \in Seq(Events), NEW n \in 0..Len(raw)
    PROVE  /\ SubSeq(raw, 1, n) \in Seq(Events)
           /\ SubSeq(raw, n + 1, Len(raw)) \in Seq(Events)
           /\ Len(SubSeq(raw, 1, n)) = n
           /\ SubSeq(raw, 1, n) \o SubSeq(raw, n + 1, Len(raw)) = raw
           /\ n = 0 => SubSeq(raw, 1, n) = <<>>
           /\ n = Len(raw) => SubSeq(raw, n + 1, Len(raw)) = <<>>
<1>1. Len(raw) \in Nat /\ \A i \in 1..Len(raw) : raw[i] \in Events
    BY EventSequences
<1>2. SubSeq(raw, 1, n) \in Seq(Events) /\ Len(SubSeq(raw, 1, n)) = n
    <2>1. \A i \in 1..n : raw[i] \in Events
        BY <1>1
    <2>2. /\ SubSeq(raw, 1, n) \in Seq(Events)
          /\ Len(SubSeq(raw, 1, n)) = IF 1 <= n THEN n - 1 + 1 ELSE 0
        BY <2>1, <1>1, SubSeqProperties
    <2> QED
        BY <2>2, <1>1
<1>3. SubSeq(raw, n + 1, Len(raw)) \in Seq(Events)
    <2>1. \A i \in (n + 1)..Len(raw) : raw[i] \in Events
        BY <1>1
    <2>2. n + 1 \in Int /\ Len(raw) \in Int
        BY <1>1
    <2> QED
        BY <2>1, <2>2, SubSeqProperties
<1>4. SubSeq(raw, 1, n) \o SubSeq(raw, n + 1, Len(raw)) = SubSeq(raw, 1, Len(raw))
    <2>1. 1 \in 1..(Len(raw) + 1) /\ n \in (1 - 1)..Len(raw) /\ Len(raw) \in n..Len(raw)
        BY <1>1
    <2> QED
        BY <2>1, ConcatAdjacentSubSeq
<1>5. SubSeq(raw, 1, Len(raw)) = raw
    BY SubSeqFull
<1>6. n = 0 => SubSeq(raw, 1, n) = <<>>
    BY SubSeqEmpty
<1>7. n = Len(raw) => SubSeq(raw, n + 1, Len(raw)) = <<>>
    <2>1. n \in Int /\ n + 1 \in Int /\ n < n + 1
        BY <1>1
    <2> QED
        BY <2>1, SubSeqEmpty
<1> QED
    BY <1>2, <1>3, <1>4, <1>5, <1>6, <1>7

(* The file is cleared; what was in it is in memory.                       *)
LEMMA FlushTruncateStep ==
    ASSUME SpoolInv, FlushTruncate
    PROVE  SpoolInv' /\ Pending' = Pending
<1> DEFINE raw == flush.raw
           n == IF Len(raw) > MaxBatch THEN MaxBatch ELSE Len(raw)
           next == [Idle EXCEPT !.pc = IF n = 0 THEN "idle"
                                       ELSE IF n < Len(raw) THEN "requeue"
                                       ELSE "send",
                                !.batch = SubSeq(raw, 1, n),
                                !.rest = SubSeq(raw, n + 1, Len(raw))]
<1>1. /\ flush.pc = "truncate" /\ file' = <<>> /\ torn' = FALSE /\ mu' = "free"
      /\ flush' = next
      /\ call' = call /\ server' = server
      /\ log' = log /\ last' = last /\ lost' = lost /\ faults' = faults
    BY DEF FlushTruncate
<1>2. TypeOK /\ raw \in Seq(Events) /\ raw = file
    BY <1>1, FlushParts DEF SpoolInv, FlushState
<1>3. /\ Len(raw) \in Nat /\ n \in 0..Len(raw) /\ n <= MaxBatch
      /\ n = 0 => Len(raw) = 0
    BY <1>2, EventSequences, SpoolAssumption
<1> HIDE DEF n
<1>4. /\ SubSeq(raw, 1, n) \in Seq(Events) /\ Len(SubSeq(raw, 1, n)) = n
      /\ SubSeq(raw, n + 1, Len(raw)) \in Seq(Events)
      /\ SubSeq(raw, 1, n) \o SubSeq(raw, n + 1, Len(raw)) = raw
      /\ n = 0 => SubSeq(raw, 1, n) = <<>>
      /\ n = Len(raw) => SubSeq(raw, n + 1, Len(raw)) = <<>>
    BY <1>2, <1>3, Split
<1> HIDE DEF raw
<1>5. /\ next \in Flushes
      /\ next.batch = SubSeq(raw, 1, n) /\ next.rest = SubSeq(raw, n + 1, Len(raw))
      /\ next.pc \in {"idle", "requeue", "send"}
      /\ next.pc = "idle" => n = 0
      /\ next.pc = "send" => ~(n < Len(raw))
    BY <1>4, IdleFields DEF Flushes
<1> HIDE DEF next
<1>6. /\ next.batch \in Seq(Events) /\ next.rest \in Seq(Events)
      /\ next.batch \o next.rest = file
      /\ Len(next.batch) <= MaxBatch
      /\ next.pc = "idle" => next.batch = <<>> /\ next.rest = <<>>
      /\ next.pc = "send" => next.rest = <<>>
    <2>1. next.pc = "idle" => n = 0 /\ n = Len(raw)
        BY <1>3, <1>5
    <2>2. next.pc = "send" => n = Len(raw)
        BY <1>3, <1>5
    <2>3. /\ next.batch \in Seq(Events) /\ next.rest \in Seq(Events)
          /\ next.batch \o next.rest = file
          /\ Len(next.batch) = n
        BY <1>2, <1>4, <1>5
    <2> QED
        BY <1>3, <1>4, <1>5, <2>1, <2>2, <2>3
<1>7. TypeOK'
    BY <1>1, <1>2, <1>5, <1>6, EmptyEvents, FlushTyped DEF TypeOK
<1>8. FlushState' /\ SentCovered' /\ CallsAreFaults'
    BY <1>1, <1>5, <1>6 DEF SpoolInv, FlushState, SentCovered, CallsAreFaults
<1>9. Pending = file /\ file \in Seq(Events)
    BY <1>1, <1>2, PendingParts DEF PendingPartsOf, SpoolInv, FlushState
<1>10. Pending' = file
    <2>1. /\ Pending' = Held' \o file'
          /\ flush'.pc # "write" => Held' = flush'.batch \o flush'.rest
        BY <1>7, PendingPartsNext DEF PendingPartsOf
    <2>2. Held' = file
        BY <2>1, <1>1, <1>5, <1>6
    <2> QED
        BY <2>1, <2>2, <1>1, <1>9, ConcatEmptySeq
<1> QED
    BY <1>1, <1>7, <1>8, <1>9, <1>10, PendingKept DEF SpoolInv

(* requeueSpool reads what has been appended meanwhile.                    *)
LEMMA RequeueReadStep ==
    ASSUME SpoolInv, RequeueRead
    PROVE  SpoolInv' /\ Pending' = Pending
<1> DEFINE next == [flush EXCEPT !.pc = "clear", !.existing = file]
<1>1. /\ flush.pc = "requeue" /\ flush' = next /\ mu' = "flush"
      /\ file' = file /\ torn' = torn /\ call' = call /\ server' = server
      /\ log' = log /\ last' = last /\ lost' = lost /\ faults' = faults
    BY DEF RequeueRead
<1>2. TypeOK /\ file \in Seq(Events) /\ flush \in Flushes
    BY FlushParts DEF SpoolInv
<1>3. /\ next \in Flushes /\ next.pc = "clear" /\ next.existing = file
      /\ next.batch = flush.batch /\ next.rest = flush.rest
    BY <1>2 DEF Flushes
<1> HIDE DEF next
<1>4. TypeOK'
    BY <1>1, <1>2, <1>3, FlushTyped DEF TypeOK
<1>5. FlushState' /\ SentCovered' /\ CallsAreFaults'
    BY <1>1, <1>3 DEF SpoolInv, FlushState, SentCovered, CallsAreFaults
<1>6. Pending' = Pending
    <2>1. Held' = Held
        BY <1>1, <1>3 DEF Held
    <2> QED
        BY <2>1, <1>1 DEF Pending
<1> QED
    BY <1>1, <1>4, <1>5, <1>6, PendingKept DEF SpoolInv

(* os.WriteFile clears the file; its content is in memory.                 *)
LEMMA RequeueClearStep ==
    ASSUME SpoolInv, RequeueClear
    PROVE  SpoolInv' /\ Pending' = Pending
<1> DEFINE next == [flush EXCEPT !.pc = "write"]
<1>1. /\ flush.pc = "clear" /\ flush' = next /\ file' = <<>>
      /\ mu' = mu /\ torn' = torn /\ call' = call /\ server' = server
      /\ log' = log /\ last' = last /\ lost' = lost /\ faults' = faults
    BY DEF RequeueClear
<1>2. TypeOK /\ file \in Seq(Events) /\ flush \in Flushes
    BY FlushParts DEF SpoolInv
<1>3. /\ next \in Flushes /\ next.pc = "write" /\ next.existing = flush.existing
      /\ next.batch = flush.batch /\ next.rest = flush.rest
    BY <1>2 DEF Flushes
<1> HIDE DEF next
<1>4. TypeOK'
    BY <1>1, <1>2, <1>3, EmptyEvents, FlushTyped DEF TypeOK
<1>5. FlushState' /\ SentCovered' /\ CallsAreFaults'
    BY <1>1, <1>3 DEF SpoolInv, FlushState, SentCovered, CallsAreFaults
<1>6. Pending' = Pending
    <2>1. Pending = (flush.batch \o flush.rest) \o file /\ flush.existing = file
        BY <1>1, <1>2, PendingParts DEF PendingPartsOf, SpoolInv, FlushState
    <2>2. /\ Held' \in Seq(Events) /\ Pending' = Held' \o file'
          /\ flush'.pc = "write" =>
                 Held' = (flush'.batch \o flush'.rest) \o flush'.existing
        BY <1>4, PendingPartsNext DEF PendingPartsOf
    <2>3. Held' = Pending
        BY <2>1, <2>2, <1>1, <1>3
    <2> QED
        BY <2>2, <2>3, <1>1, ConcatEmptySeq
<1> QED
    BY <1>1, <1>4, <1>5, <1>6, PendingKept DEF SpoolInv

(* What requeueSpool writes, behind what it keeps in memory, is what was   *)
(* pending: the remainder goes before the events appended meanwhile, the   *)
(* batch of a failed call too.                                             *)
LEMMA RequeueParts ==
    ASSUME SpoolInv, flush.pc = "write"
    PROVE  /\ AfterRequeue \in Flushes /\ AfterRequeue.pc \in {"idle", "send"}
           /\ AfterRequeue.batch \in Seq(Events) /\ Len(AfterRequeue.batch) <= MaxBatch
           /\ AfterRequeue.rest = <<>>
           /\ AfterRequeue.pc = "idle" => AfterRequeue.batch = <<>>
           /\ Lines \o flush.existing \in Seq(Events)
           /\ Pending = AfterRequeue.batch \o (Lines \o flush.existing)
<1>1. TypeOK /\ flush \in Flushes /\ file = <<>>
    BY FlushParts DEF SpoolInv, FlushState
<1>2. /\ flush.batch \in Seq(Events) /\ flush.rest \in Seq(Events)
      /\ flush.existing \in Seq(Events) /\ Len(flush.batch) <= MaxBatch
    BY <1>1, FlushParts DEF TypeOK
<1>3. /\ flush.batch \o flush.rest \in Seq(Events)
      /\ flush.rest \o flush.existing \in Seq(Events)
      /\ flush.batch \o flush.existing \in Seq(Events)
      /\ (flush.batch \o flush.rest) \o flush.existing
            = flush.batch \o (flush.rest \o flush.existing)
    <2>1. \A s, t \in Seq(Events) : s \o t \in Seq(Events)
        BY ConcatProperties
    <2>2. \A s, t, u \in Seq(Events) : (s \o t) \o u = s \o (t \o u)
        BY ConcatAssociative
    <2>3. /\ flush.batch \o flush.rest \in Seq(Events)
          /\ flush.rest \o flush.existing \in Seq(Events)
          /\ flush.batch \o flush.existing \in Seq(Events)
        BY <1>2, <2>1, Zenon
    <2>4. (flush.batch \o flush.rest) \o flush.existing
            = flush.batch \o (flush.rest \o flush.existing)
        BY <1>2, <2>2, Zenon
    <2> QED
        BY <2>3, <2>4, Zenon
<1>4. Pending = (flush.batch \o flush.rest) \o flush.existing
    <2>1. Pending = Held \o <<>> /\ Held = (flush.batch \o flush.rest) \o flush.existing
          /\ Held \in Seq(Events)
        BY <1>1, PendingParts DEF PendingPartsOf
    <2> QED
        BY <2>1, ConcatEmptySeq
<1>5. CASE flush.rest # <<>>
    <2> DEFINE next == [flush EXCEPT !.pc = "send", !.rest = <<>>, !.existing = <<>>]
    <2>1. AfterRequeue = next /\ Lines = flush.rest
        BY <1>5 DEF AfterRequeue, Lines
    <2>2. /\ next \in Flushes /\ next.pc = "send" /\ next.rest = <<>>
          /\ next.batch = flush.batch
        BY <1>1, EmptyEvents DEF Flushes
    <2> HIDE DEF next
    <2> QED
        BY <2>1, <2>2, <1>2, <1>3, <1>4
<1>6. CASE flush.rest = <<>>
    <2>1. AfterRequeue = Idle /\ Lines = flush.batch
        BY <1>6 DEF AfterRequeue, Lines
    <2>2. flush.batch \o flush.rest = flush.batch
        BY <1>2, <1>6, ConcatEmptySeq
    <2>3. <<>> \o (flush.batch \o flush.existing) = flush.batch \o flush.existing
        BY <1>3, ConcatEmptySeq
    <2>4. Len(Idle.batch) <= MaxBatch
        BY IdleFields, EmptyEvents, SpoolAssumption
    <2> QED
        BY <2>1, <2>2, <2>3, <2>4, <1>3, <1>4, IdleFields, EmptyEvents
<1> QED
    BY <1>5, <1>6

LEMMA RequeueWriteStep ==
    ASSUME SpoolInv, RequeueWrite
    PROVE  SpoolInv' /\ Pending' = Pending
<1>1. /\ flush.pc = "write" /\ flush' = AfterRequeue /\ mu' = "free"
      /\ file' = Lines \o flush.existing
      /\ torn' = torn /\ call' = call /\ server' = server
      /\ log' = log /\ last' = last /\ lost' = lost /\ faults' = faults
    BY DEF RequeueWrite
<1>2. /\ flush' \in Flushes /\ flush'.pc \in {"idle", "send"}
      /\ Len(flush'.batch) <= MaxBatch /\ flush'.rest = <<>>
      /\ flush'.pc = "idle" => flush'.batch = <<>>
      /\ file' \in Seq(Events) /\ Pending = flush'.batch \o file'
    BY <1>1, RequeueParts
<1>3. TypeOK'
    BY <1>1, <1>2, FlushTyped DEF TypeOK, SpoolInv
<1>4. FlushState' /\ SentCovered' /\ CallsAreFaults'
    BY <1>1, <1>2 DEF SpoolInv, FlushState, SentCovered, CallsAreFaults
<1>5. Pending' = Pending
    BY <1>2, <1>3, PendingPartsNext DEF PendingPartsOf
<1> QED
    BY <1>1, <1>3, <1>4, <1>5, PendingKept DEF SpoolInv

(* Pending loses an end of it that is accounted for elsewhere.             *)
LEMMA PendingShrinks ==
    ASSUME SpoolInv, TypeOK', NEW gone \in Seq(Events),
           Pending = Pending' \o gone \/ Pending = gone \o Pending', last' = last,
           Range(log) \cup lost \cup Ids(gone) \subseteq (Range(log) \cup lost)'
    PROVE  /\ PendingKnown' /\ PendingOrdered' /\ Accounted'
           /\ Ids(Pending') \subseteq Ids(Pending)
<1>1. Pending' \in Seq(Events)
    BY PendingPartsNext DEF PendingPartsOf
<1>2. Ids(Pending) = Ids(Pending') \cup Ids(gone)
    <2>1. /\ Ids(Pending' \o gone) = Ids(Pending') \cup Ids(gone)
          /\ Ids(gone \o Pending') = Ids(gone) \cup Ids(Pending')
        BY <1>1, IdsConcat
    <2>2. CASE Pending = Pending' \o gone
        BY <2>1, <2>2
    <2>3. CASE Pending = gone \o Pending'
        BY <2>1, <2>3
    <2> QED
        BY <2>2, <2>3
<1>3. Ids(Pending)' = Ids(Pending')
    BY DEF Ids
<1>4. PendingKnown' /\ Accounted'
    BY <1>2, <1>3 DEF SpoolInv, PendingKnown, Accounted
<1>5. Ordered(Pending)
    BY DEF SpoolInv, PendingOrdered, Ordered
<1>6. Ordered(Pending')
    BY <1>1, <1>5, OrderedParts
<1> QED
    BY <1>2, <1>4, <1>6 DEF PendingOrdered, Ordered

(* A write cut off keeps a prefix.                                         *)
LEMMA RequeueFailsStep ==
    ASSUME SpoolInv, NEW n \in 0..MaxEvents, RequeueFails(n)
    PROVE  SpoolInv' /\ Ids(Pending') \subseteq Ids(Pending)
<1> DEFINE all == Lines \o flush.existing
           gone == SubSeq(all, n + 1, Len(all))
<1>1. /\ flush.pc = "write" /\ flush' = AfterRequeue /\ mu' = "free"
      /\ faults < MaxFaults /\ faults' = faults + 1
      /\ n < Len(all) /\ file' = SubSeq(all, 1, n) /\ torn' \in BOOLEAN
      /\ lost' = lost \cup Ids(gone)
      /\ call' = call /\ server' = server /\ log' = log /\ last' = last
    BY DEF RequeueFails, Fault
<1>2. /\ flush' \in Flushes /\ flush'.pc \in {"idle", "send"}
      /\ flush'.batch \in Seq(Events)
      /\ Len(flush'.batch) <= MaxBatch /\ flush'.rest = <<>>
      /\ flush'.pc = "idle" => flush'.batch = <<>>
      /\ all \in Seq(Events) /\ Pending = flush'.batch \o all
    BY <1>1, RequeueParts
<1> HIDE DEF all
<1>3. n \in 0..Len(all)
    BY <1>1, <1>2, EventSequences
<1>4. file' \in Seq(Events) /\ gone \in Seq(Events) /\ file' \o gone = all
    BY <1>1, <1>2, <1>3, Split
<1> HIDE DEF gone
<1>5. Ids(gone) \subseteq 1..MaxEvents
    BY <1>4, EventSequences DEF Ids
<1>6. TypeOK' /\ CallsAreFaults'
    <2>1. faults' \in 0..MaxFaults /\ CallsAreFaults'
        BY <1>1, SpoolAssumption DEF TypeOK, SpoolInv, CallsAreFaults, Calls
    <2>2. lost' \subseteq 1..MaxEvents
        BY <1>1, <1>5 DEF SpoolInv, TypeOK
    <2> QED
        BY <1>1, <1>2, <1>4, <2>1, <2>2, FlushTyped DEF TypeOK, SpoolInv
<1>7. FlushState' /\ SentCovered'
    BY <1>1, <1>2 DEF SpoolInv, FlushState, SentCovered
<1>8. Pending' = flush'.batch \o file'
    BY <1>2, <1>6, PendingPartsNext DEF PendingPartsOf
<1>9. Pending = Pending' \o gone
    <2>1. \A s, t, u \in Seq(Events) : (s \o t) \o u = s \o (t \o u)
        BY ConcatAssociative
    <2> QED
        BY <2>1, <1>2, <1>4, <1>8
<1>10. /\ PendingKnown' /\ PendingOrdered' /\ Accounted'
       /\ Ids(Pending') \subseteq Ids(Pending)
    BY <1>1, <1>4, <1>6, <1>9, PendingShrinks
<1> QED
    BY <1>6, <1>7, <1>10 DEF SpoolInv

-----------------------------------------------------------------------------
(* The server.                                                             *)

(* The batch reaches the server, or comes back for its size.               *)
LEMMA SendStep ==
    ASSUME SpoolInv, Send
    PROVE  SpoolInv' /\ Pending' = Pending
<1>1. /\ flush.pc = "send" /\ file' = file /\ torn' = torn /\ mu' = mu /\ call' = call
      /\ log' = log /\ last' = last /\ lost' = lost /\ faults' = faults
      /\ \/ flush' = [flush EXCEPT !.pc = "requeue"] /\ server' = server
         \/ /\ server' = [server EXCEPT ![call] = flush.batch]
            /\ flush' = [flush EXCEPT !.pc = "sent"]
    BY DEF Send
<1>2. /\ TypeOK /\ flush \in Flushes /\ flush.batch \in Seq(Events)
      /\ call \in Calls /\ server \in [Calls -> Seq(Events)]
      /\ Len(flush.batch) <= MaxBatch
    BY FlushParts DEF SpoolInv, TypeOK
<1>3. /\ flush' \in Flushes /\ flush'.pc \in {"requeue", "sent"}
      /\ flush'.batch = flush.batch /\ flush'.rest = flush.rest
      /\ flush'.pc = "sent" => server' = [server EXCEPT ![call] = flush.batch]
    BY <1>1, <1>2 DEF Flushes
<1>4. server' \in [Calls -> Seq(Events)]
    BY <1>1, <1>2
<1>5. TypeOK'
    BY <1>1, <1>2, <1>3, <1>4, FlushTyped DEF TypeOK
<1>6. FlushState' /\ CallsAreFaults'
    BY <1>1, <1>3 DEF SpoolInv, FlushState, CallsAreFaults
<1>7. SentCovered'
    <2> SUFFICES ASSUME flush'.pc = "sent"
                 PROVE  Ids(flush'.batch) \subseteq Ids(server'[call'])
        BY DEF SentCovered, Ids
    <2> QED
        BY <1>1, <1>2, <1>3
<1>8. Pending' = Pending
    <2>1. Held' = Held
        BY <1>1, <1>3 DEF Held
    <2> QED
        BY <2>1, <1>1 DEF Pending
<1> QED
    BY <1>1, <1>5, <1>6, <1>7, <1>8, PendingKept DEF SpoolInv

LEMMA RangeAppend ==
    ASSUME NEW x \in 1..MaxEvents, NEW l \in Seq(1..MaxEvents)
    PROVE  Append(l, x) \in Seq(1..MaxEvents) /\ Range(Append(l, x)) = Range(l) \cup {x}
<1>1. /\ Append(l, x) \in Seq(1..MaxEvents) /\ Len(Append(l, x)) = Len(l) + 1
      /\ \A i \in 1..Len(l) : Append(l, x)[i] = l[i]
      /\ Append(l, x)[Len(l) + 1] = x
    BY AppendProperties
<1>2. /\ DOMAIN l = 1..Len(l) /\ Len(l) \in Nat
      /\ DOMAIN Append(l, x) = 1..(Len(l) + 1)
    BY <1>1, LenProperties
<1>3. 1..(Len(l) + 1) = (1..Len(l)) \cup {Len(l) + 1}
    BY <1>2
<1> QED
    BY <1>1, <1>2, <1>3 DEF Range

(* The handler deals with the first of its events.                         *)
LEMMA HandlerStep ==
    ASSUME SpoolInv, NEW c \in Calls, server[c] # <<>>,
           server' = [server EXCEPT ![c] = Tail(@)],
           file' = file, mu' = mu, torn' = torn, flush' = flush, call' = call, last' = last,
           log' \in Seq(1..MaxEvents), lost' \subseteq 1..MaxEvents,
           faults' \in 0..MaxFaults, faults <= faults',
           Range(log) \cup lost \cup {Head(server[c]).id} \subseteq (Range(log) \cup lost)'
    PROVE  SpoolInv'
<1>1. TypeOK /\ server \in [Calls -> Seq(Events)] /\ call \in Calls
    BY DEF SpoolInv, TypeOK
<1>2. /\ Tail(server[c]) \in Seq(Events)
      /\ Ids(server[c]) = {Head(server[c]).id} \cup Ids(Tail(server[c]))
    BY <1>1, IdsHeadTail
<1>3. server' \in [Calls -> Seq(Events)]
    BY <1>1, <1>2
<1>4. TypeOK'
    BY <1>1, <1>3 DEF TypeOK
<1>5. FlushState' /\ CallsAreFaults'
    BY <1>1, SpoolAssumption DEF SpoolInv, FlushState, CallsAreFaults, TypeOK, Calls
<1>6. SentCovered'
    <2>1. Ids(server[call]) \subseteq Ids(server'[call]) \cup {Head(server[c]).id}
        BY <1>1, <1>2
    <2>2. Ids(flush.batch)' = Ids(flush.batch) /\ Ids(server[call])' = Ids(server'[call])
        BY DEF Ids
    <2> QED
        BY <2>1, <2>2 DEF SpoolInv, SentCovered
<1>7. Pending' = Pending
    BY DEF Pending, Held
<1> QED
    BY <1>4, <1>5, <1>6, <1>7, PendingKept DEF SpoolInv

LEMMA IngestStep == ASSUME SpoolInv, NEW c \in Calls, Ingest(c) PROVE SpoolInv'
<1>1. /\ server[c] # <<>> /\ log' = Append(log, Head(server[c]).id)
      /\ server' = [server EXCEPT ![c] = Tail(@)]
      /\ file' = file /\ torn' = torn /\ mu' = mu /\ flush' = flush /\ call' = call
      /\ last' = last /\ lost' = lost /\ faults' = faults
    BY DEF Ingest
<1>2. /\ server[c] \in Seq(Events) /\ log \in Seq(1..MaxEvents)
      /\ lost \subseteq 1..MaxEvents /\ faults \in 0..MaxFaults /\ faults <= faults
    BY SpoolAssumption DEF SpoolInv, TypeOK
<1>3. Head(server[c]).id \in 1..MaxEvents
    BY <1>1, <1>2, IdsHeadTail DEF Events
<1>4. /\ log' \in Seq(1..MaxEvents)
      /\ Range(log') = Range(log) \cup {Head(server[c]).id}
    BY <1>1, <1>2, <1>3, RangeAppend
<1>5. Range(log)' = Range(log')
    BY DEF Range
<1> QED
    BY <1>1, <1>2, <1>4, <1>5, HandlerStep

LEMMA DiscardStep == ASSUME SpoolInv, NEW c \in Calls, Discard(c) PROVE SpoolInv'
<1>1. /\ server[c] # <<>> /\ lost' = lost \cup {Head(server[c]).id}
      /\ server' = [server EXCEPT ![c] = Tail(@)]
      /\ faults < MaxFaults /\ faults' = faults + 1
      /\ file' = file /\ torn' = torn /\ mu' = mu /\ flush' = flush /\ call' = call
      /\ last' = last /\ log' = log
    BY DEF Discard, Fault
<1>2. /\ server[c] \in Seq(Events) /\ log \in Seq(1..MaxEvents)
      /\ lost \subseteq 1..MaxEvents
    BY DEF SpoolInv, TypeOK
<1>3. Head(server[c]).id \in 1..MaxEvents
    BY <1>1, <1>2, IdsHeadTail DEF Events
<1>4. faults' \in 0..MaxFaults /\ faults <= faults'
    BY <1>1, SpoolAssumption DEF SpoolInv, TypeOK
<1>5. Range(log)' = Range(log)
    BY <1>1 DEF Range
<1> QED
    BY <1>1, <1>2, <1>3, <1>4, <1>5, HandlerStep

(* A handler without its client ends; the batch is pending again.          *)
LEMMA CancelledStep ==
    ASSUME SpoolInv, NEW c \in Calls, Cancelled(c)
    PROVE  SpoolInv' /\ Pending' = Pending
<1>1. /\ ~(flush.pc = "sent" /\ c = call) /\ server' = [server EXCEPT ![c] = <<>>]
      /\ file' = file /\ torn' = torn /\ mu' = mu /\ flush' = flush /\ call' = call
      /\ last' = last /\ log' = log /\ lost' = lost /\ faults' = faults
    BY DEF Cancelled
<1>2. TypeOK /\ server \in [Calls -> Seq(Events)] /\ call \in Calls
    BY DEF SpoolInv, TypeOK
<1>3. server' \in [Calls -> Seq(Events)]
    BY <1>1, <1>2, EmptyEvents
<1>4. TypeOK'
    BY <1>1, <1>2, <1>3 DEF TypeOK
<1>5. FlushState' /\ CallsAreFaults'
    BY <1>1 DEF SpoolInv, FlushState, CallsAreFaults
<1>6. SentCovered'
    <2> SUFFICES ASSUME flush.pc = "sent" PROVE SentCovered'
        BY <1>1 DEF SentCovered
    <2>1. server'[call] = server[call]
        BY <1>1, <1>2
    <2> QED
        BY <2>1, <1>1 DEF SpoolInv, SentCovered, Ids
<1>7. Pending' = Pending
    BY <1>1 DEF Pending, Held
<1> QED
    BY <1>1, <1>4, <1>5, <1>6, <1>7, PendingKept DEF SpoolInv

(* The server has dealt with the whole batch.                              *)
LEMMA AcknowledgedStep ==
    ASSUME SpoolInv, Acknowledged
    PROVE  SpoolInv' /\ Pending = flush.batch \o file /\ Pending' = file
<1>1. /\ flush.pc = "sent" /\ server[call] = <<>> /\ flush' = Idle
      /\ file' = file /\ torn' = torn /\ mu' = mu /\ call' = call /\ server' = server
      /\ log' = log /\ last' = last /\ lost' = lost /\ faults' = faults
    BY DEF Acknowledged
<1>2. TypeOK /\ flush.batch \in Seq(Events)
    BY FlushParts DEF SpoolInv
<1>3. TypeOK'
    <2>1. Len(Idle.batch) <= MaxBatch
        BY IdleFields, EmptyEvents, SpoolAssumption
    <2> QED
        BY <1>1, <1>2, <2>1, IdleFields, FlushTyped DEF TypeOK
<1>4. FlushState' /\ SentCovered' /\ CallsAreFaults'
    BY <1>1, IdleFields DEF SpoolInv, FlushState, SentCovered, CallsAreFaults
<1>5. Pending = flush.batch \o file
    BY <1>1, <1>2, PendingParts DEF PendingPartsOf, SpoolInv, FlushState
<1>6. Pending' = file
    BY <1>1, <1>3, IdleFields, PendingPartsNext DEF PendingPartsOf
<1>7. Ids(flush.batch) \subseteq Range(log) \cup lost
    BY <1>1, IdsEmpty DEF SpoolInv, SentCovered
<1>8. PendingKnown' /\ PendingOrdered' /\ Accounted'
    BY <1>1, <1>2, <1>3, <1>5, <1>6, <1>7, PendingShrinks
<1> QED
    BY <1>3, <1>4, <1>5, <1>6, <1>8 DEF SpoolInv

(* The batch is written back after a call that failed.                     *)
LEMMA SendFailsStep ==
    ASSUME SpoolInv, SendFails
    PROVE  SpoolInv' /\ Pending' = Pending
<1> DEFINE next == [flush EXCEPT !.pc = "requeue"]
<1>1. /\ flush.pc \in {"send", "sent"} /\ flush' = next /\ call' = call + 1
      /\ faults < MaxFaults /\ faults' = faults + 1
      /\ file' = file /\ torn' = torn /\ mu' = mu /\ server' = server
      /\ log' = log /\ last' = last /\ lost' = lost
    BY DEF SendFails, Fault
<1>2. TypeOK /\ flush \in Flushes
    BY FlushParts DEF SpoolInv
<1>3. /\ next \in Flushes /\ next.pc = "requeue"
      /\ next.batch = flush.batch /\ next.rest = flush.rest
    BY <1>2 DEF Flushes
<1> HIDE DEF next
<1>4. call' \in Calls /\ faults' \in 0..MaxFaults /\ CallsAreFaults'
    BY <1>1, <1>2, SpoolAssumption DEF SpoolInv, CallsAreFaults, TypeOK, Calls
<1>5. TypeOK'
    BY <1>1, <1>2, <1>3, <1>4, FlushTyped DEF TypeOK
<1>6. FlushState' /\ SentCovered'
    BY <1>1, <1>3 DEF SpoolInv, FlushState, SentCovered
<1>7. Pending' = Pending
    <2>1. Held' = Held
        BY <1>1, <1>3 DEF Held
    <2> QED
        BY <2>1, <1>1 DEF Pending
<1> QED
    BY <1>1, <1>4, <1>5, <1>6, <1>7, PendingKept DEF SpoolInv

(* A crash loses what is only in memory.                                   *)
LEMMA CrashStep == ASSUME SpoolInv, Crash PROVE SpoolInv'
<1>1. /\ flush' = Idle /\ call' = call + 1 /\ mu' = "free"
      /\ faults < MaxFaults /\ faults' = faults + 1
      /\ lost' = lost \cup Ids(Held) /\ torn' \in BOOLEAN
      /\ file' = file /\ server' = server /\ log' = log /\ last' = last
    BY DEF Crash, Fault
<1>2. TypeOK /\ Held \in Seq(Events) /\ Pending = Held \o file
    BY PendingParts DEF SpoolInv, PendingPartsOf
<1>3. call' \in Calls /\ faults' \in 0..MaxFaults /\ CallsAreFaults'
    BY <1>1, <1>2, SpoolAssumption DEF SpoolInv, CallsAreFaults, TypeOK, Calls
<1>4. Ids(Held) \subseteq 1..MaxEvents
    BY <1>2, EventSequences DEF Ids
<1>5. TypeOK'
    <2>1. Len(Idle.batch) <= MaxBatch
        BY IdleFields, EmptyEvents, SpoolAssumption
    <2>2. lost' \subseteq 1..MaxEvents
        BY <1>1, <1>2, <1>4 DEF TypeOK
    <2> QED
        BY <1>1, <1>2, <1>3, <2>1, <2>2, IdleFields, FlushTyped DEF TypeOK
<1>6. FlushState' /\ SentCovered'
    BY <1>1, IdleFields DEF SpoolInv, FlushState, SentCovered
<1>7. Pending' = file
    BY <1>1, <1>5, IdleFields, PendingPartsNext DEF PendingPartsOf
<1>8. Range(log) \cup lost \cup Ids(Held) \subseteq (Range(log) \cup lost)'
    BY <1>1 DEF Range
<1>9. PendingKnown' /\ PendingOrdered' /\ Accounted'
    BY <1>1, <1>2, <1>5, <1>7, <1>8, PendingShrinks
<1> QED
    BY <1>3, <1>5, <1>6, <1>9 DEF SpoolInv

-----------------------------------------------------------------------------
LEMMA SpoolStutter == ASSUME SpoolInv, UNCHANGED vars PROVE SpoolInv'
<1>1. /\ file' = file /\ torn' = torn /\ mu' = mu /\ flush' = flush /\ call' = call
      /\ server' = server /\ log' = log /\ last' = last /\ lost' = lost
      /\ faults' = faults
    BY DEF vars
<1>2. TypeOK' /\ FlushState' /\ CallsAreFaults'
    BY <1>1 DEF SpoolInv, TypeOK, FlushState, CallsAreFaults
<1>4. SentCovered'
    <2>1. /\ Ids(flush.batch)' = Ids(flush.batch)
          /\ Ids(server[call])' = Ids(server[call]) /\ Range(log)' = Range(log)
        BY <1>1
    <2> QED
        BY <1>1, <2>1 DEF SpoolInv, SentCovered
<1>3. Pending' = Pending
    BY <1>1 DEF Pending, Held
<1> QED
    BY <1>1, <1>2, <1>3, <1>4, PendingKept DEF SpoolInv

LEMMA SpoolNext == SpoolInv /\ [Next]_vars => SpoolInv'
<1> SUFFICES ASSUME SpoolInv, [Next]_vars PROVE SpoolInv'
    OBVIOUS
<1>1. CASE FlushStep
    BY <1>1, FlushReadStep, FlushTruncateStep, RequeueReadStep, RequeueClearStep,
       RequeueWriteStep, SendStep, AcknowledgedStep DEF FlushStep
<1>2. ASSUME NEW z \in Sizes, SpoolAppend(z) PROVE SpoolInv'
    BY <1>2, AppendStep
<1>3. CASE SpoolAppendFails \/ TruncateFails \/ SendFails \/ Crash
    BY <1>3, AppendFailsStep, TruncateFailsStep, SendFailsStep, CrashStep
<1>4. ASSUME NEW n \in 0..MaxEvents, RequeueFails(n) PROVE SpoolInv'
    BY <1>4, RequeueFailsStep
<1>5. ASSUME NEW c \in Calls, Ingest(c) \/ Discard(c) \/ Cancelled(c) PROVE SpoolInv'
    BY <1>5, IngestStep, DiscardStep, CancelledStep
<1>6. CASE UNCHANGED vars
    BY <1>6, SpoolStutter
<1> QED
    BY <1>1, <1>2, <1>3, <1>4, <1>5, <1>6 DEF Next

(* The inductive invariant holds.                                          *)
THEOREM SpoolInvHolds == Spec => []SpoolInv
<1>1. Init => SpoolInv
    BY InitSpoolInv
<1>2. SpoolInv /\ [Next]_vars => SpoolInv'
    BY SpoolNext
<1> QED
    BY <1>1, <1>2, PTL DEF Spec

(* No interleaving of handlers, flushSpool and requeueSpool, no crash and  *)
(* no lost answer makes an accepted event disappear unaccounted.           *)
THEOREM EventsAccounted == Spec => []Accounted
<1>1. SpoolInv => Accounted
    BY DEF SpoolInv
<1> QED
    BY <1>1, SpoolInvHolds, PTL

(* Remainders and failed batches written back by requeueSpool never change *)
(* the order of the events, nor repeat one.                                *)
THEOREM OrderKept == Spec => []PendingOrdered
<1>1. SpoolInv => PendingOrdered
    BY DEF SpoolInv
<1> QED
    BY <1>1, SpoolInvHolds, PTL

-----------------------------------------------------------------------------
(* Duplicates.  An event is counted where it is stored, where a handler    *)
(* still has it, and once more while the agent will send it; only a call   *)
(* that breaks off adds to the count.  The argument needs that a handler   *)
(* has an event once, and that a call's handler is empty before the call.  *)

Stored(e) == {i \in DOMAIN log : log[i] = e}

Carrying(e) == {c \in Calls : e \in Ids(server[c])}

Owed(e) == /\ e \in Ids(Pending)
           /\ ~(flush.pc = "sent" /\ e \in Ids(flush.batch))

Due(e) == IF Owed(e) THEN 1 ELSE 0

Tally(e) == Cardinality(Stored(e)) + Cardinality(Carrying(e)) + Due(e)

(* Handlers: each has its events once, and there is none for a call yet to *)
(* come.                                                                   *)
HandlersSound ==
    \A c \in Calls :
        /\ Ordered(server[c]) /\ Ids(server[c]) \subseteq 1..last
        /\ server[c] # <<>> => c < call \/ (c = call /\ flush.pc = "sent")

LogKnown == Range(log) \subseteq 1..last

Counted == \A e \in 1..last : Tally(e) <= 1 + call

(* The inductive invariant for duplicates.                                 *)
RetryInv == SpoolInv /\ HandlersSound /\ LogKnown /\ Counted

LEMMA TallyParts ==
    ASSUME TypeOK, NEW e
    PROVE  /\ IsFiniteSet(Stored(e)) /\ Cardinality(Stored(e)) \in Nat
           /\ IsFiniteSet(Carrying(e)) /\ Cardinality(Carrying(e)) \in Nat
           /\ Due(e) \in 0..1
<1>1. log \in Seq(1..MaxEvents) /\ MaxFaults \in Int
    BY SpoolAssumption DEF TypeOK
<1>2. DOMAIN log = 1..Len(log) /\ Len(log) \in Int
    BY <1>1, LenProperties
<1>3. IsFiniteSet(1..Len(log)) /\ IsFiniteSet(0..MaxFaults)
    BY <1>1, <1>2, FS_Interval
<1>4. Stored(e) \in SUBSET (1..Len(log)) /\ Carrying(e) \in SUBSET (0..MaxFaults)
    BY <1>2 DEF Stored, Carrying, Calls
<1>5. IsFiniteSet(Stored(e)) /\ IsFiniteSet(Carrying(e))
    BY <1>3, <1>4, FS_Subset
<1> QED
    BY <1>5, FS_CardinalityType DEF Due

(* Without steps in the log and at the server, only Due can change.        *)
LEMMA SameCounts ==
    ASSUME log' = log, server' = server, NEW e
    PROVE  Stored(e)' = Stored(e) /\ Carrying(e)' = Carrying(e)
BY DEF Stored, Carrying, Ids

(* Steps of the flush and of the file: nothing more is due.                *)
LEMMA QuietStep ==
    ASSUME RetryInv, SpoolInv', server' = server, log' = log, last' = last, call' = call,
           Ids(Pending') \subseteq Ids(Pending),
           flush' = flush \/ (flush.pc # "sent" /\ flush'.pc # "sent")
    PROVE  RetryInv'
<1>1. HandlersSound' /\ LogKnown'
    <2>1. \A c \in Calls : Ids(server[c])' = Ids(server[c])
        BY DEF Ids
    <2>2. \A c \in Calls : Ordered(server[c])' = Ordered(server[c])
        BY DEF Ordered
    <2>3. flush.pc = "sent" <=> flush'.pc = "sent"
        OBVIOUS
    <2>4. HandlersSound'
        BY <2>1, <2>2, <2>3 DEF RetryInv, HandlersSound
    <2>5. LogKnown'
        BY DEF RetryInv, LogKnown, Range
    <2> QED
        BY <2>4, <2>5
<1>2. Counted'
    <2> SUFFICES ASSUME NEW e \in 1..last PROVE Tally(e)' <= 1 + call
        BY DEF Counted
    <2>1. Stored(e)' = Stored(e) /\ Carrying(e)' = Carrying(e)
        BY SameCounts
    <2>2. Owed(e)' => Owed(e)
        <3>1. Ids(Pending)' = Ids(Pending')
            BY DEF Ids
        <3>2. CASE flush' = flush
            <4>1. Ids(flush.batch)' = Ids(flush.batch)
                BY <3>2 DEF Ids
            <4> QED
                BY <3>1, <3>2, <4>1 DEF Owed
        <3>3. CASE flush.pc # "sent" /\ flush'.pc # "sent"
            BY <3>1, <3>3 DEF Owed
        <3> QED
            BY <3>2, <3>3
    <2>3. Due(e)' <= Due(e) /\ Due(e)' \in 0..1
        BY <2>2 DEF Due
    <2>4. Tally(e) <= 1 + call
        BY DEF RetryInv, Counted
    <2>5. call \in Nat
        BY SpoolAssumption DEF RetryInv, SpoolInv, TypeOK, Calls
    <2>6. TypeOK
        BY DEF RetryInv, SpoolInv
    <2> QED
        BY <2>1, <2>3, <2>4, <2>5, <2>6, TallyParts DEF Tally
<1> QED
    BY <1>1, <1>2 DEF RetryInv

LEMMA InitRetryInv == Init => RetryInv
<1> SUFFICES ASSUME Init PROVE RetryInv
    OBVIOUS
<1>1. SpoolInv /\ log = <<>> /\ last = 0 /\ \A c \in Calls : server[c] = <<>>
    BY InitSpoolInv DEF Init
<1>2. DOMAIN <<>> = {}
    BY EmptyEvents, EventSequences
<1>3. HandlersSound /\ LogKnown
    BY <1>1, <1>2, IdsEmpty DEF HandlersSound, LogKnown, Ordered, Range
<1>4. Counted
    BY <1>1 DEF Counted
<1> QED
    BY <1>1, <1>3, <1>4 DEF RetryInv

(* Events and calls are numbered.                                          *)
LEMMA CountersNat == TypeOK => last \in Nat /\ call \in Nat
<1>1. MaxEvents \in Nat /\ MaxFaults \in Nat
    BY SpoolAssumption
<1>2. TypeOK => last \in 0..MaxEvents /\ call \in 0..MaxFaults
    BY DEF TypeOK, Calls
<1> QED
    BY <1>1, <1>2

(* A new event has not been at the server.                                 *)
LEMMA AppendRetry ==
    ASSUME RetryInv, NEW z \in Sizes, SpoolAppend(z)
    PROVE  RetryInv'
<1>1. SpoolInv' /\ Ids(Pending') \subseteq Ids(Pending) \cup {last + 1}
    BY AppendStep DEF RetryInv
<1>2. /\ last' = last + 1 /\ flush' = flush /\ call' = call /\ server' = server
      /\ log' = log
    BY DEF SpoolAppend
<1>3. TypeOK /\ last \in Nat /\ call \in Nat /\ 1..last \subseteq 1..last'
      /\ 1..last' = 1..last \cup {last + 1} /\ last + 1 \notin 1..last
    <2>1. TypeOK
        BY DEF RetryInv, SpoolInv
    <2>2. last \in Nat /\ call \in Nat
        BY <2>1, CountersNat
    <2> QED
        BY <1>2, <2>1, <2>2
<1>4. \A c \in Calls : Ids(server[c])' = Ids(server[c])
    BY <1>2 DEF Ids
<1>5. HandlersSound' /\ LogKnown'
    <2>1. \A c \in Calls : Ordered(server[c])' = Ordered(server[c])
        BY <1>2 DEF Ordered
    <2>2. HandlersSound'
        BY <1>2, <1>3, <1>4, <2>1 DEF RetryInv, HandlersSound
    <2>3. Range(log)' = Range(log)
        BY <1>2 DEF Range
    <2> QED
        BY <2>2, <2>3, <1>3 DEF RetryInv, LogKnown
<1>6. ASSUME NEW e \in 1..last' PROVE Tally(e)' <= 1 + call
    <2>1. Stored(e)' = Stored(e) /\ Carrying(e)' = Carrying(e)
        BY <1>2, SameCounts
    <2>2. CASE e \in 1..last
        <3>1. Ids(Pending)' = Ids(Pending') /\ Ids(flush.batch)' = Ids(flush.batch)
            BY <1>2 DEF Ids
        <3>2. Owed(e)' => Owed(e)
            BY <1>1, <1>2, <1>3, <2>2, <3>1 DEF Owed
        <3>3. Due(e)' <= Due(e) /\ Due(e)' \in 0..1
            BY <3>2 DEF Due
        <3>4. Tally(e) <= 1 + call
            BY <2>2 DEF RetryInv, Counted
        <3> QED
            BY <2>1, <3>3, <3>4, <1>3, TallyParts DEF Tally
    <2>3. CASE e = last + 1
        <3>1. Stored(e) = {}
            BY <2>3, <1>3 DEF RetryInv, LogKnown, Stored, Range
        <3>2. Carrying(e) = {}
            BY <2>3, <1>3 DEF RetryInv, HandlersSound, Carrying
        <3>3. Due(e)' \in 0..1
            BY DEF Due
        <3>4. Cardinality(Stored(e)') = 0 /\ Cardinality(Carrying(e)') = 0
            BY <2>1, <3>1, <3>2, FS_EmptySet
        <3> QED
            BY <3>3, <3>4, <1>3 DEF Tally
    <2> QED
        BY <2>2, <2>3, <1>3
<1> QED
    BY <1>1, <1>2, <1>5, <1>6 DEF RetryInv, Counted

(* A call that breaks off allows one duplicate more.                       *)
LEMMA BrokenOffRetry ==
    ASSUME RetryInv, SpoolInv', server' = server, log' = log, last' = last,
           call' = call + 1
    PROVE  RetryInv'
<1>1. TypeOK /\ call \in Nat
    BY CountersNat DEF RetryInv, SpoolInv
<1>2. HandlersSound' /\ LogKnown'
    <2>1. \A c \in Calls : /\ Ids(server[c])' = Ids(server[c])
                           /\ Ordered(server[c])' = Ordered(server[c])
        BY DEF Ids, Ordered
    <2>2. \A c \in Calls : (c < call \/ c = call) => c < call'
        BY <1>1, SpoolAssumption DEF Calls
    <2>3. HandlersSound'
        BY <2>1, <2>2 DEF RetryInv, HandlersSound
    <2>4. LogKnown'
        BY DEF RetryInv, LogKnown, Range
    <2> QED
        BY <2>3, <2>4
<1>3. ASSUME NEW e \in 1..last PROVE Tally(e)' <= 1 + (call + 1)
    <2>1. Stored(e)' = Stored(e) /\ Carrying(e)' = Carrying(e)
        BY SameCounts
    <2>2. Due(e)' \in 0..1
        BY DEF Due
    <2>3. Tally(e) <= 1 + call
        BY DEF RetryInv, Counted
    <2> QED
        BY <2>1, <2>2, <2>3, <1>1, TallyParts DEF Tally
<1> QED
    BY <1>2, <1>3 DEF RetryInv, Counted

(* A batch goes from the agent to its handler, which had nothing.          *)
LEMMA SendRetry == ASSUME RetryInv, Send PROVE RetryInv'
<1>1. SpoolInv' /\ Pending' = Pending
    BY SendStep DEF RetryInv
<1>2. /\ flush.pc = "send" /\ file' = file /\ call' = call /\ log' = log /\ last' = last
      /\ \/ flush' = [flush EXCEPT !.pc = "requeue"] /\ server' = server
         \/ /\ server' = [server EXCEPT ![call] = flush.batch]
            /\ flush' = [flush EXCEPT !.pc = "sent"]
    BY DEF Send
<1>3. /\ TypeOK /\ flush \in Flushes /\ flush.batch \in Seq(Events)
      /\ file \in Seq(Events) /\ call \in Calls /\ call \in Nat
      /\ server \in [Calls -> Seq(Events)]
    BY FlushParts, SpoolAssumption DEF RetryInv, SpoolInv, TypeOK, Calls
<1>4. server[call] = <<>>
    BY <1>2, <1>3 DEF RetryInv, HandlersSound
<1>5. CASE flush' = [flush EXCEPT !.pc = "requeue"] /\ server' = server
    <2>1. flush'.pc = "requeue"
        BY <1>3, <1>5 DEF Flushes
    <2> QED
        BY <2>1, <1>1, <1>2, <1>5, QuietStep
<1>6. CASE /\ server' = [server EXCEPT ![call] = flush.batch]
           /\ flush' = [flush EXCEPT !.pc = "sent"]
    <2>1. flush'.pc = "sent" /\ flush'.batch = flush.batch
        BY <1>3, <1>6 DEF Flushes
    <2>2. /\ server'[call] = flush.batch
          /\ \A c \in Calls \ {call} : server'[c] = server[c]
        BY <1>3, <1>6
    <2>3. Pending = flush.batch \o file
        BY <1>2, <1>3, PendingParts DEF PendingPartsOf, RetryInv, SpoolInv, FlushState
    <2>4. Ordered(flush.batch) /\ Ids(flush.batch) \subseteq Ids(Pending)
        <3>1. Ordered(Pending)
            BY DEF RetryInv, SpoolInv, PendingOrdered, Ordered
        <3> QED
            BY <2>3, <3>1, <1>3, OrderedParts, IdsConcat
    <2>5. Ids(Pending) \subseteq 1..last
        BY DEF RetryInv, SpoolInv, PendingKnown
    <2>6. HandlersSound'
        <3> SUFFICES ASSUME NEW c \in Calls
                     PROVE  /\ Ordered(server'[c]) /\ Ids(server'[c]) \subseteq 1..last
                            /\ server'[c] # <<>> => c < call \/ (c = call /\ flush'.pc = "sent")
            BY <1>2 DEF HandlersSound, Ordered, Ids
        <3>1. CASE c = call
            BY <3>1, <2>1, <2>2, <2>4, <2>5
        <3>2. CASE c # call
            <4>1. server'[c] = server[c]
                BY <3>2, <2>2
            <4> QED
                BY <4>1, <3>2 DEF RetryInv, HandlersSound
        <3> QED
            BY <3>1, <3>2
    <2>7. LogKnown'
        BY <1>2 DEF RetryInv, LogKnown, Range
    <2>8. ASSUME NEW e \in 1..last PROVE Tally(e)' <= 1 + call
        <3>1. Stored(e)' = Stored(e)
            BY <1>2 DEF Stored
        <3>2. /\ Ids(Pending)' = Ids(Pending) /\ Ids(flush.batch)' = Ids(flush.batch)
            BY <1>1, <2>1 DEF Ids
        <3>3. \A c \in Calls : Ids(server[c])' = Ids(server'[c])
            BY DEF Ids
        <3>4. Tally(e) <= 1 + call
            BY DEF RetryInv, Counted
        <3>5. call \notin Carrying(e)
            BY <1>4, IdsEmpty DEF Carrying
        <3>6. CASE e \in Ids(flush.batch)
            <4>1. Owed(e) /\ ~Owed(e)'
                BY <3>2, <3>6, <2>1, <2>4, <1>2 DEF Owed
            <4>2. Due(e) = 1 /\ Due(e)' = 0
                BY <4>1 DEF Due
            <4>3. Carrying(e)' = Carrying(e) \cup {call}
                BY <3>3, <3>6, <2>2, <1>3 DEF Carrying
            <4>4. Cardinality(Carrying(e)') = Cardinality(Carrying(e)) + 1
                BY <4>3, <3>5, <1>3, TallyParts, FS_AddElement
            <4> QED
                BY <3>1, <3>4, <4>2, <4>4, <1>3, TallyParts DEF Tally
        <3>7. CASE e \notin Ids(flush.batch)
            <4>1. Owed(e)' => Owed(e)
                BY <3>2, <1>2 DEF Owed
            <4>2. Due(e)' <= Due(e) /\ Due(e)' \in 0..1
                BY <4>1 DEF Due
            <4>3. Carrying(e)' = Carrying(e)
                BY <3>3, <3>5, <3>7, <2>2, <1>3 DEF Carrying
            <4> QED
                BY <3>1, <3>4, <4>2, <4>3, <1>3, TallyParts DEF Tally
        <3> QED
            BY <3>6, <3>7
    <2> QED
        BY <1>1, <1>2, <2>6, <2>7, <2>8 DEF RetryInv, Counted
<1> QED
    BY <1>2, <1>5, <1>6

(* A handler's list gets shorter.                                          *)
LEMMA ShorterHandler ==
    ASSUME RetryInv, NEW c \in Calls, NEW s \in Seq(Events), Ordered(s),
           Ids(s) \subseteq Ids(server[c]), server[c] # <<>>,
           server' = [server EXCEPT ![c] = s],
           flush' = flush, call' = call, last' = last
    PROVE  /\ HandlersSound'
           /\ \A e : Carrying(e)' = IF e \in Ids(s) THEN Carrying(e)
                                    ELSE Carrying(e) \ {c}
<1>1. server \in [Calls -> Seq(Events)]
    BY DEF RetryInv, SpoolInv, TypeOK
<1>2. server'[c] = s /\ \A x \in Calls \ {c} : server'[x] = server[x]
    BY <1>1
<1>3. HandlersSound'
    <2> SUFFICES ASSUME NEW x \in Calls
                 PROVE  /\ Ordered(server'[x]) /\ Ids(server'[x]) \subseteq 1..last
                        /\ server'[x] # <<>> => x < call \/ (x = call /\ flush.pc = "sent")
        BY DEF HandlersSound, Ordered, Ids
    <2>1. CASE x = c
        BY <2>1, <1>2 DEF RetryInv, HandlersSound
    <2>2. CASE x # c
        <3>1. server'[x] = server[x]
            BY <2>2, <1>2
        <3> QED
            BY <3>1 DEF RetryInv, HandlersSound
    <2> QED
        BY <2>1, <2>2
<1>4. ASSUME NEW e
      PROVE  Carrying(e)' = IF e \in Ids(s) THEN Carrying(e) ELSE Carrying(e) \ {c}
    <2>1. \A x \in Calls : Ids(server[x])' = Ids(server'[x])
        BY DEF Ids
    <2> QED
        BY <2>1, <1>2 DEF Carrying
<1> QED
    BY <1>3, <1>4

LEMMA SameDue ==
    ASSUME flush' = flush, file' = file, NEW e
    PROVE  Due(e)' = Due(e)
<1>1. Pending' = Pending
    BY DEF Pending, Held
<1>2. Ids(Pending)' = Ids(Pending) /\ Ids(flush.batch)' = Ids(flush.batch)
    BY <1>1 DEF Ids
<1> QED
    BY <1>2 DEF Due, Owed

(* An event goes from its handler into the log.                            *)
LEMMA IngestRetry == ASSUME RetryInv, NEW c \in Calls, Ingest(c) PROVE RetryInv'
<1> DEFINE h == Head(server[c]).id
<1>1. SpoolInv'
    BY IngestStep DEF RetryInv
<1>2. /\ server[c] # <<>> /\ log' = Append(log, h)
      /\ server' = [server EXCEPT ![c] = Tail(server[c])]
      /\ file' = file /\ flush' = flush /\ call' = call /\ last' = last
    BY DEF Ingest
<1>3. /\ TypeOK /\ server[c] \in Seq(Events) /\ log \in Seq(1..MaxEvents)
      /\ call \in Nat
    <2>1. TypeOK /\ server[c] \in Seq(Events) /\ log \in Seq(1..MaxEvents)
        BY DEF RetryInv, SpoolInv, TypeOK
    <2> QED
        BY <2>1, SpoolAssumption DEF TypeOK, Calls
<1>4. /\ Tail(server[c]) \in Seq(Events) /\ h \in 1..MaxEvents
      /\ Ids(server[c]) = {h} \cup Ids(Tail(server[c]))
    BY <1>2, <1>3, IdsHeadTail DEF Events
<1>5. Ordered(Tail(server[c])) /\ h \notin Ids(Tail(server[c]))
    BY <1>2, <1>3, OrderedTail DEF RetryInv, HandlersSound
<1>6. /\ HandlersSound'
      /\ \A e : Carrying(e)' = IF e \in Ids(Tail(server[c])) THEN Carrying(e)
                               ELSE Carrying(e) \ {c}
    BY <1>2, <1>4, <1>5, ShorterHandler
<1>7. h \in 1..last
    BY <1>4 DEF RetryInv, HandlersSound
<1>8. LogKnown'
    <2>1. Range(log') = Range(log) \cup {h}
        BY <1>2, <1>3, <1>4, RangeAppend
    <2>2. Range(log)' = Range(log')
        BY DEF Range
    <2> QED
        BY <2>1, <2>2, <1>2, <1>7 DEF RetryInv, LogKnown
<1> HIDE DEF h
<1>9. ASSUME NEW e \in 1..last PROVE Tally(e)' <= 1 + call
    <2>1. Tally(e) <= 1 + call
        BY DEF RetryInv, Counted
    <2>2. Due(e)' = Due(e)
        BY <1>2, SameDue
    <2>3. /\ Len(log) \in Nat /\ DOMAIN log = 1..Len(log)
          /\ DOMAIN log' = 1..(Len(log) + 1)
          /\ \A i \in 1..Len(log) : log'[i] = log[i]
          /\ log'[Len(log) + 1] = h
        <3>1. /\ Append(log, h) \in Seq(1..MaxEvents)
              /\ Len(Append(log, h)) = Len(log) + 1
              /\ \A i \in 1..Len(log) : Append(log, h)[i] = log[i]
              /\ Append(log, h)[Len(log) + 1] = h
            BY <1>3, <1>4, AppendProperties
        <3>2. DOMAIN Append(log, h) = 1..Len(Append(log, h))
            BY <3>1, LenProperties
        <3> QED
            BY <3>1, <3>2, <1>2, <1>3, LenProperties
    <2>4. 1..(Len(log) + 1) = 1..Len(log) \cup {Len(log) + 1}
          /\ Len(log) + 1 \notin 1..Len(log)
        BY <2>3
    <2>5. CASE e = h
        <3>1. Stored(e)' = Stored(e) \cup {Len(log) + 1} /\ Len(log) + 1 \notin Stored(e)
            BY <2>3, <2>4, <2>5 DEF Stored
        <3>2. Cardinality(Stored(e)') = Cardinality(Stored(e)) + 1
            BY <3>1, <1>3, TallyParts, FS_AddElement
        <3>3. Carrying(e)' = Carrying(e) \ {c} /\ c \in Carrying(e)
            BY <2>5, <1>4, <1>5, <1>6 DEF Carrying
        <3>4. Cardinality(Carrying(e)') = Cardinality(Carrying(e)) - 1
            BY <3>3, <1>3, TallyParts, FS_RemoveElement
        <3> QED
            BY <2>1, <2>2, <3>2, <3>4, <1>3, TallyParts DEF Tally
    <2>6. CASE e # h
        <3>1. Stored(e)' = Stored(e)
            BY <2>3, <2>4, <2>6 DEF Stored
        <3>2. Carrying(e)' = Carrying(e)
            BY <2>6, <1>4, <1>6 DEF Carrying
        <3> QED
            BY <2>1, <2>2, <3>1, <3>2 DEF Tally
    <2> QED
        BY <2>5, <2>6
<1> QED
    BY <1>1, <1>2, <1>6, <1>8, <1>9 DEF RetryInv, Counted

(* A handler gives events up.                                              *)
LEMMA GivenUpRetry ==
    ASSUME RetryInv, NEW c \in Calls, Discard(c) \/ Cancelled(c) PROVE RetryInv'
<1> DEFINE s == IF Discard(c) THEN Tail(server[c]) ELSE <<>>
<1>1. SpoolInv'
    BY DiscardStep, CancelledStep DEF RetryInv
<1>2. /\ server[c] # <<>> /\ server' = [server EXCEPT ![c] = s]
      /\ file' = file /\ flush' = flush /\ call' = call /\ last' = last /\ log' = log
    <2>1. CASE Discard(c)
        <3>1. s = Tail(server[c])
            BY <2>1
        <3> QED
            BY <3>1, <2>1 DEF Discard
    <2>2. CASE ~Discard(c)
        <3>1. s = <<>> /\ Cancelled(c)
            BY <2>2
        <3> QED
            BY <3>1 DEF Cancelled
    <2> QED
        BY <2>1, <2>2
<1>3. TypeOK /\ server[c] \in Seq(Events) /\ call \in Nat
    BY SpoolAssumption DEF RetryInv, SpoolInv, TypeOK, Calls
<1>4. s \in Seq(Events) /\ Ordered(s) /\ Ids(s) \subseteq Ids(server[c])
    <2>1. CASE s = Tail(server[c])
        BY <2>1, <1>2, <1>3, IdsHeadTail, OrderedTail DEF RetryInv, HandlersSound
    <2>2. CASE s = <<>>
        <3>1. DOMAIN <<>> = {}
            BY EmptyEvents, EventSequences
        <3> QED
            BY <2>2, <3>1, EmptyEvents, IdsEmpty DEF Ordered
    <2> QED
        BY <2>1, <2>2
<1> HIDE DEF s
<1>5. /\ HandlersSound'
      /\ \A e : Carrying(e)' = IF e \in Ids(s) THEN Carrying(e) ELSE Carrying(e) \ {c}
    BY <1>2, <1>4, ShorterHandler
<1>6. LogKnown'
    BY <1>2 DEF RetryInv, LogKnown, Range
<1>7. ASSUME NEW e \in 1..last PROVE Tally(e)' <= 1 + call
    <2>1. Tally(e) <= 1 + call
        BY DEF RetryInv, Counted
    <2>2. Due(e)' = Due(e) /\ Stored(e)' = Stored(e)
        BY <1>2, SameDue DEF Stored
    <2>3. Carrying(e)' \in SUBSET Carrying(e)
        BY <1>5
    <2>4. IsFiniteSet(Carrying(e)') /\ Cardinality(Carrying(e)') <= Cardinality(Carrying(e))
        BY <2>3, <1>3, TallyParts, FS_Subset
    <2>5. Cardinality(Carrying(e)') \in Nat
        BY <2>4, FS_CardinalityType
    <2> QED
        BY <2>1, <2>2, <2>4, <2>5, <1>3, TallyParts DEF Tally
<1> QED
    BY <1>1, <1>2, <1>5, <1>6, <1>7 DEF RetryInv, Counted

(* What an acknowledgement removes was not due.                            *)
LEMMA AcknowledgedRetry == ASSUME RetryInv, Acknowledged PROVE RetryInv'
<1>1. SpoolInv' /\ Pending = flush.batch \o file /\ Pending' = file
    BY AcknowledgedStep DEF RetryInv
<1>2. /\ flush.pc = "sent" /\ server[call] = <<>> /\ flush' = Idle
      /\ file' = file /\ call' = call /\ server' = server /\ log' = log /\ last' = last
    BY DEF Acknowledged
<1>3. /\ TypeOK /\ call \in Nat /\ flush.batch \in Seq(Events) /\ file \in Seq(Events)
    BY FlushParts, SpoolAssumption DEF RetryInv, SpoolInv, TypeOK, Calls
<1>4. HandlersSound' /\ LogKnown'
    <2>1. \A c \in Calls : /\ Ids(server[c])' = Ids(server[c])
                           /\ Ordered(server[c])' = Ordered(server[c])
        BY <1>2 DEF Ids, Ordered
    <2>2. HandlersSound'
        BY <1>2, <2>1 DEF RetryInv, HandlersSound
    <2>3. LogKnown'
        BY <1>2 DEF RetryInv, LogKnown, Range
    <2> QED
        BY <2>2, <2>3
<1>5. Ids(flush.batch) \cap Ids(file) = {} /\ Ids(Pending) = Ids(flush.batch) \cup Ids(file)
    <2>1. Ordered(Pending)
        BY DEF RetryInv, SpoolInv, PendingOrdered, Ordered
    <2> QED
        BY <2>1, <1>1, <1>3, OrderedParts, IdsConcat
<1>6. ASSUME NEW e \in 1..last PROVE Tally(e)' <= 1 + call
    <2>1. Stored(e)' = Stored(e) /\ Carrying(e)' = Carrying(e)
        BY <1>2, SameCounts
    <2>2. Ids(Pending)' = Ids(file)
        BY <1>1, <1>2 DEF Ids
    <2>3. Owed(e)' => Owed(e)
        BY <2>2, <1>5 DEF Owed
    <2>4. Due(e)' <= Due(e) /\ Due(e)' \in 0..1
        BY <2>3 DEF Due
    <2>5. Tally(e) <= 1 + call
        BY DEF RetryInv, Counted
    <2> QED
        BY <2>1, <2>4, <2>5, <1>3, TallyParts DEF Tally
<1> QED
    BY <1>1, <1>2, <1>4, <1>6 DEF RetryInv, Counted

LEMMA RetryNext == RetryInv /\ [Next]_vars => RetryInv'
<1> SUFFICES ASSUME RetryInv, [Next]_vars PROVE RetryInv'
    OBVIOUS
<1>1. SpoolInv /\ SpoolInv'
    BY SpoolNext DEF RetryInv
<1>2. CASE FlushRead
    <2>1. flush'.pc = "truncate"
        BY <1>2, IdleFields DEF FlushRead, Flushes
    <2> QED
        BY <1>1, <1>2, <2>1, FlushReadStep, QuietStep DEF FlushRead
<1>3. CASE FlushTruncate
    <2>1. flush'.pc # "sent"
        BY <1>3, IdleFields DEF FlushTruncate, Flushes
    <2> QED
        BY <1>1, <1>3, <2>1, FlushTruncateStep, QuietStep DEF FlushTruncate
<1>4. CASE RequeueRead \/ RequeueClear
    <2>1. flush'.pc # "sent" /\ flush.pc # "sent" /\ Pending' = Pending
        BY <1>1, <1>4, FlushParts, RequeueReadStep, RequeueClearStep
        DEF RequeueRead, RequeueClear, Flushes, SpoolInv
    <2> QED
        BY <1>1, <1>4, <2>1, QuietStep DEF RequeueRead, RequeueClear
<1>5. CASE RequeueWrite
    <2>1. flush'.pc # "sent" /\ flush.pc # "sent" /\ Pending' = Pending
        BY <1>1, <1>5, RequeueParts, RequeueWriteStep DEF RequeueWrite
    <2> QED
        BY <1>1, <1>5, <2>1, QuietStep DEF RequeueWrite
<1>6. CASE Send \/ Acknowledged
    BY <1>6, SendRetry, AcknowledgedRetry
<1>7. ASSUME NEW z \in Sizes, SpoolAppend(z) PROVE RetryInv'
    BY <1>7, AppendRetry
<1>8. CASE SpoolAppendFails
    BY <1>1, <1>8, AppendFailsStep, QuietStep DEF SpoolAppendFails
<1>9. CASE TruncateFails
    BY <1>1, <1>9, IdleFields, TruncateFailsStep, QuietStep DEF TruncateFails
<1>10. ASSUME NEW n \in 0..MaxEvents, RequeueFails(n) PROVE RetryInv'
    <2>1. /\ flush'.pc # "sent" /\ flush.pc # "sent"
          /\ Ids(Pending') \subseteq Ids(Pending)
        BY <1>1, <1>10, RequeueParts, RequeueFailsStep DEF RequeueFails
    <2>2. server' = server /\ log' = log /\ last' = last /\ call' = call
        BY <1>10 DEF RequeueFails
    <2> QED
        BY <1>1, <2>1, <2>2, QuietStep
<1>11. ASSUME NEW c \in Calls, Ingest(c) \/ Discard(c) \/ Cancelled(c) PROVE RetryInv'
    BY <1>11, IngestRetry, GivenUpRetry
<1>12. CASE SendFails \/ Crash
    BY <1>1, <1>12, BrokenOffRetry DEF SendFails, Crash
<1>13. CASE UNCHANGED vars
    <2>1. Pending' = Pending /\ flush' = flush /\ server' = server /\ log' = log
          /\ last' = last /\ call' = call
        BY <1>13 DEF vars, Pending, Held
    <2> QED
        BY <1>1, <2>1, QuietStep
<1> QED
    BY <1>2, <1>3, <1>4, <1>5, <1>6, <1>7, <1>8, <1>9, <1>10, <1>11, <1>12, <1>13
    DEF Next, FlushStep

(* The invariant bounds the copies in the log.                             *)
LEMMA RetryInvBounds == RetryInv => DuplicatesNeedRetries
<1> SUFFICES ASSUME RetryInv, NEW e \in 1..last
             PROVE  Cardinality(Stored(e)) <= 1 + call
    BY DEF DuplicatesNeedRetries, Stored
<1>1. TypeOK /\ call \in Nat /\ Tally(e) <= 1 + call
    BY SpoolAssumption DEF RetryInv, SpoolInv, TypeOK, Calls, Counted
<1> QED
    BY <1>1, TallyParts DEF Tally

(* However acknowledgements are lost and handlers go on without a client,  *)
(* an event is stored once, and once more at most per call that broke off. *)
THEOREM DuplicatesBounded == Spec => []DuplicatesNeedRetries
<1>1. Init => RetryInv
    BY InitRetryInv
<1>2. RetryInv /\ [Next]_vars => RetryInv'
    BY RetryNext
<1>3. RetryInv => DuplicatesNeedRetries
    BY RetryInvBounds
<1> QED
    BY <1>1, <1>2, <1>3, PTL DEF Spec
=============================================================================
