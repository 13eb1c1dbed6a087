---------------------------- MODULE SessionSpool ----------------------------
(***************************************************************************)
(* The session audit of one host: the spool file in which gssh-agentd      *)
(* keeps pam events (internal/agentd/session.go), the loop that flushes it *)
(* and the server's handler that ingests a batch                           *)
(* (internal/api/agent.go, agentSessions).                                 *)
(*                                                                         *)
(* Socket handlers append concurrently with the one flush loop; spoolMu is *)
(* held for reading and clearing the file, released for the network call,  *)
(* and taken again to write events back.  An event is its number in the    *)
(* order of acceptance and its size; sizes stand for bytes.                *)
(***************************************************************************)
EXTENDS Naturals, Sequences, FiniteSets, SequencesExt

CONSTANTS Sizes,      \* the sizes an event may have
          MaxSpool,   \* maxSpoolBytes
          MaxBatch,   \* maxFlushBatch
          BodyLimit,  \* what the server reads of a request body
          MaxEvents,  \* bound: events accepted
          MaxFaults   \* bound: crashes, lost answers, failed writes

ASSUME SpoolAssumption == /\ Sizes \subseteq Nat \ {0}
                          /\ MaxSpool \in Nat
                          /\ MaxBatch \in Nat \ {0}
                          /\ BodyLimit \in Nat
                          /\ MaxEvents \in Nat
                          /\ MaxFaults \in Nat

VARIABLES file,    \* the events in sessions-spool.jsonl
          torn,    \* whether the file ends in a line cut short
          mu,      \* spoolMu
          flush,   \* the flush under way: program counter and local variables
          call,    \* the number of the current call to the server
          server,  \* per call: the events its handler has still to ingest
          log,     \* the events the server ingested, in this order
          last,    \* number of events accepted
          lost,    \* history: events given up for a fault
          faults

vars == <<file, torn, mu, flush, call, server, log, last, lost, faults>>

Events == [id : 1..MaxEvents, size : Sizes]

(* A call that broke off may go on at the server; the next call then has a *)
(* number of its own.                                                      *)
Calls == 0..MaxFaults

Idle == [pc |-> "idle", raw |-> <<>>, batch |-> <<>>, rest |-> <<>>,
         existing |-> <<>>]

Init == /\ file = <<>>
        /\ torn = FALSE
        /\ mu = "free"
        /\ flush = Idle
        /\ call = 0
        /\ server = [c \in Calls |-> <<>>]
        /\ log = <<>>
        /\ last = 0
        /\ lost = {}
        /\ faults = 0

-----------------------------------------------------------------------------
TotalSize(events) == FoldLeft(LAMBDA sum, e : sum + e.size, 0, events)

Ids(events) == {events[i].id : i \in DOMAIN events}

Fault == faults < MaxFaults /\ faults' = faults + 1

(* An accepted event becomes the file's last line.  Behind a line cut      *)
(* short it is glued to that line, and parseSpool skips the two together.  *)
AppendLine(e) ==
    /\ file' = IF torn THEN file ELSE Append(file, e)
    /\ lost' = IF torn THEN lost \cup {e.id} ELSE lost
    /\ torn' = FALSE

(* A mutant: the handler appends without taking spoolMu.                   *)
AppendUnlocked(z) ==
    /\ last < MaxEvents
    /\ TotalSize(file) <= MaxSpool
    /\ last' = last + 1
    /\ AppendLine([id |-> last + 1, size |-> z])
    /\ UNCHANGED <<mu, flush, call, server, log, faults>>

(* handleSessionEvent, spoolAppend: an event is accepted.  Beyond the size *)
(* limit it is dropped and nothing changes.                                *)
SpoolAppend(z) ==
    /\ mu = "free"
    /\ last < MaxEvents
    /\ TotalSize(file) <= MaxSpool
    /\ last' = last + 1
    /\ AppendLine([id |-> last + 1, size |-> z])
    /\ UNCHANGED <<mu, flush, call, server, log, faults>>

(* The write breaks off (a full disk): 503, and part of the line stays.    *)
SpoolAppendFails ==
    /\ mu = "free"
    /\ TotalSize(file) <= MaxSpool
    /\ Fault
    /\ torn' = TRUE
    /\ UNCHANGED <<file, mu, flush, call, server, log, last, lost>>

-----------------------------------------------------------------------------
(* flushSpool: the file is read under the lock ...                         *)
FlushRead ==
    /\ flush.pc = "idle"
    /\ mu = "free"
    /\ file # <<>> \/ torn
    /\ mu' = "flush"
    /\ flush' = [Idle EXCEPT !.pc = "truncate", !.raw = file]
    /\ UNCHANGED <<file, torn, call, server, log, last, lost, faults>>

(* ... cleared, and split into the batch and a remainder; nothing is sent  *)
(* where no line parses.                                                   *)
FlushTruncate ==
    LET raw == flush.raw
        n == IF Len(raw) > MaxBatch THEN MaxBatch ELSE Len(raw)
    IN  /\ flush.pc = "truncate"
        /\ file' = <<>>
        /\ torn' = FALSE
        /\ mu' = "free"
        /\ flush' = [Idle EXCEPT !.pc = IF n = 0 THEN "idle"
                                       ELSE IF n < Len(raw) THEN "requeue"
                                       ELSE "send",
                                 !.batch = SubSeq(raw, 1, n),
                                 !.rest = SubSeq(raw, n + 1, Len(raw))]
        /\ UNCHANGED <<call, server, log, last, lost, faults>>

(* The file cannot be cleared: it stays as it is for the next tick.        *)
TruncateFails ==
    /\ flush.pc = "truncate"
    /\ Fault
    /\ mu' = "free"
    /\ flush' = Idle
    /\ UNCHANGED <<file, torn, call, server, log, last, lost>>

-----------------------------------------------------------------------------
(* requeueSpool writes back the remainder before the send, the batch after *)
(* a failed one.                                                           *)
Lines == IF flush.rest # <<>> THEN flush.rest ELSE flush.batch

AfterRequeue == IF flush.rest # <<>>
                THEN [flush EXCEPT !.pc = "send", !.rest = <<>>, !.existing = <<>>]
                ELSE Idle

(* requeueSpool: what is in the file now ...                               *)
RequeueRead ==
    /\ flush.pc = "requeue"
    /\ mu = "free"
    /\ mu' = "flush"
    /\ flush' = [flush EXCEPT !.pc = "clear", !.existing = file]
    /\ UNCHANGED <<file, torn, call, server, log, last, lost, faults>>

(* ... is put behind the lines: os.WriteFile clears the file ...           *)
RequeueClear ==
    /\ flush.pc = "clear"
    /\ file' = <<>>
    /\ flush' = [flush EXCEPT !.pc = "write"]
    /\ UNCHANGED <<torn, mu, call, server, log, last, lost, faults>>

(* A mutant: the lines are put behind what is in the file.                 *)
WriteBehind ==
    /\ flush.pc = "write"
    /\ file' = flush.existing \o Lines
    /\ mu' = "free"
    /\ flush' = AfterRequeue
    /\ UNCHANGED <<torn, call, server, log, last, lost, faults>>

(* A mutant: the lock is not released.                                     *)
WriteKeepsLock ==
    /\ flush.pc = "write"
    /\ file' = Lines \o flush.existing
    /\ flush' = AfterRequeue
    /\ UNCHANGED <<torn, mu, call, server, log, last, lost, faults>>

(* ... and writes it.                                                      *)
RequeueWrite ==
    /\ flush.pc = "write"
    /\ file' = Lines \o flush.existing
    /\ mu' = "free"
    /\ flush' = AfterRequeue
    /\ UNCHANGED <<torn, call, server, log, last, lost, faults>>

(* The write breaks off after n events, perhaps within a line (a full      *)
(* disk): logged, no retry.                                                *)
RequeueFails(n) ==
    LET all == Lines \o flush.existing
    IN  /\ flush.pc = "write"
        /\ Fault
        /\ n < Len(all)
        /\ file' = SubSeq(all, 1, n)
        /\ torn' \in BOOLEAN
        /\ lost' = lost \cup Ids(SubSeq(all, n + 1, Len(all)))
        /\ mu' = "free"
        /\ flush' = AfterRequeue
        /\ UNCHANGED <<call, server, log, last>>

-----------------------------------------------------------------------------
(* SendSessions reaches the server, which reads at most BodyLimit bytes:   *)
(* a larger batch is answered with 400.                                    *)
Send ==
    /\ flush.pc = "send"
    /\ IF TotalSize(flush.batch) > BodyLimit
       THEN /\ flush' = [flush EXCEPT !.pc = "requeue"]
            /\ UNCHANGED server
       ELSE /\ server' = [server EXCEPT ![call] = flush.batch]
            /\ flush' = [flush EXCEPT !.pc = "sent"]
    /\ UNCHANGED <<file, torn, mu, call, log, last, lost, faults>>

(* agentSessions: ingestSessionEvent, one transaction per event.           *)
Ingest(c) ==
    /\ server[c] # <<>>
    /\ log' = Append(log, Head(server[c]).id)
    /\ server' = [server EXCEPT ![c] = Tail(@)]
    /\ UNCHANGED <<file, torn, mu, flush, call, last, lost, faults>>

(* An event that cannot be stored is logged and skipped.                   *)
Discard(c) ==
    /\ server[c] # <<>>
    /\ Fault
    /\ lost' = lost \cup {Head(server[c]).id}
    /\ server' = [server EXCEPT ![c] = Tail(@)]
    /\ UNCHANGED <<file, torn, mu, flush, call, log, last>>

(* The client has gone: the request's context ends the handler's queries.  *)
Cancelled(c) ==
    /\ server[c] # <<>>
    /\ ~ (flush.pc = "sent" /\ c = call)
    /\ server' = [server EXCEPT ![c] = <<>>]
    /\ UNCHANGED <<file, torn, mu, flush, call, log, last, lost, faults>>

(* A mutant: the batch is written back after a success, too.               *)
AcknowledgedRequeues ==
    /\ flush.pc = "sent"
    /\ server[call] = <<>>
    /\ flush' = [flush EXCEPT !.pc = "requeue"]
    /\ UNCHANGED <<file, torn, mu, call, server, log, last, lost, faults>>

(* The whole batch is acknowledged.                                        *)
Acknowledged ==
    /\ flush.pc = "sent"
    /\ server[call] = <<>>
    /\ flush' = Idle
    /\ UNCHANGED <<file, torn, mu, call, server, log, last, lost, faults>>

(* The server is not reached, or its answer is not: the batch goes back.   *)
SendFails ==
    /\ flush.pc \in {"send", "sent"}
    /\ Fault
    /\ call' = call + 1
    /\ flush' = [flush EXCEPT !.pc = "requeue"]
    /\ UNCHANGED <<file, torn, mu, server, log, last, lost>>

-----------------------------------------------------------------------------
(* What the process holds in memory only.                                  *)
Held == flush.batch \o flush.rest \o
            (IF flush.pc = "write" THEN flush.existing ELSE <<>>)

(* The events on their way to the server, the next one first.              *)
Pending == Held \o file

(* gssh-agentd dies and is started again.                                  *)
Crash ==
    /\ Fault
    /\ call' = call + 1
    /\ lost' = lost \cup Ids(Held)
    /\ torn' = (torn /\ flush.pc # "write")
    /\ mu' = "free"
    /\ flush' = Idle
    /\ UNCHANGED <<file, server, log, last>>

FlushStep == \/ FlushRead \/ FlushTruncate \/ RequeueRead \/ RequeueClear
             \/ RequeueWrite \/ Send \/ Acknowledged

Next == \/ \E z \in Sizes : SpoolAppend(z)
        \/ FlushStep
        \/ SpoolAppendFails
        \/ TruncateFails
        \/ \E n \in 0..MaxEvents : RequeueFails(n)
        \/ \E c \in Calls : Ingest(c) \/ Discard(c) \/ Cancelled(c)
        \/ SendFails
        \/ Crash

Spec == Init /\ [][Next]_vars

(* The flush ticker and the server's handlers keep running.  Outages end:  *)
(* the faults are bounded.                                                 *)
FairSpec == /\ Spec
            /\ WF_vars(FlushStep)
            /\ \A c \in Calls : WF_vars(Ingest(c))

-----------------------------------------------------------------------------
(* The types of the variables.                                             *)
TypeOK ==
    /\ file \in Seq(Events)
    /\ torn \in BOOLEAN
    /\ mu \in {"free", "flush"}
    /\ flush \in [pc : {"idle", "truncate", "requeue", "clear", "write", "send", "sent"},
                  raw : Seq(Events), batch : Seq(Events), rest : Seq(Events),
                  existing : Seq(Events)]
    /\ Len(flush.batch) <= MaxBatch
    /\ call \in Calls
    /\ server \in [Calls -> Seq(Events)]
    /\ log \in Seq(1..MaxEvents)
    /\ last \in 0..MaxEvents
    /\ lost \subseteq 1..MaxEvents
    /\ faults \in 0..MaxFaults

(* Every accepted event is pending, at the server, or was given up for a   *)
(* fault (a crash, a full disk, a database error): no interleaving of the  *)
(* socket handlers with flushSpool and requeueSpool makes one disappear.   *)
Accounted == 1..last \subseteq Ids(Pending) \cup Range(log) \cup lost

(* The events are pending in the order in which they happened, each once,  *)
(* whatever was appended while a remainder or a failed batch was written   *)
(* back.                                                                   *)
PendingOrdered ==
    \A i, j \in DOMAIN Pending : i < j => Pending[i].id < Pending[j].id

(* The server sees an event twice only where a call broke off.             *)
DuplicatesNeedRetries ==
    \A e \in 1..last : Cardinality({i \in DOMAIN log : log[i] = e}) <= 1 + call

(* Outages over, the spool drains and the backlog reaches the server.      *)
Drains == <>[](Pending = <<>>)

(* agentSessions: "A single bad event must not permanently block the whole *)
(* batch."  Whatever the sizes, every pending event leaves the spool.      *)
NothingBlocksForever ==
    \A e \in 1..MaxEvents : e \in Ids(Pending) ~> e \notin Ids(Pending)
=============================================================================
