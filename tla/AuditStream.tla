---------------------------- MODULE AuditStream ----------------------------
(***************************************************************************)
(* The audit log as a stream (internal/auditstream/stream.go over          *)
(* internal/store/audit.go): transactions append events, a poller of each  *)
(* replica reads the committed ones past its cursor and sends them to the  *)
(* log and to a webhook.                                                   *)
(*                                                                         *)
(* An id is drawn when the event is inserted and becomes visible when the  *)
(* transaction commits, in any order.  The cursor lives in memory: a       *)
(* restarted replica starts at the newest event.                           *)
(***************************************************************************)
EXTENDS Integers, Sequences, FiniteSetsExt, SequencesExt

CONSTANTS MaxEvents,    \* bound on the events appended
          BatchSize,    \* batchSize
          MaxRestarts   \* bound on the restarts of the replica

ASSUME StreamAssumption == /\ {MaxEvents, BatchSize} \subseteq Nat \ {0}
                           /\ MaxRestarts \in Nat

VARIABLES event,     \* by id: not drawn, in an open transaction, or settled
          spc,       \* where Run stands
          lastID,    \* s.lastID
          batch,     \* the events drain is about to emit
          atEvent,   \* how many of them are logged
          sinks,     \* cfg: the log, the webhook, or both
          logged,    \* history: the ids logged, by all runs of the replica
          posted,    \* history: the ids the webhook received
          excused,   \* history: ids the cursor passed while nobody could see
                     \* them, or that a start left behind
          restarts   \* how often the replica was restarted

streamVars == <<event, spc, lastID, batch, atEvent, sinks, logged, posted,
                excused, restarts>>

Ids == 1..MaxEvents

Visible == {i \in Ids : event[i] = "committed"}

Open == {i \in Ids : event[i] = "open"}

StreamInit ==
    /\ event = [i \in Ids |-> "free"]
    /\ spc = "starting" /\ lastID = 0 /\ batch = <<>> /\ atEvent = 0
    /\ sinks \in SUBSET {"log", "webhook"} \ {{}}
    /\ logged = <<>> /\ posted = <<>>
    /\ excused = {} /\ restarts = 0

-----------------------------------------------------------------------------
(* insertAuditEvent: the next id of the sequence, in an open transaction.  *)
InsertAuditEvent(i) ==
    /\ event[i] = "free" /\ \A j \in 1..(i - 1) : event[j] # "free"
    /\ event' = [event EXCEPT ![i] = "open"]
    /\ UNCHANGED <<spc, lastID, batch, atEvent, sinks, logged, posted, excused, restarts>>

(* The transaction commits or rolls back; a rolled back id stays unused.   *)
Settle(i) ==
    /\ event[i] = "open"
    /\ \E outcome \in {"committed", "rolled back"} :
         event' = [event EXCEPT ![i] = outcome]
    /\ UNCHANGED <<spc, lastID, batch, atEvent, sinks, logged, posted, excused, restarts>>

(* Run: the cursor is put at the newest committed event.                   *)
Start ==
    /\ spc = "starting"
    /\ spc' = "polling"
    /\ lastID' = Max(Visible \cup {0})
    /\ excused' = excused \cup (1..lastID')
    /\ UNCHANGED <<event, batch, atEvent, sinks, logged, posted, restarts>>

(* MaxAuditEventID fails: Run returns, this replica never streams.         *)
StartFails ==
    /\ spc = "starting"
    /\ spc' = "returned"
    /\ UNCHANGED <<event, lastID, batch, atEvent, sinks, logged, posted, excused, restarts>>

Ascending(s) == \A i, j \in 1..Len(s) : i < j => s[i] < s[j]

(* Visible events past id, in the order of their ids, at most a batch.     *)
BatchesAfter(id) ==
    {s \in BoundedSeq(Ids, BatchSize) :
        Ascending(s) /\ ToSet(s) \subseteq {i \in Visible : i > id}}

(* A mutant: the newest events of the backlog.                             *)
NewestAfter(id) ==
    {s \in BatchesAfter(id) :
        \A i \in Visible : i > id =>
            i \in ToSet(s) \/ (Len(s) = BatchSize /\ i < s[1])}

(* WHERE id > $1 ORDER BY id LIMIT $2: the one batch that leaves out only  *)
(* events newer than its last.                                             *)
ListAuditEventsAfter(id) ==
    {s \in BatchesAfter(id) :
        \A i \in Visible : i > id =>
            i \in ToSet(s) \/ (Len(s) = BatchSize /\ i > Last(s))}

(* drain, on a tick or after a full batch: a failed or an empty query ends *)
(* it.  Open transactions with smaller ids are passed here.                *)
List ==
    /\ spc \in {"polling", "draining"}
    /\ \E found \in ListAuditEventsAfter(lastID) :
         IF found = <<>>
         THEN spc' = "polling" /\ UNCHANGED <<batch, atEvent, excused>>
         ELSE /\ spc' = "emitting"
              /\ batch' = found /\ atEvent' = 0
              /\ excused' = excused \cup {i \in Open : i < Last(found)}
    /\ UNCHANGED <<event, lastID, sinks, logged, posted, restarts>>

ListFails ==
    /\ spc = "draining"
    /\ spc' = "polling"
    /\ UNCHANGED <<event, lastID, batch, atEvent, sinks, logged, posted, excused, restarts>>

(* emit: one log line per event,                                           *)
LogEvent ==
    /\ spc = "emitting" /\ "log" \in sinks /\ atEvent < Len(batch)
    /\ atEvent' = atEvent + 1
    /\ logged' = Append(logged, batch[atEvent + 1])
    /\ UNCHANGED <<event, spc, lastID, batch, sinks, posted, excused, restarts>>

(* then one POST of the batch, whose failure is only logged (the webhook   *)
(* may have received it); the cursor advances in either case.              *)
Post ==
    /\ spc = "emitting"
    /\ "log" \in sinks => atEvent = Len(batch)
    /\ \/ "webhook" \in sinks /\ posted' = posted \o batch
       \/ UNCHANGED posted
    /\ lastID' = Last(batch)
    /\ spc' = IF Len(batch) < BatchSize THEN "polling" ELSE "draining"
    /\ batch' = <<>> /\ atEvent' = 0
    /\ UNCHANGED <<event, sinks, logged, excused, restarts>>

(* The replica stops anywhere and is started again.                        *)
RestartStream ==
    /\ restarts < MaxRestarts
    /\ restarts' = restarts + 1
    /\ spc' = "starting" /\ lastID' = 0 /\ batch' = <<>> /\ atEvent' = 0
    /\ UNCHANGED <<event, sinks, logged, posted, excused>>

StreamNext == \/ \E i \in Ids : InsertAuditEvent(i) \/ Settle(i)
              \/ Start \/ StartFails \/ List \/ ListFails \/ LogEvent \/ Post
              \/ RestartStream

StreamSpec == StreamInit /\ [][StreamNext]_streamVars

-----------------------------------------------------------------------------
(* No event reaches a sink twice or after a newer one, although a replica  *)
(* restarts, transactions commit out of order and the webhook fails: the   *)
(* cursor is at or past everything the earlier runs emitted.  And what the *)
(* cursor has passed was logged, except events nobody could see then -     *)
(* their transaction was open - and those older than a start of the        *)
(* replica: out of order commits cost an event, a backlog larger than a    *)
(* batch does not.                                                         *)
StreamFaithful ==
    /\ Ascending(logged) /\ Ascending(posted)
    /\ "log" \in sinks =>
          \A i \in Visible : i <= lastID => i \in ToSet(logged) \cup excused
=============================================================================
