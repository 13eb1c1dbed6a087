----------------------------- MODULE RateLimit -----------------------------
(***************************************************************************)
(* The rate limiter of the unauthenticated endpoints                       *)
(* (internal/api/ratelimit.go): two token buckets per client address, one  *)
(* debited by every admitted request, one by every answer 401 or 403.      *)
(*                                                                         *)
(* The failure budget is looked at before the handler runs and debited     *)
(* after it; both steps read the clock before they take l.mu, so a bucket  *)
(* can be refilled with an older time than the one before.  The map of     *)
(* clients is bounded, and making room may drop a client that is active.   *)
(*                                                                         *)
(* A token is Unit parts, so that a bucket can hold a fraction of one.     *)
(***************************************************************************)
EXTENDS Integers, FiniteSets

CONSTANTS Clients,        \* client addresses
          Requests,       \* request goroutines that run at the same time
          Unit,           \* parts of one token
          RequestRate,    \* RequestsPerMinute: parts refilled per tick
          Burst,          \* Burst, in parts
          FailureRate,    \* FailuresPerMinute
          FailureBurst,   \* FailureBurst, in parts
          MaxClients,     \* maxClients
          ClientIdleTTL,  \* clientIdleTTL
          MaxLag,         \* longest wait between l.now() and l.mu
          MaxHandling,    \* longest time a handler takes
          MaxTicks        \* bound on the clock

(* The comment on clientIdleTTL - an idle entry is fully refilled - is an  *)
(* assumption on the rates; the defaults satisfy it by minutes.  The stamp *)
(* of the request that finds the entry idle and the one of the client's    *)
(* next request may both be behind.  A full bucket stays worth a token     *)
(* when it is refilled with a slightly older time.                         *)
ASSUME RateAssumption ==
    /\ IsFiniteSet(Requests)
    /\ {Unit, RequestRate, FailureRate, MaxClients} \subseteq Nat \ {0}
    /\ {Burst, FailureBurst, ClientIdleTTL, MaxLag, MaxHandling, MaxTicks} \subseteq Nat
    /\ RequestRate * (ClientIdleTTL + 1 - 2 * MaxLag) >= Burst
    /\ FailureRate * (ClientIdleTTL + 1 - 2 * MaxLag - MaxHandling) >= FailureBurst
    /\ FailureBurst >= Unit + FailureRate * MaxLag

VARIABLES tick,      \* the clock
          clients,   \* l.clients
          req,       \* the requests in flight
          since,     \* history: when the accounting of a client began
          granted,   \* history: requests admitted since then
          failed     \* history: answers 401 and 403 since then

limitVars == <<tick, clients, req, since, granted, failed>>

-----------------------------------------------------------------------------
(* A bucket whose last is the zero time is filled by its first refill.     *)
Zero == -1

NewBucket == [tokens |-> 0, last |-> Zero]

NewClient(t) == [requests |-> NewBucket, failures |-> NewBucket, lastSeen |-> t]

NoClient == [requests |-> NewBucket, failures |-> NewBucket, lastSeen |-> Zero]

Tracked(m) == {c \in Clients : m[c] # NoClient}

Smaller(a, b) == IF a < b THEN a ELSE b

refill(b, t, rate, burst) ==
    [tokens |-> IF b.last = Zero THEN burst
                ELSE Smaller(burst, b.tokens + (t - b.last) * rate),
     last |-> t]

take(b) == [b EXCEPT !.tokens = IF @ >= Unit THEN @ - Unit ELSE @]

Idle(c, t) == /\ clients[c] # NoClient
              /\ t - clients[c].lastSeen > ClientIdleTTL

KeptByEvict(t) == [c \in Clients |-> IF Idle(c, t) THEN NoClient ELSE clients[c]]

(* evict: idle entries go; if that makes no room, one entry, any entry.    *)
evict(t) ==
    IF Cardinality(Tracked(KeptByEvict(t))) < MaxClients
    THEN {KeptByEvict(t)}
    ELSE {[KeptByEvict(t) EXCEPT ![v] = NoClient] : v \in Tracked(KeptByEvict(t))}

(* client: the maps in which key is present, as eviction may have left it. *)
client(key, t) ==
    IF clients[key] # NoClient THEN {clients}
    ELSE {[m EXCEPT ![key] = NewClient(t)] :
             m \in IF Cardinality(Tracked(clients)) >= MaxClients
                   THEN evict(t) ELSE {clients}}

(* The accounting starts over for a client that was dropped while active.  *)
Forgotten(c, m, t) == c \in Tracked(KeptByEvict(t)) /\ m[c] = NoClient

Account(m, key, t, admitted) ==
    /\ since' = [c \in Clients |->
                   IF Forgotten(c, m, t) THEN Zero
                   ELSE IF c = key /\ (since[c] = Zero \/ t < since[c]) THEN t
                   ELSE since[c]]
    /\ granted' = [c \in Clients |->
                     IF Forgotten(c, m, t) THEN 0
                     ELSE IF c = key THEN granted[c] + admitted ELSE granted[c]]
    /\ failed' = [c \in Clients |-> IF Forgotten(c, m, t) THEN 0 ELSE failed[c]]

-----------------------------------------------------------------------------
NoRequest == [pc |-> "idle", key |-> CHOOSE c \in Clients : TRUE, at |-> 0]

LimitInit == /\ tick = 0
             /\ clients = [c \in Clients |-> NoClient]
             /\ req = [r \in Requests |-> NoRequest]
             /\ since = [c \in Clients |-> Zero]
             /\ granted = [c \in Clients |-> 0]
             /\ failed = [c \in Clients |-> 0]

(* Time passes, but no goroutine is kept waiting beyond its bound.         *)
LimitTick ==
    /\ tick < MaxTicks
    /\ \A r \in Requests :
         /\ req[r].pc \in {"arrived", "rejected"} => tick - req[r].at < MaxLag
         /\ req[r].pc = "handling" => tick - req[r].at < MaxHandling
    /\ tick' = tick + 1
    /\ UNCHANGED <<clients, req, since, granted, failed>>

(* A request comes in: clientKey, then l.now() before the lock.            *)
Arrive(r, c) ==
    /\ req[r].pc = "idle"
    /\ req' = [req EXCEPT ![r] = [pc |-> "arrived", key |-> c, at |-> tick]]
    /\ UNCHANGED <<tick, clients, since, granted, failed>>

(* A mutant: the failure budget is not looked at.                          *)
CoveredByRequests(c) == c.requests.tokens >= Unit

(* Both budgets must cover the request; only one is debited.               *)
Covered(c) == /\ c.failures.tokens >= Unit
              /\ c.requests.tokens >= Unit

(* allow, and the answer 429 when a budget is used up.  Go evaluates take  *)
(* only when the failure budget has coverage.                              *)
Allow(r) ==
    LET key == req[r].key
        t   == req[r].at
    IN /\ req[r].pc = "arrived"
       /\ \E m \in client(key, t) :
            LET c == [requests |-> refill(m[key].requests, t, RequestRate, Burst),
                      failures |-> refill(m[key].failures, t, FailureRate, FailureBurst),
                      lastSeen |-> t]
            IN /\ clients' = [m EXCEPT ![key] =
                                IF Covered(c) THEN [c EXCEPT !.requests = take(@)] ELSE c]
               /\ req' = [req EXCEPT ![r] =
                            IF Covered(c) THEN [@ EXCEPT !.pc = "handling", !.at = tick]
                                          ELSE NoRequest]
               /\ Account(m, key, t, IF Covered(c) THEN 1 ELSE 0)
       /\ UNCHANGED tick

(* The handler answers; limit sees the status the recorder kept.           *)
Answered(r) ==
    /\ req[r].pc = "handling"
    /\ req' = [req EXCEPT ![r] = NoRequest]
    /\ UNCHANGED <<tick, clients, since, granted, failed>>

Refused(r) ==
    /\ req[r].pc = "handling"
    /\ req' = [req EXCEPT ![r] = [@ EXCEPT !.pc = "rejected", !.at = tick]]
    /\ failed' = [failed EXCEPT ![req[r].key] = @ + 1]
    /\ UNCHANGED <<tick, clients, since, granted>>

(* recordFailure: an entry that was dropped meanwhile is made again.       *)
RecordFailure(r) ==
    LET key == req[r].key
        t   == req[r].at
    IN /\ req[r].pc = "rejected"
       /\ \E m \in client(key, t) :
            /\ clients' = [m EXCEPT ![key].failures =
                             take(refill(@, t, FailureRate, FailureBurst))]
            /\ Account(m, key, t, 0)
       /\ req' = [req EXCEPT ![r] = NoRequest]
       /\ UNCHANGED tick

LimitNext == \/ LimitTick
             \/ \E r \in Requests :
                  \/ \E c \in Clients : Arrive(r, c)
                  \/ Allow(r)
                  \/ Answered(r)
                  \/ Refused(r)
                  \/ RecordFailure(r)

LimitSpec == LimitInit /\ [][LimitNext]_limitVars

-----------------------------------------------------------------------------
(* The time a client's budgets have been refilling.                        *)
Elapsed(c) == IF since[c] = Zero THEN 0 ELSE tick - since[c]

(* The budgets hold whatever the order in which stamped requests reach the *)
(* lock, and across the eviction of idle entries; only a client that is    *)
(* dropped while active starts over.  What is admitted never exceeds burst *)
(* and rate.  The failure budget is checked before the handler and debited *)
(* after it, and take never goes below zero, so n requests at a time can   *)
(* all fail on one token; that is the worst: rejected answers stay within  *)
(* n times the configured budget.                                          *)
BudgetsHold ==
    \A c \in Clients :
        /\ granted[c] * Unit <= Burst + RequestRate * Elapsed(c)
        /\ failed[c] * Unit <=
              Cardinality(Requests) * (FailureBurst + FailureRate * Elapsed(c))
=============================================================================
