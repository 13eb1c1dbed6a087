-------------------------- MODULE PrincipalsCache --------------------------
(***************************************************************************)
(* The principals path of the host agent (internal/agentd/daemon.go).      *)
(*                                                                         *)
(* sshd runs the AuthorizedPrincipalsCommand helper for every login; the   *)
(* helper asks the daemon over the unix socket, and the daemon answers     *)
(* from a fresh cache entry, from the server, or - when the server call    *)
(* fails - from a cache entry younger than CacheTTL.  Past that it denies. *)
(* Socket requests are served concurrently; only the map accesses are      *)
(* under d.mu.  The cache is persisted after every successful call and     *)
(* read back when the daemon starts.                                       *)
(*                                                                         *)
(* A principals list is one of Lists.  acl is what the server's database   *)
(* says now; lastHeld[u][p] is the last instant at which the server's ACL  *)
(* for u was p, a history variable the staleness properties refer to.      *)
(***************************************************************************)
EXTENDS Integers

CONSTANTS Users,       \* local users of the host
          Lists,       \* principals lists the server may answer
          Lookups,     \* concurrent socket requests
          MinFresh,    \* minFresh
          ApiTimeout,  \* apiTimeout
          CacheTTL,    \* cfg.CacheTTL
          MaxTime,     \* bound on the clock
          None         \* "no entry", "no answer"

ASSUME TimesAssumption == /\ MinFresh \in Nat \ {0}
                          /\ ApiTimeout \in Nat
                          /\ CacheTTL \in Nat \ {0}
                          /\ MaxTime \in Nat

ASSUME NoneAssumption == None \notin Lists \cup Users

VARIABLES now,       \* the host's clock
          acl,       \* the server's answer for each local user
          lastHeld,  \* history: when the server last held each list
          cache,     \* d.cache
          disk,      \* the content of the cache file
          lookup,    \* the socket requests in flight
          served     \* history: the last answer given to a helper

vars == <<now, acl, lastHeld, cache, disk, lookup, served>>

-----------------------------------------------------------------------------
(* The longest an answer can lag behind the server: in general, and while  *)
(* the server keeps answering.                                             *)
OnlineBound == MinFresh + ApiTimeout

StaleBound == ApiTimeout + (IF MinFresh > CacheTTL THEN MinFresh ELSE CacheTTL)

Never == -StaleBound

Entries == [Principals : Lists, FetchedAt : 0..MaxTime]

NoEntry == [Principals |-> None, FetchedAt |-> 0]

Caches == [Users -> Entries \cup {NoEntry}]

Empty == [u \in Users |-> NoEntry]

(* The cache file missing or unparsable: it loads as the empty cache.      *)
Garbage == Empty

PCs == {"idle", "calling", "answered", "marshal", "write", "writing"}

Idle == [pc |-> "idle", user |-> None, entry |-> NoEntry, start |-> 0,
         resp |-> None, snap |-> Empty]

Records == [pc : PCs, user : Users \cup {None},
            entry : Entries \cup {NoEntry}, start : 0..MaxTime,
            resp : Lists \cup {None}, snap : Caches]

Answers == [lag : Int, from : {"fresh", "api", "fallback"}]

Init == /\ now = 0
        /\ acl \in [Users -> Lists]
        /\ lastHeld = [u \in Users |->
                         [p \in Lists |-> IF p = acl[u] THEN 0 ELSE Never]]
        /\ cache = Empty
        /\ disk = Garbage
        /\ lookup = [l \in Lookups |-> Idle]
        /\ served = None

-----------------------------------------------------------------------------
(* A mutant: the age of an entry is not looked at.                         *)
Exists(entry, limit) == entry # NoEntry

(* time.Since(entry.FetchedAt) < limit, for an entry that exists.          *)
Younger(entry, limit) == /\ entry # NoEntry
                         /\ now - entry.FetchedAt < limit

(* The list p for u goes to the helper; what is kept of it is how long ago *)
(* the server last held that list, and which of the three paths served it. *)
Answer(u, p, how) == served' = [lag |-> now - lastHeld[u][p], from |-> how]

(* The operator changes the grants behind a local user's principals.       *)
ChangeAcl(u, p) ==
    /\ p # acl[u]
    /\ acl' = [acl EXCEPT ![u] = p]
    /\ lastHeld' = [lastHeld EXCEPT ![u][p] = now]
    /\ UNCHANGED <<now, cache, disk, lookup, served>>

(* The clock advances; no call outlives its context's deadline.            *)
Tick ==
    /\ now < MaxTime
    /\ \A l \in Lookups : lookup[l].pc \in {"calling", "answered"} =>
                             now < lookup[l].start + ApiTimeout
    /\ now' = now + 1
    /\ lastHeld' = [u \in Users |-> [lastHeld[u] EXCEPT ![acl[u]] = now + 1]]
    /\ UNCHANGED <<acl, cache, disk, lookup, served>>

(* A mutant: any entry younger than CacheTTL is fresh.                     *)
ServeFreshUntilTTL(l, u) ==
    /\ lookup[l].pc = "idle"
    /\ Younger(cache[u], CacheTTL)
    /\ Answer(u, cache[u].Principals, "fresh")
    /\ UNCHANGED <<now, acl, lastHeld, cache, disk, lookup>>

(* principals: the entry is read under the lock and is fresh.              *)
ServeFresh(l, u) ==
    /\ lookup[l].pc = "idle"
    /\ Younger(cache[u], MinFresh)
    /\ Answer(u, cache[u].Principals, "fresh")
    /\ UNCHANGED <<now, acl, lastHeld, cache, disk, lookup>>

(* principals: otherwise the API call starts, with the entry in hand.      *)
StartCall(l, u) ==
    /\ lookup[l].pc = "idle"
    /\ ~ Younger(cache[u], MinFresh)
    /\ lookup' = [lookup EXCEPT ![l] =
                    [Idle EXCEPT !.pc = "calling", !.user = u,
                                 !.entry = cache[u], !.start = now]]
    /\ UNCHANGED <<now, acl, lastHeld, cache, disk, served>>

(* The server evaluates ListAuthorizedPrincipals for the request.          *)
ServerReads(l) ==
    /\ lookup[l].pc = "calling"
    /\ lookup' = [lookup EXCEPT ![l].pc = "answered",
                                ![l].resp = acl[lookup[l].user]]
    /\ UNCHANGED <<now, acl, lastHeld, cache, disk, served>>

(* principals: the answer arrives in time and replaces the cached entry,   *)
(* stamped with the time of arrival.                                       *)
ReceiveAnswer(l) ==
    LET u == lookup[l].user
        e == [Principals |-> lookup[l].resp, FetchedAt |-> now]
    IN  /\ lookup[l].pc = "answered"
        /\ cache' = [cache EXCEPT ![u] = e]
        /\ Answer(u, lookup[l].resp, "api")
        /\ lookup' = [lookup EXCEPT ![l] = [Idle EXCEPT !.pc = "marshal"]]
        /\ UNCHANGED <<now, acl, lastHeld, disk>>

(* principals: the call fails (the server unreachable or refusing, or the  *)
(* deadline passed, before or after the server read), and the entry in     *)
(* hand is still within CacheTTL.                                          *)
ServeFallback(l) ==
    /\ lookup[l].pc \in {"calling", "answered"}
    /\ Younger(lookup[l].entry, CacheTTL)
    /\ Answer(lookup[l].user, lookup[l].entry.Principals, "fallback")
    /\ lookup' = [lookup EXCEPT ![l] = Idle]
    /\ UNCHANGED <<now, acl, lastHeld, cache, disk>>

(* A mutant: the failure itself is cached, as an entry without a list.     *)
DenyCachesFailure(l) ==
    /\ lookup[l].pc \in {"calling", "answered"}
    /\ ~ Younger(lookup[l].entry, CacheTTL)
    /\ cache' = [cache EXCEPT ![lookup[l].user] =
                    [Principals |-> None, FetchedAt |-> now]]
    /\ lookup' = [lookup EXCEPT ![l] = Idle]
    /\ UNCHANGED <<now, acl, lastHeld, disk, served>>

(* A mutant: without an entry to fall back on, the call has no deadline.   *)
DenyOnlyExpired(l) ==
    /\ lookup[l].pc \in {"calling", "answered"}
    /\ lookup[l].entry # NoEntry
    /\ ~ Younger(lookup[l].entry, CacheTTL)
    /\ lookup' = [lookup EXCEPT ![l] = Idle]
    /\ UNCHANGED <<now, acl, lastHeld, cache, disk, served>>

(* principals: the call fails and there is no entry to fall back on: 503,  *)
(* and the helper prints nothing.                                          *)
Deny(l) ==
    /\ lookup[l].pc \in {"calling", "answered"}
    /\ ~ Younger(lookup[l].entry, CacheTTL)
    /\ lookup' = [lookup EXCEPT ![l] = Idle]
    /\ UNCHANGED <<now, acl, lastHeld, cache, disk, served>>

-----------------------------------------------------------------------------
(* persistCache: the map is marshalled under the lock ...                  *)
Marshal(l) ==
    /\ lookup[l].pc = "marshal"
    /\ lookup' = [lookup EXCEPT ![l].pc = "write", ![l].snap = cache]
    /\ UNCHANGED <<now, acl, lastHeld, cache, disk, served>>

(* ... os.WriteFile truncates the file, outside the lock ...               *)
Truncate(l) ==
    /\ lookup[l].pc = "write"
    /\ disk' = Garbage
    /\ lookup' = [lookup EXCEPT ![l].pc = "writing"]
    /\ UNCHANGED <<now, acl, lastHeld, cache, served>>

(* ... and fills it.  A failed write, or another writer between the two    *)
(* steps, leaves a file that does not parse.                               *)
Fill(l) ==
    /\ lookup[l].pc = "writing"
    /\ \E content \in {lookup[l].snap, Garbage} : disk' = content
    /\ lookup' = [lookup EXCEPT ![l] = Idle]
    /\ UNCHANGED <<now, acl, lastHeld, cache, served>>

(* The file cannot be opened: a warning, and the request ends.             *)
WriteFails(l) ==
    /\ lookup[l].pc = "write"
    /\ lookup' = [lookup EXCEPT ![l] = Idle]
    /\ UNCHANGED <<now, acl, lastHeld, cache, disk, served>>

(* A mutant: loadCache stamps the entries with the time of the restart.    *)
Restamped == [u \in Users |-> IF disk[u] = NoEntry THEN NoEntry
                              ELSE [disk[u] EXCEPT !.FetchedAt = now]]

(* loadCache: the file's entries, with the times they were fetched at.     *)
LoadCache == disk

(* The daemon stops at any point and starts again.                         *)
Restart ==
    /\ cache' = LoadCache
    /\ lookup' = [l \in Lookups |-> Idle]
    /\ UNCHANGED <<now, acl, lastHeld, disk, served>>

-----------------------------------------------------------------------------
DaemonStep(l) ==
    \/ ReceiveAnswer(l)
    \/ ServeFallback(l)
    \/ Deny(l)
    \/ Marshal(l)
    \/ Truncate(l)
    \/ Fill(l)
    \/ WriteFails(l)

Next == \/ \E u \in Users, p \in Lists : ChangeAcl(u, p)
        \/ Tick
        \/ \E l \in Lookups, u \in Users : ServeFresh(l, u)
        \/ \E l \in Lookups, u \in Users : StartCall(l, u)
        \/ \E l \in Lookups : ServerReads(l) \/ DaemonStep(l)
        \/ Restart

Spec == Init /\ [][Next]_vars

(* Every request's goroutine keeps running, and its call ends at the       *)
(* latest with the context's deadline.  The server may never answer.       *)
FairSpec == Spec /\ \A l \in Lookups : WF_vars(DaemonStep(l))

-----------------------------------------------------------------------------
(* The types of the variables.                                             *)
TypeOK == /\ now \in 0..MaxTime
          /\ acl \in [Users -> Lists]
          /\ lastHeld \in [Users -> [Lists -> Int]]
          /\ cache \in Caches
          /\ disk \in Caches
          /\ lookup \in [Lookups -> Records]
          /\ served \in Answers \cup {None}

(* Whatever the interleaving of lookups, late answers, failed writes and   *)
(* restarts, a list handed to sshd was the server's list less than         *)
(* CacheTTL + apiTimeout ago (minFresh + apiTimeout if CacheTTL is set     *)
(* below minFresh): a revoked grant stops working on the host within that  *)
(* time, also while the server is unreachable.                             *)
RevocationReachesHost == served # None => served.lag < StaleBound

(* While calls succeed, the lag stays below minFresh + apiTimeout: an      *)
(* answer that did not come from the fallback is that recent.              *)
OnlineLag == (served # None /\ served.from # "fallback") =>
                served.lag < OnlineBound

(* No entry, in memory, on disk, in a snapshot about to be written or in   *)
(* a lookup's hand, claims a later FetchedAt than apiTimeout after the     *)
(* server last held its list: restarts and late writers never rejuvenate.  *)
Honest(u, e) == e # NoEntry =>
                   e.FetchedAt <= lastHeld[u][e.Principals] + ApiTimeout

HonestCache(c) == \A u \in Users : Honest(u, c[u])

CacheHonest == /\ HonestCache(cache)
               /\ HonestCache(disk)
               /\ \A l \in Lookups :
                     /\ HonestCache(lookup[l].snap)
                     /\ lookup[l].user # None =>
                           Honest(lookup[l].user, lookup[l].entry)

(* The server holds its current list now, and held every list in the past. *)
HeldOK == \A u \in Users : /\ lastHeld[u][acl[u]] = now
                           /\ \A p \in Lists : lastHeld[u][p] <= now

(* A call in flight is within its deadline, and the answer on its way was  *)
(* the server's list at some instant after the call began.                 *)
CallOK(r) == r.pc \in {"calling", "answered"} =>
                /\ r.user \in Users
                /\ r.start <= now
                /\ now <= r.start + ApiTimeout
                /\ r.pc = "answered" => /\ r.resp \in Lists
                                        /\ r.start <= lastHeld[r.user][r.resp]

CallsOK == \A l \in Lookups : CallOK(lookup[l])

(* The inductive invariant behind the two bounds on staleness.             *)
IInv == /\ TypeOK
        /\ HeldOK
        /\ CacheHonest
        /\ CallsOK
        /\ RevocationReachesHost
        /\ OnlineLag

(* Every request that has started ends, with an answer or a denial.        *)
LookupsEnd == \A l \in Lookups : lookup[l].pc # "idle" ~> lookup[l].pc = "idle"
=============================================================================
