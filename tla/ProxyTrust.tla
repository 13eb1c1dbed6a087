----------------------------- MODULE ProxyTrust -----------------------------
(***************************************************************************)
(* Which peers of the agent listener may send a PROXY header               *)
(* (internal/proxytrust/proxytrust.go): addresses of the configuration,    *)
(* and those its DNS names resolve to.  The names are resolved again by a  *)
(* ticker, and out of band when an unknown peer connects; the resolutions  *)
(* run beside each other, name after name, and store their result under    *)
(* the lock in whatever order they end.                                    *)
(***************************************************************************)
EXTENDS Integers, Sequences

CONSTANTS Peers,         \* addresses
          Fixed,         \* addresses of the configured IPs and CIDRs
          HostNames,     \* t.names, in order
          Ticker,        \* the goroutine of Run
          Forced,        \* goroutines of triggerRefresh
          RefreshEvery,  \* t.refresh
          ForcedInterval,  \* forcedInterval
          LookupTimeout,   \* lookupTimeout
          MaxTrustTime,  \* bound on the clock
          MaxMoves       \* bound on the changes of the DNS

ASSUME TrustAssumption ==
    /\ Fixed \subseteq Peers /\ Ticker \notin Forced
    /\ Len(HostNames) \in Nat \ {0} /\ DOMAIN HostNames = 1..Len(HostNames)
    /\ {RefreshEvery, ForcedInterval, LookupTimeout} \subseteq Nat \ {0}
    /\ {MaxTrustTime, MaxMoves} \subseteq Nat
    /\ LookupTimeout < RefreshEvery

VARIABLES xtime,       \* the clock
          dns,         \* what each name resolves to
          seen,        \* history: when each address was last in the DNS
          steady,      \* history: what has been in the DNS from the start
          resolved,    \* t.resolved
          lastForced,  \* t.lastForced; -1 is the zero time
          round,       \* the resolutions under way
          nextTick,    \* when the ticker fires
          failing,     \* history: a resolution failed since one was stored
          moves        \* counter for the bound

trustVars == <<xtime, dns, seen, steady, resolved, lastForced, round, nextTick,
               failing, moves>>

Rounds == Forced \cup {Ticker}

InDNS(d) == UNION {d[n] : n \in DOMAIN HostNames}

Quiet == [pc |-> "idle", start |-> 0, name |-> 1, got |-> {}]

(* New: the process only starts when every name resolves.                  *)
TrustInit ==
    /\ xtime = 0
    /\ dns \in [DOMAIN HostNames -> SUBSET (Peers \ Fixed) \ {{}}]
    /\ seen = [a \in Peers |-> 0]
    /\ steady = {p \in (DOMAIN HostNames) \X Peers : p[2] \in dns[p[1]]}
    /\ resolved = InDNS(dns)
    /\ lastForced = -1
    /\ round = [g \in Rounds |-> Quiet]
    /\ nextTick = RefreshEvery
    /\ failing = FALSE /\ moves = 0

(* Pods come and go; a name may be without addresses for a while.          *)
MoveDNS(n, addrs) ==
    /\ moves < MaxMoves /\ addrs # dns[n]
    /\ moves' = moves + 1
    /\ dns' = [dns EXCEPT ![n] = addrs]
    /\ seen' = [a \in Peers |-> IF a \in InDNS(dns) THEN xtime ELSE seen[a]]
    /\ steady' = {p \in steady : p[2] \in dns'[p[1]]}
    /\ UNCHANGED <<xtime, resolved, lastForced, round, nextTick, failing>>

(* The ticker is served in time, and lookups end with their context.       *)
TrustTick ==
    /\ xtime < MaxTrustTime
    /\ round[Ticker].pc = "idle" => xtime < nextTick
    /\ \A g \in Rounds : round[g].pc # "idle" => xtime - round[g].start < LookupTimeout
    /\ xtime' = xtime + 1
    /\ UNCHANGED <<dns, seen, steady, resolved, lastForced, round, nextTick, failing, moves>>

-----------------------------------------------------------------------------
Begin(g) == round' = [round EXCEPT ![g] = [Quiet EXCEPT !.pc = "looking", !.start = xtime]]

(* Run.                                                                    *)
TickerFires ==
    /\ round[Ticker].pc = "idle" /\ xtime >= nextTick
    /\ nextTick' = nextTick + RefreshEvery
    /\ Begin(Ticker)
    /\ UNCHANGED <<xtime, dns, seen, steady, resolved, lastForced, failing, moves>>

(* Trusted.                                                                *)
Trusted(a) == a \in Fixed \cup resolved

(* ConnPolicy of an unknown peer, judged by the old set: triggerRefresh,   *)
(* at most one in forcedInterval.                                          *)
UnknownPeer(a, g) ==
    /\ ~Trusted(a)
    /\ lastForced = -1 \/ xtime - lastForced >= ForcedInterval
    /\ round[g].pc = "idle"
    /\ lastForced' = xtime
    /\ Begin(g)
    /\ UNCHANGED <<xtime, dns, seen, steady, resolved, nextTick, failing, moves>>

(* A name that fails, or has no address, fails the resolution: what the    *)
(* other names give is not used.                                           *)
FailRound(g) == [round EXCEPT ![g] = Quiet]

(* Refresh: the next name, until the last.                                 *)
AfterLookup(g) ==
    LET n == round[g].name
    IN [pc    |-> IF n < Len(HostNames) THEN "looking" ELSE "resolved",
        start |-> round[g].start,
        name  |-> IF n < Len(HostNames) THEN n + 1 ELSE n,
        got   |-> round[g].got \cup dns[n]]

Lookup(g) ==
    /\ round[g].pc = "looking" /\ dns[round[g].name] # {}
    /\ round' = [round EXCEPT ![g] = AfterLookup(g)]
    /\ UNCHANGED <<xtime, dns, seen, steady, resolved, lastForced, nextTick, failing, moves>>

LookupFails(g) ==
    /\ round[g].pc = "looking"
    /\ round' = FailRound(g)
    /\ failing' = TRUE
    /\ UNCHANGED <<xtime, dns, seen, steady, resolved, lastForced, nextTick, moves>>

(* A mutant: the result is added to the set.                               *)
AddedResult(g) == resolved \cup round[g].got

(* The set of a resolution that succeeded replaces the one before.         *)
Result(g) == round[g].got

StoreResult(g) ==
    /\ round[g].pc = "resolved"
    /\ resolved' = Result(g)
    /\ round' = [round EXCEPT ![g] = Quiet]
    /\ failing' = FALSE
    /\ UNCHANGED <<xtime, dns, seen, steady, lastForced, nextTick, moves>>

TrustNext ==
    \/ \E n \in DOMAIN HostNames, addrs \in SUBSET (Peers \ Fixed) : MoveDNS(n, addrs)
    \/ TrustTick \/ TickerFires
    \/ \E a \in Peers, g \in Forced : UnknownPeer(a, g)
    \/ \E g \in Rounds : Lookup(g) \/ LookupFails(g) \/ StoreResult(g)

TrustSpec == TrustInit /\ [][TrustNext]_trustVars

-----------------------------------------------------------------------------
LastSeen(a) == IF a \in InDNS(dns) THEN xtime ELSE seen[a]

(* The trusted set follows the DNS although resolutions overtake each      *)
(* other, fail, and answer name by name while pods move: what never left   *)
(* the DNS is always trusted, and what left it is trusted no longer than a *)
(* refresh interval and two lookups, unless resolutions have been failing  *)
(* since - the last known good set is kept then.                           *)
TrustTracksDNS ==
    /\ \A p \in steady : Trusted(p[2])
    /\ ~failing => \A a \in resolved :
          xtime - LastSeen(a) <= RefreshEvery + 2 * LookupTimeout
=============================================================================
