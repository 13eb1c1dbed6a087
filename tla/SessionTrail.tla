---------------------------- MODULE SessionTrail ----------------------------
(***************************************************************************)
(* Who was logged in: the agent gives a session the certificate serial     *)
(* that the principals helper reported at login (internal/agentd/          *)
(* principals.go, session.go), and the server turns the events into rows   *)
(* of host_sessions (internal/store/sessions.go).                          *)
(*                                                                         *)
(* Report and session only share the local user's name, and several people *)
(* log in as the same local user.  sshd may run the helper several times   *)
(* for a login, also for several certificates the client offers, and one   *)
(* certificate serves any number of logins.  Reports may be late or lost,  *)
(* batches of events may be ingested twice, the agent may be restarted.    *)
(* The spool between agent and server (module SessionSpool) is a queue     *)
(* here: the events of wire past acked, of which those up to sent are in   *)
(* the request in flight.  Events of sudo, which only become audit         *)
(* entries, are left out.                                                  *)
(***************************************************************************)
EXTENDS Integers, Sequences, FiniteSets

CONSTANTS MaxLogins,      \* bound on the logins
          LocalUsers,     \* local accounts
          Serials,        \* serials of certificates
          MaxAsks,        \* bound on the runs of the helper
          AuthWindow,     \* authWindow
          MaxTrailTime,   \* bound on the clock
          MaxTrailFaults  \* bound on lost events, repeated batches, restarts

ASSUME TrailAssumption ==
    /\ {MaxLogins, MaxAsks, AuthWindow, MaxTrailTime, MaxTrailFaults} \subseteq Nat
    /\ Serials \subseteq Nat \ {0}

VARIABLES ttime,    \* the clock
          login,    \* the logins
          asks,     \* how often the helper ran
          underway, \* reports on their way from the helper to the agent
          recent,   \* d.recentAuth: reports, numbered as they came in
          heard,    \* how many reports came in
          wire,     \* events spooled
          acked,    \* how many of them are acknowledged
          sent,     \* the end of the batch in flight; acked without one
          done,     \* how many of them agentSessions has been through
          rows,     \* host_sessions
          shown,    \* history: the certificates shown for an account
          begun,    \* history: sessions begun so far
          lossy,    \* history: an event was lost or ingested twice
          tfaults   \* counter for the bound

uplinkVars == <<wire, acked, sent, done, rows>>

reportVars == <<asks, underway, recent, heard, shown>>

trailVars == <<ttime, login, reportVars, uplinkVars, begun, lossy, tfaults>>

Logins == 1..MaxLogins

(* cert is what the helper last ran for; serial and from, the number of    *)
(* the report, is what the session got.                                    *)
NoLogin == [pc |-> "away", user |-> "", cert |-> 0, reported |-> 0,
            started |-> 0, serial |-> 0, from |-> 0, stale |-> FALSE, clear |-> FALSE]

TrailInit == /\ ttime = 0
             /\ login = [l \in Logins |-> NoLogin]
             /\ asks = 0 /\ underway = {} /\ recent = [u \in LocalUsers |-> {}] /\ heard = 0
             /\ shown = [u \in LocalUsers |-> {}]
             /\ wire = <<>> /\ acked = 0 /\ sent = 0 /\ done = 0 /\ rows = <<>>
             /\ begun = 0 /\ lossy = FALSE /\ tfaults = 0

TrailFault == tfaults < MaxTrailFaults /\ tfaults' = tfaults + 1

TrailTick == /\ ttime < MaxTrailTime
             /\ ttime' = ttime + 1
             /\ UNCHANGED <<login, reportVars, uplinkVars, begun, lossy, tfaults>>

(* No other login of u is the only one between its report and its session  *)
(* any more.                                                               *)
Disturb(u, l) ==
    [k \in Logins |->
       IF k # l /\ login[k].user = u /\ login[k].pc \in {"asked", "opening"}
       THEN [login[k] EXCEPT !.clear = FALSE] ELSE login[k]]

-----------------------------------------------------------------------------
(* PrintPrincipals for the local user u and the certificate s; with a      *)
(* serial the helper then posts it.  The login may have asked before.      *)
Ask(l, u, s) ==
    /\ \/ login[l].pc = "away" /\ \A k \in 1..(l - 1) : login[k].pc # "away"
       \/ login[l].pc = "asked" /\ login[l].user = u
    /\ asks < MaxAsks
    /\ asks' = asks + 1
    /\ login' = [login EXCEPT ![l] =
                   [login[l] EXCEPT !.pc = "asked", !.user = u, !.cert = s,
                                    !.clear = login[l].clear /\ login[l].cert = s]]
    /\ underway' = IF s = 0 THEN underway
                 ELSE underway \cup {[login |-> l, ask |-> asks, serial |-> s]}
    /\ shown' = [shown EXCEPT ![u] = @ \cup ({s} \ {0})]
    /\ UNCHANGED <<ttime, recent, heard, uplinkVars, begun, lossy, tfaults>>

Fresh(rec) == ttime - rec.at < AuthWindow

(* recordAuth, perhaps after the helper's timeout, when the login has      *)
(* gone on; or never, as any error of the report is swallowed.             *)
RecordAuth(p) ==
    LET l == p.login
        u == login[l].user
    IN /\ underway' = underway \ {p}
       /\ recent' = [recent EXCEPT ![u] =
                       {a \in @ : Fresh(a)} \cup
                       {[serial |-> p.serial, at |-> ttime, number |-> heard]}]
       /\ heard' = heard + 1
       /\ login' = [Disturb(u, l) EXCEPT ![l] =
                      IF login[l].pc \in {"asked", "opening"}
                      THEN [login[l] EXCEPT !.reported = ttime,
                                            !.clear = (p.serial = login[l].cert)]
                      ELSE login[l]]
       /\ UNCHANGED <<ttime, asks, shown, uplinkVars, begun, lossy, tfaults>>

(* sshd refuses the login after all.                                       *)
LoginRefused(l) ==
    /\ login[l].pc = "asked"
    /\ login' = [login EXCEPT ![l].pc = "refused"]
    /\ UNCHANGED <<ttime, reportVars, uplinkVars, begun, lossy, tfaults>>

(* RunPAMSession: the event gets its time.                                 *)
PamOpen(l) ==
    /\ login[l].pc = "asked"
    /\ begun' = begun + 1
    /\ login' = [login EXCEPT ![l] = [@ EXCEPT !.pc = "opening", !.started = begun']]
    /\ UNCHANGED <<ttime, reportVars, uplinkVars, lossy, tfaults>>

(* A mutant: the report that has waited longest.                           *)
OldestFresh(recs) == {a \in recs : Fresh(a) /\
                        \A b \in recs : Fresh(b) => a.number <= b.number}

(* The report takeSerial takes: the newest in the window, if any.          *)
NewestFresh(recs) == {a \in recs : Fresh(a) /\
                        \A b \in recs : Fresh(b) => b.number <= a.number}

Taken(u) == [recent EXCEPT ![u] = @ \ NewestFresh(@)]

(* The event as it enters the spool; login is history.                     *)
Spool(l, phase) ==
    /\ wire' = Append(wire, [phase |-> phase, user |-> login[l].user,
                             started |-> login[l].started, login |-> l])
    /\ UNCHANGED <<acked, sent, done, rows>>

(* handleSessionEvent for the open: takeSerial, then the spool.            *)
SessionOpened(l) ==
    LET u   == login[l].user
        rec == NewestFresh(recent[u])
    IN /\ login[l].pc = "opening"
       /\ recent' = Taken(u)
       /\ login' = [Disturb(u, l) EXCEPT ![l] =
            [@ EXCEPT !.pc = "open",
               !.serial = IF rec = {} THEN 0 ELSE (CHOOSE a \in rec : TRUE).serial,
               !.from = IF rec = {} THEN 0 ELSE (CHOOSE a \in rec : TRUE).number + 1,
               !.stale = \E a \in rec : ttime - a.at >= AuthWindow,
               !.clear = login[l].clear /\ ttime - login[l].reported < AuthWindow,
               !.reported = 0]]
       /\ Spool(l, "open")
       /\ UNCHANGED <<ttime, asks, underway, heard, shown, begun, lossy, tfaults>>

SessionClosed(l) ==
    /\ login[l].pc = "open"
    /\ login' = [login EXCEPT ![l].pc = "closed"]
    /\ Spool(l, "close")
    /\ UNCHANGED <<ttime, reportVars, begun, lossy, tfaults>>

(* The hook fails open: a session begins or ends without its event.  When  *)
(* it was the spool that failed, the serial is gone with it.               *)
EventLost(l) ==
    /\ TrailFault
    /\ \/ /\ login[l].pc = "opening"
          /\ recent' \in {recent, Taken(login[l].user)}
          /\ login' = [Disturb(login[l].user, l) EXCEPT ![l] =
                         [@ EXCEPT !.pc = "open", !.clear = FALSE]]
       \/ /\ login[l].pc = "open"
          /\ login' = [login EXCEPT ![l].pc = "closed"]
          /\ UNCHANGED recent
    /\ lossy' = TRUE
    /\ UNCHANGED <<ttime, asks, underway, heard, shown, uplinkVars, begun>>

(* The reports live in memory only.                                        *)
AgentRestarts ==
    /\ TrailFault
    /\ recent' = [u \in LocalUsers |-> {}]
    /\ login' = [l \in Logins |-> IF login[l].pc \in {"asked", "opening"}
                                  THEN [login[l] EXCEPT !.clear = FALSE] ELSE login[l]]
    /\ UNCHANGED <<ttime, asks, underway, heard, shown, uplinkVars, begun, lossy>>

-----------------------------------------------------------------------------
OpenHostSession(rs, ev) ==
    Append(rs, [user |-> ev.user, started |-> ev.started, ended |-> FALSE])

(* A mutant: sessions that have ended are candidates too.                  *)
ClosableEver(rs, ev) == {i \in DOMAIN rs : rs[i].user = ev.user}

(* The rows the UPDATE of CloseHostSession chooses from (every session of  *)
(* sshd has the same tty, "ssh").                                          *)
Closable(rs, ev) == {i \in DOMAIN rs : rs[i].user = ev.user /\ ~rs[i].ended}

(* The one that started last is closed; without one only the audit event   *)
(* is written.                                                             *)
CloseHostSession(rs, ev) ==
    [i \in DOMAIN rs |->
       IF /\ i \in Closable(rs, ev)
          /\ \A j \in Closable(rs, ev) :
               rs[j].started < rs[i].started \/ (rs[j].started = rs[i].started /\ j <= i)
       THEN [rs[i] EXCEPT !.ended = TRUE] ELSE rs[i]]

IngestSessionEvent(rs, ev) ==
    IF ev.phase = "open" THEN OpenHostSession(rs, ev) ELSE CloseHostSession(rs, ev)

(* flushSpool posts the oldest events of the spool.                        *)
SendBatch(n) ==
    /\ sent = acked /\ sent' = n
    /\ UNCHANGED <<ttime, login, reportVars, wire, acked, done, rows, begun, lossy, tfaults>>

(* agentSessions takes them one by one, each in its own transaction,       *)
IngestEvent ==
    /\ done < sent /\ done' = done + 1
    /\ rows' = IngestSessionEvent(rows, wire[done + 1])
    /\ UNCHANGED <<ttime, login, reportVars, wire, acked, sent, begun, lossy, tfaults>>

(* discards one it cannot store,                                           *)
DiscardEvent ==
    /\ done < sent /\ done' = done + 1
    /\ TrailFault /\ lossy' = TRUE
    /\ UNCHANGED <<ttime, login, reportVars, wire, acked, sent, rows, begun>>

(* and answers at the end; without the answer the batch is sent again.     *)
BatchAnswered ==
    /\ acked < sent /\ done = sent /\ acked' = sent
    /\ UNCHANGED <<ttime, login, reportVars, wire, sent, done, rows, begun, lossy, tfaults>>

AnswerLost ==
    /\ acked < sent /\ sent' = acked /\ done' = acked
    /\ TrailFault /\ lossy' = (lossy \/ acked < done)
    /\ UNCHANGED <<ttime, login, reportVars, wire, acked, rows, begun>>

TrailNext ==
    \/ TrailTick \/ AgentRestarts
    \/ \E l \in Logins :
         \/ \E u \in LocalUsers, s \in Serials \cup {0} : Ask(l, u, s)
         \/ LoginRefused(l) \/ PamOpen(l)
         \/ SessionOpened(l) \/ SessionClosed(l) \/ EventLost(l)
    \/ \E p \in underway : RecordAuth(p)
    \/ \E n \in (acked + 1)..Len(wire) : SendBatch(n)
    \/ IngestEvent \/ DiscardEvent \/ BatchAnswered \/ AnswerLost

TrailSpec == TrailInit /\ [][TrailNext]_trailVars

-----------------------------------------------------------------------------
(* A session never carries a certificate that was not shown for its        *)
(* account, or whose report is too old, and no two sessions are given the  *)
(* same report; and a login whose account saw no other report and no other *)
(* session between a report of its certificate and its session carries     *)
(* that certificate, whatever reports of refused logins, late reports and  *)
(* second reports of other logins are still waiting.                       *)
SerialAttribution == \A l \in Logins :
    /\ login[l].from # 0 =>
         /\ login[l].serial \in shown[login[l].user]
         /\ ~login[l].stale
         /\ \A k \in Logins : login[k].from = login[l].from => k = l
    /\ login[l].pc \in {"open", "closed"} /\ login[l].clear => login[l].serial = login[l].cert

(* When all events have arrived and none was lost or ingested twice, the   *)
(* active rows of an account are as many as its sessions, although a close *)
(* event does not say which session it ends.                               *)
ActiveSessions ==
    ~lossy /\ acked = Len(wire) =>
        \A u \in LocalUsers :
            Cardinality({i \in DOMAIN rows : rows[i].user = u /\ ~rows[i].ended})
              = Cardinality({l \in Logins : login[l].user = u /\ login[l].pc = "open"})
=============================================================================
