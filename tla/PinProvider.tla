---------------------------- MODULE PinProvider ----------------------------
(***************************************************************************)
(* The pin of the public TLS endpoint (internal/api/pinprovider.go) and    *)
(* the rollout gate that serves it (internal/api/rollout.go).              *)
(*                                                                         *)
(* The pin comes from the configuration, from a certificate file, or from  *)
(* dialing the server's own public URL.  Dials are made by a background    *)
(* loop and, when the cached pin is due, by the requests that need it;     *)
(* dialMu lets one dial at a time run and the others take its result.      *)
(* Certificates of the endpoint are numbered in the order they are used;   *)
(* a pin is the number of its certificate, 0 the empty string.             *)
(***************************************************************************)
EXTENDS Integers

CONSTANTS Callers,      \* requests that ask for the pin at the same time
          Loop,         \* the goroutine of Run
          Refresh,      \* cfg.Refresh
          Backoff,      \* pinDialBackoff
          DialTimeout,  \* pinDialTimeout
          MaxCerts,     \* bound on the certificates of the endpoint
          MaxPinTime    \* bound on the clock

ASSUME PinAssumption ==
    /\ {Refresh, Backoff, DialTimeout, MaxCerts} \subseteq Nat \ {0}
    /\ MaxPinTime \in Nat
    /\ Loop \notin Callers

VARIABLES ptime,       \* the clock
          source,      \* p.source, fixed at construction
          configured,  \* the gate's other conditions: binaries and both URLs
          leaf,        \* the certificate the endpoint presents
          held,        \* history: when each certificate was last presented
          certFile,    \* the certificate in cfg.CertFile, 0 if unreadable
          pin, checked, errored,  \* p.pin, p.checked, p.err
          dialMu,      \* who holds p.dialMu
          dialer,      \* the requests and the loop inside dialStatus and Run
          nextDial,    \* when the loop's ticker fires
          answer       \* history: the last gate status given to a request

pinVars == <<ptime, source, configured, leaf, held, certFile, pin, checked,
             errored, dialMu, dialer, nextDial, answer>>

Dialers == Callers \cup {Loop}

Nobody == "nobody"

ASSUME NobodyAssumption == Nobody \notin Dialers

NeverChecked == -1

StaticPin == 1   \* GSSH_PUBLIC_PIN: the pin of the certificate of that day

Away == [pc |-> "away", start |-> 0, got |-> 0]

NoAnswer == [pin |-> 0, lag |-> 0, errored |-> FALSE, open |-> FALSE]

-----------------------------------------------------------------------------
PinInit ==
    /\ ptime = 0
    /\ source \in {"static", "file", "dial"}
    /\ configured \in BOOLEAN
    /\ leaf = 1
    /\ held = [n \in 1..MaxCerts |-> 0]
    /\ certFile \in {0, 1}
    /\ pin = 0 /\ checked = NeverChecked /\ errored = FALSE
    /\ dialMu = Nobody
    /\ dialer = [d \in Dialers |-> Away]
    /\ nextDial = 0
    /\ answer = NoAnswer

(* rolloutGate.status: with a pin and the other conditions, the gate is    *)
(* open; the history notes how long ago the endpoint presented the pin.    *)
Answer(p, e) ==
    answer' = [pin |-> p, lag |-> IF p = 0 THEN 0 ELSE ptime - held[p],
               errored |-> e, open |-> configured /\ p # 0]

(* The endpoint's certificate is renewed (with a new key).                 *)
RotateLeaf ==
    /\ leaf < MaxCerts
    /\ leaf' = leaf + 1
    /\ held' = [held EXCEPT ![leaf + 1] = ptime]
    /\ UNCHANGED <<ptime, source, configured, certFile, pin, checked, errored,
                   dialMu, dialer, nextDial, answer>>

(* The mounted secret is synced, or cannot be read or parsed for a while.  *)
SyncCertFile ==
    /\ source = "file"
    /\ certFile' \in {0, leaf} \ {certFile}
    /\ UNCHANGED <<ptime, source, configured, leaf, held, pin, checked, errored,
                   dialMu, dialer, nextDial, answer>>

PinTick ==
    /\ ptime < MaxPinTime
    /\ \A d \in Dialers : dialer[d].pc \in {"dialing", "dialed"} =>
                             ptime - dialer[d].start < DialTimeout
    /\ ptime' = ptime + 1
    /\ held' = [held EXCEPT ![leaf] = ptime + 1]
    /\ UNCHANGED <<source, configured, leaf, certFile, pin, checked, errored,
                   dialMu, dialer, nextDial, answer>>

(* Status for the sources that keep nothing: the configured pin, or the    *)
(* file read afresh.                                                       *)
ReadSource(c) ==
    /\ dialer[c].pc = "away"
    /\ \/ source = "static" /\ Answer(StaticPin, FALSE)
       \/ source = "file" /\ Answer(certFile, certFile = 0)
    /\ UNCHANGED <<ptime, source, configured, leaf, held, certFile, pin, checked,
                   errored, dialMu, dialer, nextDial>>

(* A mutant: the age of a missing pin is what counts.                      *)
DueOnlyWithoutPin == pin = 0

(* snapshot: is a new dial due?                                            *)
Due == \/ checked = NeverChecked
       \/ ptime - checked >= IF pin = 0 THEN Backoff ELSE Refresh

(* dialStatus: the cached pin, unless it is due.                           *)
Snapshot(c) ==
    /\ source = "dial" /\ dialer[c].pc = "away"
    /\ IF Due
       THEN /\ dialer' = [dialer EXCEPT ![c].pc = "waiting"]
            /\ UNCHANGED answer
       ELSE /\ Answer(pin, errored)
            /\ UNCHANGED dialer
    /\ UNCHANGED <<ptime, source, configured, leaf, held, certFile, pin, checked,
                   errored, dialMu, nextDial>>

(* The ticker of Run fires (at once, then every Refresh).                  *)
LoopFires ==
    /\ source = "dial" /\ dialer[Loop].pc = "away"
    /\ ptime >= nextDial
    /\ dialer' = [dialer EXCEPT ![Loop].pc = "waiting"]
    /\ nextDial' = nextDial + Refresh
    /\ UNCHANGED <<ptime, source, configured, leaf, held, certFile, pin, checked,
                   errored, dialMu, answer>>

(* dialOnce: under dialMu the cache is looked at again; another request    *)
(* may have dialed meanwhile.                                              *)
TakeOver(c) ==
    /\ c # Loop /\ dialer[c].pc = "waiting" /\ dialMu = Nobody
    /\ ~Due
    /\ Answer(pin, errored)
    /\ dialer' = [dialer EXCEPT ![c] = Away]
    /\ UNCHANGED <<ptime, source, configured, leaf, held, certFile, pin, checked,
                   errored, dialMu, nextDial>>

(* A mutant: whoever finds the pin due dials, others or not.               *)
DialUnlocked(d) ==
    /\ dialer[d].pc = "waiting"
    /\ d # Loop => Due
    /\ dialMu' = d
    /\ dialer' = [dialer EXCEPT ![d] = [@ EXCEPT !.pc = "dialing", !.start = ptime]]
    /\ UNCHANGED <<ptime, source, configured, leaf, held, certFile, pin, checked,
                   errored, nextDial, answer>>

(* A request that still finds the pin due dials; the loop dials anyway.    *)
Dial(d) ==
    /\ dialer[d].pc = "waiting" /\ dialMu = Nobody
    /\ d # Loop => Due
    /\ dialMu' = d
    /\ dialer' = [dialer EXCEPT ![d] = [@ EXCEPT !.pc = "dialing", !.start = ptime]]
    /\ UNCHANGED <<ptime, source, configured, leaf, held, certFile, pin, checked,
                   errored, nextDial, answer>>

(* dialPin: the handshake shows the certificate of this instant, or fails  *)
(* (no public URL, an untrusted chain, the timeout): got is 0.             *)
Handshake(d, got) ==
    /\ dialer[d].pc = "dialing"
    /\ got \in {0, leaf}
    /\ dialer' = [dialer EXCEPT ![d] = [@ EXCEPT !.pc = "dialed", !.got = got]]
    /\ UNCHANGED <<ptime, source, configured, leaf, held, certFile, pin, checked,
                   errored, dialMu, nextDial, answer>>

(* refreshDial after the dial: a failure keeps the last pin but counts as  *)
(* an attempt.                                                             *)
Store(d) ==
    LET got == dialer[d].got
    IN /\ dialer[d].pc = "dialed"
       /\ checked' = ptime
       /\ pin' = IF got = 0 THEN pin ELSE got
       /\ errored' = (got = 0)
       /\ dialMu' = Nobody
       /\ dialer' = [dialer EXCEPT ![d] = Away]
       /\ IF d = Loop THEN UNCHANGED answer ELSE Answer(pin', errored')
       /\ UNCHANGED <<ptime, source, configured, leaf, held, certFile, nextDial>>

PinNext == \/ RotateLeaf \/ SyncCertFile \/ PinTick \/ LoopFires
           \/ \E c \in Callers : ReadSource(c) \/ Snapshot(c) \/ TakeOver(c)
           \/ \E d \in Dialers : \/ Dial(d)
                                 \/ \E got \in 0..MaxCerts : Handshake(d, got)
                                 \/ Store(d)

PinSpec == PinInit /\ [][PinNext]_pinVars

-----------------------------------------------------------------------------
(* A pin that an open gate serves without an error was the endpoint's no   *)
(* longer than a refresh interval and a dial ago, whoever dialed it and    *)
(* however many requests and loop ticks met: an install script does not    *)
(* carry the pin of a certificate that was replaced long before.           *)
PinLag == source = "dial" /\ answer.open /\ ~answer.errored
            => answer.lag < Refresh + DialTimeout

(* The register the gate may rely on (PinRegister): a pin is never lost    *)
(* and never replaced by that of an older certificate, although dials      *)
(* of requests and of the loop finish in any order.                        *)
Register == INSTANCE PinRegister WITH current <- leaf, known <- pin

PinForward == Register!RegisterSpec
=============================================================================
