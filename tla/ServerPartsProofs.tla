------------------------- MODULE ServerPartsProofs -------------------------
(***************************************************************************)
(* Proofs about the server's parts that MCServerParts checks: the pin      *)
(* provider, the web login, the trusted proxies, the audit stream and the  *)
(* session trail.  They hold for any number of requests, certificates,     *)
(* attempts, resolutions, events and logins and for all intervals, without *)
(* bounds on the clocks.                                                   *)
(***************************************************************************)
EXTENDS PinProvider, AuditStream, ProxyTrust, SessionTrail, UILogin,
        FiniteSetTheorems, WellFoundedInduction, TLAPS

-----------------------------------------------------------------------------
(* The pin provider.  PinForward and PinLag both rest on dialMu: between   *)
(* a handshake and the storing of its result nobody else stores a pin.     *)

DialStates == [pc : {"away", "waiting", "dialing", "dialed"},
               start : Nat, got : 0..MaxCerts]

(* The types of the pin provider's variables.                              *)
PinTypes ==
    /\ ptime \in Nat
    /\ source \in {"static", "file", "dial"}
    /\ configured \in BOOLEAN
    /\ leaf \in 1..MaxCerts
    /\ held \in [1..MaxCerts -> Nat]
    /\ pin \in 0..MaxCerts
    /\ checked \in Nat \cup {NeverChecked}
    /\ errored \in BOOLEAN
    /\ dialer \in [Dialers -> DialStates]

Dialing(d) == dialer[d].pc \in {"dialing", "dialed"}

(* Who dials holds dialMu, and no dial outlasts its timeout.               *)
DialLocked ==
    \A d \in Dialers : Dialing(d) => /\ dialMu = d
                                     /\ dialer[d].start <= ptime
                                     /\ ptime - dialer[d].start <= DialTimeout

(* The endpoint presents its newest certificate now, the others before.    *)
HeldUntilNow ==
    /\ held[leaf] = ptime
    /\ \A n \in 1..MaxCerts : held[n] <= ptime

(* What a handshake has shown was presented since the dial began, and is   *)
(* no older than the stored pin.                                           *)
HandshakeRecent ==
    \A d \in Dialers : dialer[d].pc = "dialed" /\ dialer[d].got # 0 =>
        /\ pin <= dialer[d].got /\ dialer[d].got <= leaf
        /\ held[dialer[d].got] >= dialer[d].start

(* The stored pin was presented at most a dial before it was stored.       *)
PinRecent ==
    /\ pin <= leaf
    /\ checked <= ptime
    /\ pin # 0 /\ ~errored =>
          checked # NeverChecked /\ checked - held[pin] <= DialTimeout

(* The inductive invariant.                                                *)
PinInv == /\ PinTypes /\ DialLocked /\ HeldUntilNow /\ HandshakeRecent /\ PinRecent
          /\ PinLag

(* The intervals are positive.                                             *)
LEMMA PinConstants == /\ MaxCerts \in Nat /\ MaxCerts >= 1
                      /\ DialTimeout \in Nat /\ DialTimeout >= 1
                      /\ Refresh \in Nat /\ Refresh >= 1
                      /\ Backoff \in Nat
BY PinAssumption

(* The states a dialer goes through.                                       *)
LEMMA DialerStates ==
    /\ Away \in DialStates
    /\ \A x \in DialStates, g \in 0..MaxCerts, n \in Nat :
           /\ [x EXCEPT !.pc = "waiting"] \in DialStates
           /\ [x EXCEPT !.pc = "dialing", !.start = n] \in DialStates
           /\ [x EXCEPT !.pc = "dialed", !.got = g] \in DialStates
           /\ x.start \in Nat /\ x.got \in 0..MaxCerts
<1>1. 0 \in 0..MaxCerts
    BY PinConstants
<1>2. Away \in DialStates
    BY <1>1 DEF DialStates, Away
<1> SUFFICES ASSUME NEW x \in DialStates, NEW g \in 0..MaxCerts, NEW n \in Nat
             PROVE  /\ [x EXCEPT !.pc = "waiting"] \in DialStates
                    /\ [x EXCEPT !.pc = "dialing", !.start = n] \in DialStates
                    /\ [x EXCEPT !.pc = "dialed", !.got = g] \in DialStates
                    /\ x.start \in Nat /\ x.got \in 0..MaxCerts
    BY <1>2
<1>3. [x EXCEPT !.pc = "waiting"] \in DialStates
    BY DEF DialStates
<1>4. [x EXCEPT !.pc = "dialing", !.start = n] \in DialStates
    BY DEF DialStates
<1>5. [x EXCEPT !.pc = "dialed", !.got = g] \in DialStates
    BY DEF DialStates
<1> QED
    BY <1>3, <1>4, <1>5 DEF DialStates

(* Nothing is cached and nobody dials at first.                            *)
LEMMA InitPinInv == PinInit => PinInv
<1> SUFFICES ASSUME PinInit PROVE PinInv
    OBVIOUS
<1> USE PinConstants DEF PinInit, NeverChecked
<1>1. PinTypes
    <2>1. Away \in DialStates
        BY DialerStates
    <2>2. dialer \in [Dialers -> DialStates]
        BY <2>1
    <2>3. errored \in BOOLEAN /\ configured \in BOOLEAN
        OBVIOUS
    <2>4. held \in [1..MaxCerts -> Nat]
        OBVIOUS
    <2> QED
        BY <2>2, <2>3, <2>4 DEF PinTypes
<1>2. DialLocked /\ HandshakeRecent
    BY DEF DialLocked, HandshakeRecent, Dialing, Away
<1>3. HeldUntilNow /\ PinRecent
    BY DEF HeldUntilNow, PinRecent
<1>4. PinLag
    BY DEF PinLag, NoAnswer
<1> QED
    BY <1>1, <1>2, <1>3, <1>4 DEF PinInv

(* The steps of the endpoint, the file and the clock.                      *)
LEMMA EndpointStep == PinInv /\ (RotateLeaf \/ SyncCertFile \/ PinTick) => PinInv'
<1> SUFFICES ASSUME PinInv, RotateLeaf \/ SyncCertFile \/ PinTick PROVE PinInv'
    OBVIOUS
<1> USE PinConstants DEF PinInv, PinTypes, DialStates, DialLocked, HeldUntilNow,
       HandshakeRecent, PinRecent, PinLag, Dialing, NeverChecked
<1>1. CASE RotateLeaf
    <2> USE <1>1 DEF RotateLeaf
    <2>1. /\ leaf' = leaf + 1 /\ leaf' \in 1..MaxCerts /\ held' \in [1..MaxCerts -> Nat]
          /\ held'[leaf'] = ptime
          /\ \A n \in 1..MaxCerts : held'[n] >= held[n] /\ held'[n] <= ptime
        OBVIOUS
    <2>2. PinTypes' /\ DialLocked' /\ HeldUntilNow'
        BY <2>1
    <2>3. HandshakeRecent'
        <3> SUFFICES ASSUME NEW d \in Dialers, dialer[d].pc = "dialed", dialer[d].got # 0
                     PROVE  /\ pin <= dialer[d].got /\ dialer[d].got <= leaf'
                            /\ held'[dialer[d].got] >= dialer[d].start
            OBVIOUS
        <3>1. dialer[d].got \in 1..MaxCerts /\ dialer[d].start \in Nat
            OBVIOUS
        <3>2. /\ pin <= dialer[d].got /\ dialer[d].got <= leaf
              /\ held[dialer[d].got] >= dialer[d].start
            OBVIOUS
        <3>3. held'[dialer[d].got] >= held[dialer[d].got] /\ leaf' >= leaf
            BY <2>1, <3>1
        <3>4. /\ held[dialer[d].got] \in Nat /\ held'[dialer[d].got] \in Nat
              /\ leaf \in Nat /\ leaf' \in Nat /\ dialer[d].got \in Nat
            BY <2>1, <3>1
        <3> HIDE PinConstants DEF PinInv, PinTypes, DialStates, DialLocked, HeldUntilNow,
               HandshakeRecent, PinRecent, PinLag, Dialing, NeverChecked
        <3> HIDE <1>1 DEF RotateLeaf
        <3> QED
            BY <3>1, <3>2, <3>3, <3>4
    <2>4. PinRecent'
        BY <2>1
    <2>5. PinLag'
        OBVIOUS
    <2> QED
        BY <2>2, <2>3, <2>4, <2>5
<1>2. CASE SyncCertFile
    BY <1>2 DEF SyncCertFile
<1>3. CASE PinTick
    <2> USE <1>3 DEF PinTick
    <2>1. PinTypes'
        OBVIOUS
    <2>2. DialLocked'
        OBVIOUS
    <2>3. HeldUntilNow' /\ \A n \in 1..MaxCerts : held'[n] >= held[n]
        OBVIOUS
    <2>4. HandshakeRecent'
        <3> SUFFICES ASSUME NEW d \in Dialers, dialer[d].pc = "dialed", dialer[d].got # 0
                     PROVE  /\ pin <= dialer[d].got /\ dialer[d].got <= leaf
                            /\ held'[dialer[d].got] >= dialer[d].start
            OBVIOUS
        <3>1. dialer[d].got \in 1..MaxCerts /\ dialer[d].start \in Nat
            OBVIOUS
        <3> QED
            BY <2>1, <2>3, <3>1
    <2>5. PinRecent'
        BY <2>1, <2>3
    <2> QED
        BY <2>1, <2>2, <2>3, <2>4, <2>5
<1> QED
    BY <1>1, <1>2, <1>3

(* An answer from the cache is as recent as the cache.                     *)
LEMMA CachedAnswer == PinInv /\ ~Due /\ Answer(pin, errored) /\ UNCHANGED source => PinLag'
BY PinConstants
   DEF PinInv, PinTypes, PinRecent, Due, Answer, PinLag, NeverChecked

(* The steps of a request or of the loop up to the dial.                   *)
LEMMA WaitStep ==
    ASSUME PinInv, NEW d \in Dialers,
           \/ ReadSource(d) \/ Snapshot(d) \/ TakeOver(d) \/ Dial(d)
           \/ d = Loop /\ LoopFires
    PROVE  PinInv'
<1> USE PinConstants DEF PinInv, PinTypes, DialStates, DialLocked, HeldUntilNow,
       HandshakeRecent, PinRecent, Dialing, NeverChecked
<1>1. CASE ReadSource(d)
    BY <1>1 DEF ReadSource, PinLag
<1>2. CASE Snapshot(d)
    <2>1. PinLag'
        BY <1>2, CachedAnswer DEF Snapshot, PinLag
    <2>2. CASE dialer' = dialer
        BY <1>2, <2>1, <2>2 DEF Snapshot
    <2>3. CASE dialer' = [dialer EXCEPT ![d].pc = "waiting"]
        BY <1>2, <2>1, <2>3 DEF Snapshot
    <2> QED
        BY <1>2, <2>2, <2>3 DEF Snapshot
<1>3. CASE TakeOver(d)
    <2>1. PinLag'
        BY <1>3, CachedAnswer DEF TakeOver
    <2>2. dialer' = [dialer EXCEPT ![d] = Away] /\ Away \in DialStates /\ Away.pc = "away"
        BY <1>3, DialerStates DEF TakeOver, Away
    <2>3. /\ \A e \in Dialers : dialer'[e] = dialer[e] \/ ~Dialing(e)'
          /\ dialer' \in [Dialers -> DialStates]
        BY <2>2
    <2>4. PinTypes'
        BY <1>3, <2>3 DEF TakeOver
    <2>5. DialLocked' /\ HandshakeRecent'
        BY <1>3, <2>3 DEF TakeOver
    <2> QED
        BY <1>3, <2>1, <2>4, <2>5 DEF TakeOver
<1>4. CASE Dial(d)
    <2>1. \A e \in Dialers : ~Dialing(e)
        BY <1>4, NobodyAssumption DEF Dial
    <2>2. dialer' = [dialer EXCEPT ![d] = [dialer[d] EXCEPT !.pc = "dialing", !.start = ptime]]
        BY <1>4 DEF Dial
    <2>3. PinTypes'
        <3>1. [dialer[d] EXCEPT !.pc = "dialing", !.start = ptime] \in DialStates
            OBVIOUS
        <3> QED
            BY <1>4, <2>2, <3>1 DEF Dial
    <2>4. DialLocked' /\ HandshakeRecent'
        BY <1>4, <2>1, <2>2 DEF Dial
    <2> QED
        BY <1>4, <2>3, <2>4 DEF Dial, PinLag
<1>5. CASE d = Loop /\ LoopFires
    BY <1>5 DEF LoopFires, PinLag
<1> QED
    BY <1>1, <1>2, <1>3, <1>4, <1>5

(* The handshake shows the certificate of this instant.                    *)
LEMMA HandshakeStep ==
    ASSUME PinInv, NEW d \in Dialers, NEW got \in 0..MaxCerts, Handshake(d, got)
    PROVE  PinInv'
<1> USE PinConstants DEF PinInv, Handshake, NeverChecked
<1>1. dialer' = [dialer EXCEPT ![d] = [dialer[d] EXCEPT !.pc = "dialed", !.got = got]]
    OBVIOUS
<1>2. PinTypes'
    <2>1. [dialer[d] EXCEPT !.pc = "dialed", !.got = got] \in DialStates
        BY DialerStates DEF PinTypes
    <2> QED
        BY <1>1, <2>1 DEF PinTypes
<1>3. DialLocked'
    BY <1>1 DEF PinTypes, DialStates, DialLocked, Dialing
<1>4. HandshakeRecent'
    <2>1. \A e \in Dialers \ {d} : dialer'[e] = dialer[e]
        BY <1>1 DEF PinTypes
    <2>2. dialer'[d].got = got /\ dialer'[d].start = dialer[d].start /\ dialer[d].start <= ptime
        BY <1>1 DEF PinTypes, DialStates, DialLocked, Dialing
    <2> QED
        BY <2>1, <2>2 DEF PinTypes, HandshakeRecent, HeldUntilNow, PinRecent
<1> QED
    BY <1>2, <1>3, <1>4 DEF HeldUntilNow, PinRecent, PinLag

(* Storing the result: nobody else is dialing, so nobody's is overtaken.   *)
LEMMA StoreStep ==
    ASSUME PinInv, NEW d \in Dialers, Store(d)
    PROVE  PinInv' /\ (pin' # pin => pin' \in 1..leaf /\ pin' >= pin) /\ leaf' = leaf
<1> USE PinConstants DEF PinInv, PinTypes, NeverChecked
<1>1. \A e \in Dialers : Dialing(e) => e = d
    BY DEF DialLocked, Dialing, Store
<1>2. /\ \A e \in Dialers : ~Dialing(e)'
      /\ dialer[d].got \in 0..MaxCerts /\ dialer[d].start \in Nat
    BY <1>1, DialerStates DEF Store, Dialing, Away
<1>3. PinTypes'
    <2>1. Away \in DialStates
        BY DialerStates
    <2>2. dialer' \in [Dialers -> DialStates]
        BY <2>1 DEF Store
    <2>3. errored' \in BOOLEAN /\ pin' \in 0..MaxCerts
        BY <1>2 DEF Store
    <2> QED
        BY <2>2, <2>3 DEF Store
<1>4. DialLocked' /\ HeldUntilNow' /\ HandshakeRecent'
    BY <1>2 DEF Store, DialLocked, HeldUntilNow, HandshakeRecent, Dialing
<1>5. PinRecent' /\ (pin' # pin => pin' \in 1..leaf /\ pin' >= pin)
    <2>1. /\ dialer[d].start <= ptime /\ ptime - dialer[d].start <= DialTimeout
          /\ UNCHANGED <<ptime, leaf, held>> /\ checked' = ptime
        BY DEF Store, DialLocked, Dialing
    <2>2. CASE dialer[d].got = 0
        <3>1. errored' /\ pin' = pin
            BY <2>2 DEF Store
        <3> QED
            BY <2>1, <3>1 DEF PinRecent
    <2>3. CASE dialer[d].got # 0
        <3>1. /\ pin <= dialer[d].got /\ dialer[d].got <= leaf
              /\ held[dialer[d].got] >= dialer[d].start
            BY <2>3 DEF Store, HandshakeRecent
        <3>2. pin' = dialer[d].got
            BY <2>3 DEF Store
        <3>3. held[pin'] \in Nat /\ held'[pin'] = held[pin']
            BY <1>2, <2>1, <2>3, <3>2
        <3>4. pin' \in 1..leaf /\ pin' >= pin /\ pin' <= leaf'
            BY <1>2, <2>1, <2>3, <3>1, <3>2
        <3>5. held'[pin'] >= dialer[d].start /\ held'[pin'] \in Nat
            BY <3>1, <3>2, <3>3
        <3>6. ptime \in Nat /\ dialer[d].start \in Nat /\ DialTimeout \in Nat
            BY <1>2
        <3>7. checked' - held'[pin'] <= DialTimeout /\ checked' # NeverChecked
            <4> HIDE PinConstants DEF PinInv, PinTypes
            <4> QED
                BY <2>1, <3>5, <3>6
        <3> QED
            BY <2>1, <3>4, <3>7 DEF PinRecent
    <2> QED
        BY <2>2, <2>3
<1>6. PinLag'
    <2>1. CASE answer' = answer
        BY <2>1 DEF Store, PinLag
    <2>2. CASE Answer(pin', errored')
        BY <1>3, <1>5, <2>2 DEF Store, Answer, PinRecent, PinLag
    <2> QED
        BY <2>1, <2>2 DEF Store
<1> QED
    BY <1>3, <1>4, <1>5, <1>6 DEF Store

(* Every step keeps the invariant.                                         *)
LEMMA PinStep == PinInv /\ [PinNext]_pinVars => PinInv'
<1> SUFFICES ASSUME PinInv, [PinNext]_pinVars PROVE PinInv'
    OBVIOUS
<1>1. CASE UNCHANGED pinVars
    BY <1>1 DEF pinVars, PinInv, PinTypes, DialLocked, HeldUntilNow, HandshakeRecent,
                PinRecent, PinLag, Dialing
<1>2. CASE PinNext
    BY <1>2, EndpointStep, WaitStep, HandshakeStep, StoreStep DEF PinNext, Dialers
<1> QED
    BY <1>1, <1>2

(* A pin that is served without an error was the endpoint's less than      *)
(* Refresh + pinDialTimeout ago.                                           *)
THEOREM PinLagBound == PinSpec => []PinLag
<1>1. PinInv => PinLag
    BY DEF PinInv
<1> QED
    BY <1>1, InitPinInv, PinStep, PTL DEF PinSpec

(* The provider implements the register: the pin only moves forward.       *)
THEOREM PinImplementsRegister == PinSpec => PinForward
<1>1. PinInit => Register!RegisterInit
    BY DEF PinInit, Register!RegisterInit
<1>2. PinInv /\ [PinNext]_pinVars => [Register!RegisterNext]_<<leaf, pin>>
    <2> SUFFICES ASSUME PinInv, [PinNext]_pinVars
                 PROVE  [Register!RegisterNext]_<<leaf, pin>>
        OBVIOUS
    <2>1. CASE RotateLeaf
        BY <2>1 DEF RotateLeaf, Register!RegisterNext, Register!Rotation
    <2>2. ASSUME NEW d \in Dialers, Store(d)
          PROVE  [Register!RegisterNext]_<<leaf, pin>>
        BY <2>2, StoreStep DEF Register!RegisterNext, Register!Learning
    <2>3. UNCHANGED <<leaf, pin>> \/ RotateLeaf \/ \E d \in Dialers : Store(d)
        BY DEF pinVars, PinNext, SyncCertFile, PinTick, LoopFires, ReadSource, Snapshot,
               TakeOver, Dial, Handshake
    <2> QED
        BY <2>1, <2>2, <2>3
<1> QED
    BY <1>1, <1>2, InitPinInv, PinStep, PTL DEF PinSpec, PinForward, Register!RegisterSpec

-----------------------------------------------------------------------------
(* The login of the web UI.  LoginSound speaks of cookies and answers that *)
(* are there now; the strengthening follows an attempt on its way to them, *)
(* through the browser's state cookie and the callback's copy of it.       *)

AttemptStates ==
    [pc : {"idle", "minted", "at the provider", "calling", "exchanging", "answered", "done"},
     home : Browsers, at : Browsers, began : Nat, since : Nat,
     sent : Attempts \cup {NoAttempt},
     answer : {"none", "provider error", "state missing", "state refused", "failed",
               "rejected", "no role", "session"},
     until : Nat, codeUsed : BOOLEAN, repeated : BOOLEAN, disturbed : BOOLEAN]

Cookies == [of : Attempts \cup {NoAttempt}, until : Nat]

(* The types of the login's variables.                                     *)
LoginTypes == /\ now \in Nat
              /\ attempt \in [Attempts -> AttemptStates]
              /\ stateCookie \in [Browsers -> Cookies]
              /\ session \in [Browsers -> Cookies]

(* How long after its beginning the session of an attempt may end.         *)
LongestLogin == StateTTL + MaxExchange + SessionTTL

(* Cookies are in the browser where their attempt began.                   *)
CookiesAtHome ==
    \A b \in Browsers :
        /\ stateCookie[b].of # NoAttempt => attempt[stateCookie[b].of].home = b
        /\ session[b].of # NoAttempt =>
              /\ attempt[session[b].of].home = b
              /\ session[b].until <= attempt[session[b].of].began + LongestLogin

(* A reason to refuse the state of an attempt.                             *)
Excuse(r) == r.repeated \/ r.disturbed \/ r.at # r.home

(* An attempt that nobody disturbed has its cookie while the user is at    *)
(* the identity provider,                                                  *)
CookieWaits(a) ==
    attempt[a].pc = "at the provider" /\ ~attempt[a].disturbed =>
        /\ stateCookie[attempt[a].home].of = a
        /\ stateCookie[attempt[a].home].until >= attempt[a].began + StateTTL

(* and the callback brings it along.                                       *)
CallbackKnows(a) ==
    attempt[a].pc = "calling" =>
        /\ attempt[a].sent = a => attempt[a].at = attempt[a].home
        /\ \/ Excuse(attempt[a]) \/ attempt[a].sent = a
           \/ now > attempt[a].began + StateTTL

(* What is exchanged has passed the check of its state.                    *)
ExchangeInTime(a) ==
    attempt[a].pc = "exchanging" =>
        /\ attempt[a].at = attempt[a].home
        /\ attempt[a].since <= now /\ now - attempt[a].since <= MaxExchange
        /\ attempt[a].since <= attempt[a].began + StateTTL

(* So a session is answered to the right browser, with an end in time.     *)
SessionEarned(a) ==
    attempt[a].answer = "session" =>
        /\ attempt[a].pc \in {"answered", "done"}
        /\ attempt[a].at = attempt[a].home
        /\ attempt[a].until <= attempt[a].began + LongestLogin

(* A state is refused for a reason.                                        *)
RefusalExcused(a) ==
    attempt[a].answer \in {"state missing", "state refused"} =>
        /\ attempt[a].pc \in {"answered", "done"}
        /\ Excuse(attempt[a]) \/ attempt[a].since > attempt[a].began + StateTTL

(* Where an attempt is on its way.                                         *)
AttemptOnTrack(a) == /\ attempt[a].began <= now
                     /\ CookieWaits(a) /\ CallbackKnows(a) /\ ExchangeInTime(a)
                     /\ SessionEarned(a) /\ RefusalExcused(a)

(* The inductive invariant.                                                *)
LoginInv == LoginTypes /\ CookiesAtHome /\ \A a \in Attempts : AttemptOnTrack(a)

(* The times are natural numbers.                                          *)
LEMMA LoginConstants == /\ StateTTL \in Nat /\ SessionTTL \in Nat /\ MaxExchange \in Nat
                        /\ LongestLogin \in Nat
                        /\ NoCookie \in Cookies
BY LoginAssumption DEF LongestLogin, NoCookie, Cookies

(* The invariant says what LoginSound says.                                *)
LEMMA LoginInvSound == LoginInv => LoginSound
<1> SUFFICES ASSUME LoginInv PROVE LoginSound
    OBVIOUS
<1>1. ASSUME NEW b \in Browsers, LoggedIn(b)
      PROVE  /\ attempt[session[b].of].home = b
             /\ session[b].until <= attempt[session[b].of].began
                                      + StateTTL + MaxExchange + SessionTTL
    <2>1. /\ attempt[session[b].of].home = b
          /\ session[b].until <= attempt[session[b].of].began + LongestLogin
        BY <1>1 DEF LoginInv, CookiesAtHome, LoggedIn
    <2>2. session[b].of \in Attempts
        BY <1>1 DEF LoginInv, LoginTypes, LoggedIn, Cookies
    <2>3. attempt[session[b].of].began \in Nat
        BY <2>2 DEF LoginInv, LoginTypes, AttemptStates
    <2> QED
        BY <2>1, <2>3, LoginConstants DEF LongestLogin
<1>2. ASSUME NEW a \in Attempts, attempt[a].answer \in {"state missing", "state refused"}
      PROVE  \/ attempt[a].since > attempt[a].began + StateTTL
             \/ attempt[a].repeated \/ attempt[a].disturbed
             \/ attempt[a].at # attempt[a].home
    BY <1>2 DEF LoginInv, AttemptOnTrack, RefusalExcused, Excuse
<1> QED
    BY <1>1, <1>2 DEF LoginSound

(* No attempt has begun.                                                   *)
LEMMA InitLoginInv == LoginInit => LoginInv
<1> SUFFICES ASSUME LoginInit PROVE LoginInv
    OBVIOUS
<1>1. \A b \in Browsers : NewAttempt(b) \in AttemptStates
    BY DEF NewAttempt, AttemptStates
<1>2. \A a \in Attempts : attempt[a] \in {NewAttempt(b) : b \in Browsers}
    BY DEF LoginInit
<1>3. LoginTypes
    BY <1>1, <1>2, LoginConstants DEF LoginInit, LoginTypes
<1>4. CookiesAtHome
    BY DEF LoginInit, CookiesAtHome, NoCookie
<1>5. \A a \in Attempts : AttemptOnTrack(a)
    <2> SUFFICES ASSUME NEW a \in Attempts PROVE AttemptOnTrack(a)
        OBVIOUS
    <2>1. PICK b \in Browsers : attempt[a] = NewAttempt(b)
        BY <1>2
    <2>2. attempt[a].pc = "idle" /\ attempt[a].began = 0 /\ attempt[a].answer = "none"
        BY <2>1 DEF NewAttempt
    <2> QED
        BY <2>2 DEF LoginInit, AttemptOnTrack, CookieWaits, CallbackKnows, ExchangeInTime,
                    SessionEarned, RefusalExcused
<1> QED
    BY <1>3, <1>4, <1>5 DEF LoginInv

(* Equal but for the notes of the history and the code.                    *)
SameFields(r, t) ==
    /\ r.pc = t.pc /\ r.home = t.home /\ r.at = t.at /\ r.began = t.began
    /\ r.since = t.since /\ r.sent = t.sent /\ r.answer = t.answer
    /\ r.until = t.until /\ r.repeated = t.repeated

(* Disturbing attempts changes nothing else about them.                    *)
LEMMA DisturbedFields ==
    ASSUME NEW f \in [Attempts -> AttemptStates], NEW a, NEW b, NEW g, g = Disturbed(f, a, b)
    PROVE  /\ g \in [Attempts -> AttemptStates]
           /\ \A x \in Attempts :
                 /\ SameFields(g[x], f[x])
                 /\ f[x].disturbed => g[x].disturbed
                 /\ x # a /\ f[x].home = b /\ f[x].pc = "at the provider" => g[x].disturbed
<1>0. /\ g = [x \in Attempts |->
               IF x # a /\ f[x].home = b /\ f[x].pc = "at the provider"
               THEN [f[x] EXCEPT !.disturbed = TRUE] ELSE f[x]]
      /\ \A x \in Attempts : f[x] \in AttemptStates
    BY DEF Disturbed
<1>1. ASSUME NEW x \in Attempts
      PROVE  /\ g[x] \in AttemptStates
             /\ SameFields(g[x], f[x])
             /\ f[x].disturbed => g[x].disturbed
             /\ x # a /\ f[x].home = b /\ f[x].pc = "at the provider" => g[x].disturbed
    <2>1. CASE x # a /\ f[x].home = b /\ f[x].pc = "at the provider"
        <3>1. g[x] = [f[x] EXCEPT !.disturbed = TRUE]
            BY <1>0, <2>1
        <3>2. f[x] \in AttemptStates
            BY <1>0
        <3> QED
            BY <3>1, <3>2 DEF AttemptStates, SameFields
    <2>2. CASE ~(x # a /\ f[x].home = b /\ f[x].pc = "at the provider")
        <3>1. g[x] = f[x]
            BY <1>0, <2>2
        <3> QED
            BY <1>0, <2>2, <3>1 DEF SameFields
    <2> QED
        BY <2>1, <2>2
<1> QED
    BY <1>0, <1>1

(* Time passes.                                                            *)
LEMMA LoginTickStep == LoginInv /\ LoginTick => LoginInv'
<1> SUFFICES ASSUME LoginInv, LoginTick PROVE LoginInv'
    OBVIOUS
<1>1. LoginTypes' /\ CookiesAtHome'
    BY DEF LoginInv, LoginTypes, CookiesAtHome, LoginTick
<1>2. ASSUME NEW a \in Attempts PROVE AttemptOnTrack(a)'
    <2>1. attempt[a] \in AttemptStates /\ AttemptOnTrack(a)
        BY DEF LoginInv, LoginTypes
    <2>2. attempt[a].began \in Nat /\ attempt[a].since \in Nat /\ now \in Nat
        BY <2>1 DEF LoginInv, LoginTypes, AttemptStates
    <2>3. /\ now' = now + 1 /\ attempt' = attempt /\ stateCookie' = stateCookie
          /\ attempt[a].pc = "exchanging" => now - attempt[a].since < MaxExchange
        BY DEF LoginTick
    <2> QED
        <3>0. attempt'[a].began <= now'
            BY <2>1, <2>2, <2>3 DEF AttemptOnTrack
        <3>1. CookieWaits(a)'
            BY <2>1, <2>3 DEF AttemptOnTrack, CookieWaits
        <3>2. CallbackKnows(a)'
            BY <2>1, <2>2, <2>3, LoginConstants DEF AttemptOnTrack, CallbackKnows, Excuse
        <3>3. ExchangeInTime(a)'
            BY <2>1, <2>2, <2>3, LoginConstants DEF AttemptOnTrack, ExchangeInTime
        <3>4. SessionEarned(a)'
            BY <2>1, <2>3 DEF AttemptOnTrack, SessionEarned, LongestLogin
        <3>5. RefusalExcused(a)'
            BY <2>1, <2>3 DEF AttemptOnTrack, RefusalExcused, Excuse
        <3> QED
            BY <3>0, <3>1, <3>2, <3>3, <3>4, <3>5 DEF AttemptOnTrack
<1> QED
    BY <1>1, <1>2 DEF LoginInv

(* What the parts of AttemptOnTrack say.                                   *)
LEMMA TrackParts ==
    ASSUME LoginInv, NEW a \in Attempts
    PROVE  /\ attempt[a] \in AttemptStates /\ now \in Nat
           /\ attempt[a].began \in Nat /\ attempt[a].since \in Nat /\ attempt[a].until \in Nat
           /\ attempt[a].home \in Browsers /\ attempt[a].at \in Browsers
           /\ attempt[a].sent \in Attempts \cup {NoAttempt}
           /\ attempt[a].began <= now /\ CookieWaits(a) /\ CallbackKnows(a)
           /\ ExchangeInTime(a) /\ SessionEarned(a) /\ RefusalExcused(a)
BY DEF LoginInv, LoginTypes, AttemptStates, AttemptOnTrack

(* A step that leaves an attempt's fields alone, except that it may be     *)
(* disturbed, and that disturbs it if it takes away its cookie, leaves it  *)
(* on track.                                                               *)
LEMMA SameTrack ==
    ASSUME LoginInv, NEW x \in Attempts, now' = now,
           SameFields(attempt'[x], attempt[x]),
           attempt[x].disturbed => attempt'[x].disturbed,
           \/ stateCookie'[attempt[x].home] = stateCookie[attempt[x].home]
           \/ attempt[x].pc = "at the provider" => attempt'[x].disturbed
    PROVE  AttemptOnTrack(x)'
<1>1. attempt'[x].began <= now'
    BY TrackParts DEF SameFields
<1>2. CookieWaits(x)'
    BY TrackParts DEF SameFields, CookieWaits
<1>3. CallbackKnows(x)'
    BY TrackParts DEF SameFields, CallbackKnows, Excuse
<1>4. ExchangeInTime(x)'
    BY TrackParts DEF SameFields, ExchangeInTime
<1>5. SessionEarned(x)'
    BY TrackParts DEF SameFields, SessionEarned, LongestLogin
<1>6. RefusalExcused(x)'
    BY TrackParts DEF SameFields, RefusalExcused, Excuse
<1> QED
    BY <1>1, <1>2, <1>3, <1>4, <1>5, <1>6 DEF AttemptOnTrack

(* Attempts keep their home, and begin later if at all: a cookie stays     *)
(* right unless it is replaced.                                            *)
LEMMA SameCookies ==
    ASSUME LoginInv, NEW b \in Browsers,
           \A x \in Attempts : /\ attempt'[x].home = attempt[x].home
                               /\ attempt'[x].began \in Nat
                               /\ attempt'[x].began >= attempt[x].began
    PROVE  /\ stateCookie[b].of # NoAttempt => attempt'[stateCookie[b].of].home = b
           /\ session[b].of # NoAttempt =>
                 /\ attempt'[session[b].of].home = b
                 /\ session[b].until <= attempt'[session[b].of].began + LongestLogin
<1>1. /\ stateCookie[b].of \in Attempts \cup {NoAttempt}
      /\ session[b].of \in Attempts \cup {NoAttempt}
      /\ session[b].until \in Nat
    BY DEF LoginInv, LoginTypes, Cookies
<1>2. \A x \in Attempts : attempt[x].began \in Nat
    BY TrackParts
<1> QED
    BY <1>1, <1>2, LoginConstants DEF LoginInv, CookiesAtHome

(* A step that replaces one attempt's record, and leaves it on track.      *)
LEMMA OneAttempt ==
    ASSUME LoginInv, NEW a \in Attempts, NEW r \in AttemptStates,
           attempt' = [attempt EXCEPT ![a] = r],
           now' = now, stateCookie' = stateCookie, session' = session,
           r.home = attempt[a].home, r.began = attempt[a].began, AttemptOnTrack(a)'
    PROVE  LoginInv'
<1>0. LoginTypes
    BY DEF LoginInv
<1>1. attempt'[a] = r /\ \A x \in Attempts : x # a => attempt'[x] = attempt[x]
    BY <1>0 DEF LoginTypes
<1>2. LoginTypes'
    BY <1>0 DEF LoginTypes
<1>3. ASSUME NEW x \in Attempts PROVE AttemptOnTrack(x)'
    BY <1>1, SameTrack DEF SameFields
<1>4. CookiesAtHome'
    <2>1. ASSUME NEW x \in Attempts
          PROVE  /\ attempt'[x].home = attempt[x].home
                 /\ attempt'[x].began \in Nat
                 /\ attempt'[x].began >= attempt[x].began
        <3>1. attempt[x].began \in Nat
            BY TrackParts
        <3>2. attempt'[x].home = attempt[x].home /\ attempt'[x].began = attempt[x].began
            BY <1>1
        <3> QED
            BY <3>1, <3>2
    <2> QED
        BY <2>1, SameCookies DEF CookiesAtHome, LongestLogin
<1> QED
    BY <1>2, <1>3, <1>4 DEF LoginInv

(* handleLogin mints the cookie.                                           *)
LEMMA LoginStep == ASSUME LoginInv, NEW a \in Attempts, Login(a) PROVE LoginInv'
<1>0. LoginTypes /\ attempt[a] \in AttemptStates /\ now \in Nat
    BY DEF LoginInv, LoginTypes
<1>1. /\ attempt' = [attempt EXCEPT ![a] = [attempt[a] EXCEPT !.pc = "minted", !.began = now]]
      /\ now' = now /\ stateCookie' = stateCookie /\ session' = session
    BY DEF Login
<1>2. LoginTypes'
    <2>1. [attempt[a] EXCEPT !.pc = "minted", !.began = now] \in AttemptStates
        BY <1>0 DEF AttemptStates
    <2> QED
        BY <1>0, <1>1, <2>1 DEF LoginTypes
<1>3. ASSUME NEW x \in Attempts, x # a PROVE attempt'[x] = attempt[x]
    BY <1>0, <1>1, <1>3 DEF LoginTypes
<1>4. /\ attempt'[a].pc = "minted" /\ attempt'[a].began = now
      /\ attempt'[a].home = attempt[a].home /\ attempt'[a].answer = attempt[a].answer
    BY <1>0, <1>1 DEF LoginTypes, AttemptStates
<1>5. AttemptOnTrack(a)'
    <2>1. attempt[a].answer \notin {"session", "state missing", "state refused"}
        BY TrackParts DEF SessionEarned, RefusalExcused, Login
    <2>2. attempt'[a].began <= now'
        BY <1>0, <1>1, <1>4
    <2> QED
        BY <1>4, <2>1, <2>2 DEF AttemptOnTrack, CookieWaits, CallbackKnows,
           ExchangeInTime, SessionEarned, RefusalExcused
<1>6. ASSUME NEW x \in Attempts PROVE AttemptOnTrack(x)'
    BY <1>1, <1>3, <1>5, SameTrack DEF SameFields
<1>7. \A x \in Attempts : /\ attempt'[x].home = attempt[x].home
                          /\ attempt'[x].began \in Nat
                          /\ attempt'[x].began >= attempt[x].began
    BY <1>0, <1>3, <1>4, TrackParts
<1>8. CookiesAtHome'
    BY <1>1, <1>7, SameCookies DEF CookiesAtHome, LongestLogin
<1> QED
    BY <1>2, <1>6, <1>8 DEF LoginInv

(* The redirect puts the attempt's cookie in the place of another's, which *)
(* is disturbed.                                                           *)
LEMMA LoginArrivesStep ==
    ASSUME LoginInv, NEW a \in Attempts, LoginArrives(a) PROVE LoginInv'
<1> DEFINE b == attempt[a].home
           f == [attempt EXCEPT ![a] = [attempt[a] EXCEPT !.pc = "at the provider"]]
           c == [of |-> a, until |-> now + StateTTL]
<1>0. LoginTypes /\ attempt[a] \in AttemptStates /\ now \in Nat /\ b \in Browsers
    BY TrackParts DEF LoginInv, LoginTypes
<1>1. /\ attempt' = Disturbed(f, a, b)
      /\ now' = now /\ session' = session
      /\ stateCookie' = [stateCookie EXCEPT ![b] = c]
    BY DEF LoginArrives
<1>2. f \in [Attempts -> AttemptStates] /\ c \in Cookies
    <2>1. [attempt[a] EXCEPT !.pc = "at the provider"] \in AttemptStates
        BY <1>0 DEF AttemptStates
    <2>2. c \in Cookies
        BY <1>0, LoginConstants DEF Cookies
    <2> QED
        BY <1>0, <2>1, <2>2 DEF LoginTypes
<1>4. /\ f[a].pc = "at the provider" /\ f[a].home = b /\ f[a].began = attempt[a].began
      /\ f[a].answer = attempt[a].answer
      /\ \A x \in Attempts : x # a => f[x] = attempt[x]
    BY <1>0 DEF LoginTypes, AttemptStates
<1>5. stateCookie'[b] = c /\ \A e \in Browsers : e # b => stateCookie'[e] = stateCookie[e]
    BY <1>0, <1>1 DEF LoginTypes
<1>b. c.of = a /\ c.until = now + StateTTL
    OBVIOUS
<1> HIDE DEF b, c, f
<1>d. /\ attempt' \in [Attempts -> AttemptStates]
      /\ \A x \in Attempts :
            /\ SameFields(attempt'[x], f[x])
            /\ f[x].disturbed => attempt'[x].disturbed
            /\ x # a /\ f[x].home = b /\ f[x].pc = "at the provider" => attempt'[x].disturbed
    BY <1>1, <1>2, DisturbedFields
<1>3. LoginTypes'
    BY <1>0, <1>1, <1>2, <1>d DEF LoginTypes
<1>6. AttemptOnTrack(a)'
    <2>1. /\ attempt'[a].pc = "at the provider" /\ attempt'[a].home = b
          /\ attempt'[a].began = attempt[a].began /\ attempt'[a].answer = attempt[a].answer
        BY <1>4, <1>d DEF SameFields
    <2>2. attempt[a].answer \notin {"session", "state missing", "state refused"}
        BY TrackParts DEF SessionEarned, RefusalExcused, LoginArrives
    <2>3. attempt'[a].began <= now'
        BY <1>1, <2>1, TrackParts
    <2>4. CookieWaits(a)'
        <3>1. attempt[a].began \in Nat /\ attempt[a].began <= now /\ StateTTL \in Nat
            BY TrackParts, LoginConstants
        <3>2. now + StateTTL >= attempt[a].began + StateTTL
            BY <1>0, <3>1
        <3> QED
            BY <1>5, <1>b, <2>1, <3>2 DEF CookieWaits
    <2> QED
        BY <2>1, <2>2, <2>3, <2>4 DEF AttemptOnTrack, CallbackKnows,
           ExchangeInTime, SessionEarned, RefusalExcused
<1>7. ASSUME NEW x \in Attempts, x # a PROVE AttemptOnTrack(x)'
    <2>1. attempt[x].home # b => stateCookie'[attempt[x].home] = stateCookie[attempt[x].home]
        BY <1>5, TrackParts
    <2> QED
        BY <1>1, <1>4, <1>7, <1>d, <2>1, SameTrack
<1>8. ASSUME NEW x \in Attempts
      PROVE  /\ attempt'[x].home = attempt[x].home
             /\ attempt'[x].began \in Nat
             /\ attempt'[x].began >= attempt[x].began
    <2>1. attempt[x].began \in Nat
        BY TrackParts
    <2>2. attempt'[x].home = f[x].home /\ attempt'[x].began = f[x].began
        BY <1>d DEF SameFields
    <2>3. f[x].home = attempt[x].home /\ f[x].began = attempt[x].began
        BY <1>4 DEF b
    <2> QED
        BY <2>1, <2>2, <2>3
<1>9. CookiesAtHome'
    <2>1. attempt'[a].home = b
        BY <1>8 DEF b
    <2> QED
        BY <1>1, <1>5, <1>8, <1>b, <2>1, SameCookies DEF CookiesAtHome, LongestLogin
<1> QED
    BY <1>3, <1>6, <1>7, <1>9 DEF LoginInv

(* The provider refuses the user.                                          *)
LEMMA ProviderErrorStep ==
    ASSUME LoginInv, NEW a \in Attempts, ProviderError(a) PROVE LoginInv'
<1> DEFINE r == [attempt[a] EXCEPT !.pc = "done", !.answer = "provider error"]
<1>0. LoginTypes /\ attempt[a] \in AttemptStates
    BY DEF LoginInv, LoginTypes
<1>1. /\ attempt' = [attempt EXCEPT ![a] = r]
      /\ now' = now /\ stateCookie' = stateCookie /\ session' = session
    BY DEF ProviderError
<1>2. /\ r \in AttemptStates /\ r.pc = "done" /\ r.answer = "provider error"
      /\ r.home = attempt[a].home /\ r.began = attempt[a].began
    BY <1>0 DEF AttemptStates
<1> HIDE DEF r
<1>3. attempt'[a] = r /\ \A x \in Attempts : x # a => attempt'[x] = attempt[x]
    BY <1>0, <1>1 DEF LoginTypes
<1>5. AttemptOnTrack(a)'
    <2>1. attempt'[a].began <= now'
        BY <1>1, <1>2, <1>3, TrackParts
    <2> QED
        BY <1>2, <1>3, <2>1 DEF AttemptOnTrack, CookieWaits, CallbackKnows,
           ExchangeInTime, SessionEarned, RefusalExcused
<1> QED
    BY <1>1, <1>2, <1>5, OneAttempt

(* The callback leaves with the cookie that its browser holds.             *)
LEMMA SendCallbackStep ==
    ASSUME LoginInv, NEW a \in Attempts, NEW b \in Browsers, SendCallback(a, b)
    PROVE  LoginInv'
<1> DEFINE c == IF now <= stateCookie[b].until THEN stateCookie[b].of ELSE NoAttempt
           r == [attempt[a] EXCEPT !.pc = "calling", !.at = b, !.answer = "none",
                                   !.repeated = (attempt[a].pc = "done"), !.sent = c]
<1>0. /\ LoginTypes /\ attempt[a] \in AttemptStates /\ stateCookie[b] \in Cookies
      /\ attempt[a].pc \in {"at the provider", "done"}
    BY DEF LoginInv, LoginTypes, SendCallback
<1>1. /\ attempt' = [attempt EXCEPT ![a] = r]
      /\ now' = now /\ stateCookie' = stateCookie /\ session' = session
    BY DEF SendCallback
<1>2. /\ r \in AttemptStates /\ r.pc = "calling" /\ r.answer = "none" /\ r.at = b
      /\ r.home = attempt[a].home /\ r.began = attempt[a].began /\ r.sent = c
      /\ r.repeated = (attempt[a].pc = "done") /\ r.disturbed = attempt[a].disturbed
    <2>1. c \in Attempts \cup {NoAttempt}
        BY <1>0 DEF Cookies
    <2> HIDE DEF c
    <2>2. (attempt[a].pc = "done") \in BOOLEAN
        OBVIOUS
    <2> QED
        BY <1>0, <2>1, <2>2 DEF AttemptStates
<1> HIDE DEF r
<1>3. attempt'[a] = r /\ \A x \in Attempts : x # a => attempt'[x] = attempt[x]
    BY <1>0, <1>1 DEF LoginTypes
<1>5. AttemptOnTrack(a)'
    <2>1. attempt'[a].began <= now'
        BY <1>1, <1>2, <1>3, TrackParts
    <2>2. c = a => b = attempt[a].home
        BY LoginAssumption DEF LoginInv, CookiesAtHome
    <2>3. Excuse(r) \/ c = a \/ now > attempt[a].began + StateTTL
        <3> SUFFICES ASSUME ~Excuse(r), ~(now > attempt[a].began + StateTTL) PROVE c = a
            OBVIOUS
        <3>1. attempt[a].pc = "at the provider" /\ ~attempt[a].disturbed /\ b = attempt[a].home
            BY <1>0, <1>2 DEF Excuse
        <3>2. stateCookie[b].of = a /\ stateCookie[b].until >= attempt[a].began + StateTTL
            BY <3>1, TrackParts DEF CookieWaits
        <3>3. now \in Nat /\ attempt[a].began \in Nat /\ StateTTL \in Nat
            BY TrackParts, LoginConstants
        <3>4. stateCookie[b].until \in Nat
            BY <1>0 DEF Cookies
        <3> QED
            BY <3>2, <3>3, <3>4
    <2>4. CallbackKnows(a)'
        BY <1>1, <1>2, <1>3, <2>2, <2>3 DEF CallbackKnows
    <2> QED
        BY <1>2, <1>3, <2>1, <2>4 DEF AttemptOnTrack, CookieWaits, ExchangeInTime,
           SessionEarned, RefusalExcused
<1> QED
    BY <1>1, <1>2, <1>5, OneAttempt

(* callbackState lets only the attempt's own state pass, and in time.      *)
LEMMA CallbackStateStep ==
    ASSUME LoginInv, NEW a \in Attempts, CallbackState(a) PROVE LoginInv'
<1> DEFINE c == attempt[a].sent
           missing == [attempt[a] EXCEPT !.pc = "answered", !.answer = "state missing",
                                         !.since = now]
           refused == [attempt[a] EXCEPT !.since = now, !.sent = NoAttempt,
                          !.pc = "answered", !.answer = "state refused"]
           passed == [attempt[a] EXCEPT !.since = now, !.sent = NoAttempt,
                          !.pc = "exchanging", !.answer = attempt[a].answer]
<1>0. /\ attempt[a] \in AttemptStates /\ attempt[a].pc = "calling"
      /\ now' = now /\ stateCookie' = stateCookie /\ session' = session
    BY TrackParts DEF CallbackState
<1>a. attempt[a].answer # "session" /\ attempt[a].answer # "state missing"
      /\ attempt[a].answer # "state refused"
    BY <1>0, TrackParts DEF SessionEarned, RefusalExcused
<1>n. /\ attempt[a].began \in Nat /\ now \in Nat /\ attempt[a].began <= now
      /\ CallbackKnows(a) /\ StateTTL \in Nat /\ MaxExchange \in Nat
    BY TrackParts, LoginConstants
<1>f. \A r : attempt' = [attempt EXCEPT ![a] = r] => attempt'[a] = r
    BY DEF LoginInv, LoginTypes
<1>1. ASSUME NEW r \in AttemptStates, r.pc = "answered",
             attempt' = [attempt EXCEPT ![a] = r], r.since = now,
             r.answer = "state missing" \/ r.answer = "state refused",
             r.home = attempt[a].home, r.began = attempt[a].began, r.at = attempt[a].at,
             r.repeated = attempt[a].repeated, r.disturbed = attempt[a].disturbed,
             c = a => StateExpired(a)
      PROVE  LoginInv'
    <2>1. Excuse(r) \/ now > attempt[a].began + StateTTL
        BY <1>0, <1>1, <1>n DEF CallbackKnows, Excuse, StateExpired
    <2>2. attempt'[a] = r
        BY <1>1, <1>f
    <2>3. RefusalExcused(a)'
        BY <1>1, <2>1, <2>2 DEF RefusalExcused
    <2>4. attempt'[a].began <= now'
        BY <1>0, <1>1, <1>n, <2>2
    <2>5. AttemptOnTrack(a)'
        BY <1>1, <2>2, <2>3, <2>4 DEF AttemptOnTrack, CookieWaits, CallbackKnows,
           ExchangeInTime, SessionEarned
    <2> QED
        BY <1>0, <1>1, <2>5, OneAttempt
<1>2. CASE c = NoAttempt
    <2>1. attempt' = [attempt EXCEPT ![a] = missing]
        BY <1>2 DEF CallbackState
    <2>2. /\ missing \in AttemptStates /\ missing.pc = "answered" /\ missing.since = now
          /\ missing.answer = "state missing"
          /\ missing.home = attempt[a].home /\ missing.began = attempt[a].began
          /\ missing.at = attempt[a].at /\ missing.repeated = attempt[a].repeated
          /\ missing.disturbed = attempt[a].disturbed
        BY <1>0, <1>n DEF AttemptStates
    <2> HIDE DEF missing
    <2> QED
        BY <1>1, <1>2, <2>1, <2>2, LoginAssumption
<1>3. CASE c # NoAttempt /\ (StateExpired(c) \/ c # a)
    <2>1. attempt' = [attempt EXCEPT ![a] = refused]
        BY <1>3 DEF CallbackState
    <2>2. /\ refused \in AttemptStates /\ refused.pc = "answered" /\ refused.since = now
          /\ refused.answer = "state refused"
          /\ refused.home = attempt[a].home /\ refused.began = attempt[a].began
          /\ refused.at = attempt[a].at /\ refused.repeated = attempt[a].repeated
          /\ refused.disturbed = attempt[a].disturbed
        BY <1>0, <1>n DEF AttemptStates
    <2> HIDE DEF refused
    <2> QED
        BY <1>1, <1>3, <2>1, <2>2
<1>4. CASE c # NoAttempt /\ ~(StateExpired(c) \/ c # a)
    <2>1. attempt' = [attempt EXCEPT ![a] = passed]
        BY <1>4 DEF CallbackState
    <2>2. /\ passed \in AttemptStates /\ passed.pc = "exchanging" /\ passed.since = now
          /\ passed.answer = attempt[a].answer
          /\ passed.home = attempt[a].home /\ passed.began = attempt[a].began
          /\ passed.at = attempt[a].at
        BY <1>0, <1>n DEF AttemptStates
    <2> HIDE DEF passed
    <2>3. attempt'[a] = passed
        BY <1>f, <2>1
    <2>4. attempt[a].at = attempt[a].home
        BY <1>0, <1>4, <1>n DEF CallbackKnows
    <2>5. now <= attempt[a].began + StateTTL /\ now <= now /\ now - now <= MaxExchange
        BY <1>4, <1>n DEF StateExpired
    <2>6. ExchangeInTime(a)'
        BY <1>0, <2>2, <2>3, <2>4, <2>5 DEF ExchangeInTime
    <2>7. attempt'[a].began <= now'
        BY <1>0, <1>n, <2>2, <2>3
    <2>8. AttemptOnTrack(a)'
        BY <1>a, <2>2, <2>3, <2>6, <2>7 DEF AttemptOnTrack, CookieWaits, CallbackKnows,
           SessionEarned, RefusalExcused
    <2> QED
        BY <1>0, <2>1, <2>2, <2>8, OneAttempt
<1> QED
    BY <1>2, <1>3, <1>4

(* A session lasts for SessionTTL from the exchange on.                    *)
LEMMA ExchangeStep == ASSUME LoginInv, NEW a \in Attempts, Exchange(a) PROVE LoginInv'
<1>0. /\ attempt[a] \in AttemptStates /\ attempt[a].pc = "exchanging"
      /\ now' = now /\ stateCookie' = stateCookie /\ session' = session
    BY TrackParts DEF Exchange
<1>n. /\ attempt[a].began \in Nat /\ attempt[a].since \in Nat /\ attempt[a].until \in Nat
      /\ now \in Nat /\ attempt[a].began <= now /\ ExchangeInTime(a)
      /\ StateTTL \in Nat /\ MaxExchange \in Nat /\ SessionTTL \in Nat
    BY TrackParts, LoginConstants
<1>t. /\ attempt[a].at = attempt[a].home
      /\ now + SessionTTL \in Nat
      /\ now + SessionTTL <= attempt[a].began + (StateTTL + MaxExchange + SessionTTL)
    BY <1>0, <1>n DEF ExchangeInTime
<1>f. \A r : attempt' = [attempt EXCEPT ![a] = r] => attempt'[a] = r
    BY DEF LoginInv, LoginTypes
<1>1. ASSUME NEW o \in {"failed", "rejected", "no role", "session"},
             NEW used \in BOOLEAN, NEW u \in Nat, o = "session" => u = now + SessionTTL,
             attempt' = [attempt EXCEPT ![a] =
                           [attempt[a] EXCEPT !.pc = "answered", !.answer = o,
                                              !.codeUsed = used, !.until = u]]
      PROVE  LoginInv'
    <2> DEFINE r == [attempt[a] EXCEPT !.pc = "answered", !.answer = o,
                                       !.codeUsed = used, !.until = u]
    <2>1. /\ r \in AttemptStates /\ r.pc = "answered" /\ r.answer = o /\ r.until = u
          /\ r.home = attempt[a].home /\ r.began = attempt[a].began /\ r.at = attempt[a].at
        BY <1>0 DEF AttemptStates
    <2>2. attempt' = [attempt EXCEPT ![a] = r]
        BY <1>1
    <2> HIDE DEF r
    <2>3. attempt'[a] = r
        BY <1>f, <2>2
    <2>4. SessionEarned(a)'
        BY <1>1, <1>t, <2>1, <2>3 DEF SessionEarned, LongestLogin
    <2>5. attempt'[a].began <= now'
        BY <1>0, <1>n, <2>1, <2>3
    <2>6. o # "state missing" /\ o # "state refused"
        OBVIOUS
    <2>7. AttemptOnTrack(a)'
        BY <2>1, <2>3, <2>4, <2>5, <2>6 DEF AttemptOnTrack, CookieWaits, CallbackKnows,
           ExchangeInTime, RefusalExcused
    <2> QED
        BY <1>0, <2>1, <2>2, <2>7, OneAttempt
<1>2. PICK o \in {"failed"} \cup (IF attempt[a].codeUsed THEN {}
                                  ELSE {"rejected", "no role", "session"}) :
          attempt' = [attempt EXCEPT ![a] =
                        [@ EXCEPT !.pc = "answered", !.answer = o,
                            !.codeUsed = attempt[a].codeUsed \/ o # "failed",
                            !.until = IF o = "session" THEN now + SessionTTL
                                      ELSE attempt[a].until]]
    BY DEF Exchange
<1> DEFINE used == attempt[a].codeUsed \/ o # "failed"
           until == IF o = "session" THEN now + SessionTTL ELSE attempt[a].until
<1>3. o \in {"failed", "rejected", "no role", "session"}
    BY <1>2
<1>4. until \in Nat /\ (o = "session" => until = now + SessionTTL)
    BY <1>n, <1>t
<1>5. used \in BOOLEAN
    OBVIOUS
<1>6. attempt' = [attempt EXCEPT ![a] =
                    [attempt[a] EXCEPT !.pc = "answered", !.answer = o,
                                       !.codeUsed = used, !.until = until]]
    BY <1>2
<1> HIDE DEF used, until
<1> QED
    BY <1>1, <1>3, <1>4, <1>5, <1>6

(* The response to a callback: it sets or ends the session of the browser, *)
(* and takes away the state cookie that is there, whoever waits for it.    *)
LEMMA CallbackArrivesStep ==
    ASSUME LoginInv, NEW a \in Attempts, CallbackArrives(a) PROVE LoginInv'
<1> DEFINE b == attempt[a].at
           f == [attempt EXCEPT ![a] = [attempt[a] EXCEPT !.pc = "done"]]
           c == [of |-> a, until |-> attempt[a].until]
<1>0. /\ LoginTypes /\ attempt[a] \in AttemptStates /\ b \in Browsers
      /\ attempt[a].pc = "answered" /\ now' = now
    BY TrackParts DEF LoginInv, CallbackArrives
<1>1. /\ attempt[a].answer = "state missing" => attempt' = f /\ stateCookie' = stateCookie
      /\ attempt[a].answer # "state missing" =>
            /\ attempt' = Disturbed(f, a, b)
            /\ stateCookie' = [stateCookie EXCEPT ![b] = NoCookie]
    BY DEF CallbackArrives
<1>s. /\ attempt[a].answer = "session" => session' = [session EXCEPT ![b] = c]
      /\ attempt[a].answer = "no role" => session' = [session EXCEPT ![b] = NoCookie]
      /\ attempt[a].answer # "session" /\ attempt[a].answer # "no role" => session' = session
    <2>1. attempt[a].answer = "session" => session' = [session EXCEPT ![b] = c]
        BY DEF CallbackArrives
    <2>2. attempt[a].answer = "no role" => session' = [session EXCEPT ![b] = NoCookie]
        BY DEF CallbackArrives
    <2>3. attempt[a].answer # "session" /\ attempt[a].answer # "no role" => session' = session
        BY <1>0 DEF CallbackArrives, LoginTypes
    <2> QED
        BY <2>1, <2>2, <2>3
<1>2. f \in [Attempts -> AttemptStates] /\ c \in Cookies
    <2>1. [attempt[a] EXCEPT !.pc = "done"] \in AttemptStates
        BY <1>0 DEF AttemptStates
    <2>2. c \in Cookies
        BY <1>0 DEF Cookies, AttemptStates
    <2> QED
        BY <1>0, <2>1, <2>2 DEF LoginTypes
<1>4. /\ f[a].pc = "done" /\ f[a].home = attempt[a].home /\ f[a].began = attempt[a].began
      /\ f[a].at = attempt[a].at /\ f[a].since = attempt[a].since
      /\ f[a].answer = attempt[a].answer /\ f[a].until = attempt[a].until
      /\ f[a].repeated = attempt[a].repeated /\ f[a].disturbed = attempt[a].disturbed
      /\ \A x \in Attempts : x # a => f[x] = attempt[x]
    BY <1>0 DEF LoginTypes, AttemptStates
<1>b. c.of = a /\ c.until = attempt[a].until
    OBVIOUS
<1> HIDE DEF b, c, f
<1>d. /\ attempt' \in [Attempts -> AttemptStates]
      /\ \A x \in Attempts :
            /\ SameFields(attempt'[x], f[x])
            /\ f[x].disturbed => attempt'[x].disturbed
            /\ attempt[a].answer # "state missing" /\ x # a /\ f[x].home = b
               /\ f[x].pc = "at the provider" => attempt'[x].disturbed
    <2>1. CASE attempt[a].answer = "state missing"
        BY <1>1, <1>2, <2>1 DEF SameFields
    <2>2. CASE attempt[a].answer # "state missing"
        <3>1. attempt' = Disturbed(f, a, b) /\ f \in [Attempts -> AttemptStates]
            BY <1>1, <1>2, <2>2
        <3>2. /\ attempt' \in [Attempts -> AttemptStates]
              /\ \A x \in Attempts :
                    /\ SameFields(attempt'[x], f[x])
                    /\ f[x].disturbed => attempt'[x].disturbed
                    /\ x # a /\ f[x].home = b /\ f[x].pc = "at the provider"
                          => attempt'[x].disturbed
            BY <3>1, DisturbedFields
        <3> QED
            BY <3>2
    <2> QED
        BY <2>1, <2>2
<1>3. LoginTypes'
    BY <1>0, <1>1, <1>2, <1>d, <1>s, LoginConstants DEF LoginTypes
<1>5. \A e \in Browsers : \/ stateCookie'[e] = stateCookie[e]
                          \/ e = b /\ stateCookie'[e] = NoCookie
                             /\ attempt[a].answer # "state missing"
    BY <1>0, <1>1 DEF LoginTypes
<1>t. \A e \in Browsers : \/ session'[e] = session[e]
                          \/ session'[e] = NoCookie
                          \/ e = b /\ session'[e] = c /\ attempt[a].answer = "session"
    BY <1>0, <1>s DEF LoginTypes
<1>6. AttemptOnTrack(a)'
    <2>1. /\ attempt'[a].pc = "done" /\ attempt'[a].home = attempt[a].home
          /\ attempt'[a].began = attempt[a].began /\ attempt'[a].at = attempt[a].at
          /\ attempt'[a].answer = attempt[a].answer /\ attempt'[a].until = attempt[a].until
          /\ attempt'[a].since = attempt[a].since
          /\ attempt'[a].repeated = attempt[a].repeated
          /\ attempt[a].disturbed => attempt'[a].disturbed
        BY <1>4, <1>d DEF SameFields
    <2>2. attempt'[a].began <= now'
        BY <1>0, <2>1, TrackParts
    <2>3. SessionEarned(a)'
        BY <2>1, TrackParts DEF SessionEarned, LongestLogin
    <2>4. RefusalExcused(a)'
        BY <2>1, TrackParts DEF RefusalExcused, Excuse
    <2> QED
        BY <2>1, <2>2, <2>3, <2>4 DEF AttemptOnTrack, CookieWaits, CallbackKnows,
           ExchangeInTime
<1>7. ASSUME NEW x \in Attempts, x # a PROVE AttemptOnTrack(x)'
    <2>1. /\ SameFields(attempt'[x], attempt[x])
          /\ attempt[x].disturbed => attempt'[x].disturbed
        BY <1>4, <1>7, <1>d
    <2>2. \/ stateCookie'[attempt[x].home] = stateCookie[attempt[x].home]
          \/ attempt[x].pc = "at the provider" => attempt'[x].disturbed
        <3>1. attempt[x].home \in Browsers /\ f[x] = attempt[x]
            BY <1>4, <1>7, TrackParts
        <3>2. CASE stateCookie'[attempt[x].home] = stateCookie[attempt[x].home]
            BY <3>2
        <3>3. CASE attempt[x].home = b /\ attempt[a].answer # "state missing"
            BY <1>7, <1>d, <3>1, <3>3
        <3> QED
            BY <1>5, <3>1, <3>2, <3>3
    <2> QED
        BY <1>0, <2>1, <2>2, SameTrack
<1>8. ASSUME NEW x \in Attempts
      PROVE  /\ attempt'[x].home = attempt[x].home
             /\ attempt'[x].began \in Nat
             /\ attempt'[x].began >= attempt[x].began
    <2>1. attempt[x].began \in Nat
        BY TrackParts
    <2>2. attempt'[x].home = f[x].home /\ attempt'[x].began = f[x].began
        BY <1>d DEF SameFields
    <2>3. f[x].home = attempt[x].home /\ f[x].began = attempt[x].began
        BY <1>4
    <2> QED
        BY <2>1, <2>2, <2>3
<1>9. CookiesAtHome'
    <2> SUFFICES ASSUME NEW e \in Browsers
                 PROVE  /\ stateCookie'[e].of # NoAttempt =>
                              attempt'[stateCookie'[e].of].home = e
                        /\ session'[e].of # NoAttempt =>
                              /\ attempt'[session'[e].of].home = e
                              /\ session'[e].until <= attempt'[session'[e].of].began + LongestLogin
        BY DEF CookiesAtHome, LongestLogin
    <2>0. NoCookie.of = NoAttempt
        BY DEF NoCookie
    <2>1. stateCookie'[e].of # NoAttempt => attempt'[stateCookie'[e].of].home = e
        BY <1>5, <1>8, <2>0, SameCookies
    <2>2. CASE session'[e] = session[e] \/ session'[e] = NoCookie
        BY <1>8, <2>0, <2>1, <2>2, SameCookies
    <2>3. CASE e = b /\ session'[e] = c /\ attempt[a].answer = "session"
        <3>1. attempt[a].at = attempt[a].home /\ attempt[a].until <= attempt[a].began + LongestLogin
            BY <2>3, TrackParts DEF SessionEarned
        <3>2. attempt'[a].home = e /\ attempt'[a].began = attempt[a].began
            BY <1>4, <1>d, <2>3, <3>1 DEF SameFields, b
        <3> QED
            BY <1>b, <2>1, <2>3, <3>1, <3>2
    <2> QED
        BY <1>t, <2>2, <2>3
<1> QED
    BY <1>3, <1>6, <1>7, <1>9 DEF LoginInv

(* A logout changes no attempt and at most takes a session away.           *)
LEMMA LogoutStep ==
    ASSUME LoginInv, NEW b \in Browsers, EndSession(b) \/ ClearArrives(b) PROVE LoginInv'
<1>1. /\ now' = now /\ attempt' = attempt /\ stateCookie' = stateCookie
      /\ session' = session \/ session' = [session EXCEPT ![b] = NoCookie]
    BY DEF EndSession, ClearArrives
<1>2. LoginTypes'
    BY <1>1, LoginConstants DEF LoginInv, LoginTypes
<1>3. \A x \in Attempts : AttemptOnTrack(x)'
    BY <1>1, SameTrack DEF SameFields
<1>4. \A e \in Browsers : session'[e] = session[e] \/ session'[e].of = NoAttempt
    BY <1>1 DEF LoginInv, LoginTypes, NoCookie
<1>5. CookiesAtHome'
    BY <1>1, <1>4 DEF LoginInv, CookiesAtHome, LongestLogin
<1> QED
    BY <1>2, <1>3, <1>5 DEF LoginInv

(* Every step of the login keeps the invariant.                            *)
LEMMA LoginNextStep == LoginInv /\ [LoginNext]_loginVars => LoginInv'
<1> SUFFICES ASSUME LoginInv, [LoginNext]_loginVars PROVE LoginInv'
    OBVIOUS
<1>1. CASE LoginTick
    BY <1>1, LoginTickStep
<1>2. ASSUME NEW a \in Attempts,
             \/ Login(a) \/ LoginArrives(a) \/ ProviderError(a)
             \/ \E b \in Browsers : SendCallback(a, b)
             \/ CallbackState(a) \/ Exchange(a) \/ CallbackArrives(a)
      PROVE  LoginInv'
    BY <1>2, LoginStep, LoginArrivesStep, ProviderErrorStep, SendCallbackStep,
       CallbackStateStep, ExchangeStep, CallbackArrivesStep
<1>3. ASSUME NEW b \in Browsers, EndSession(b) \/ ClearArrives(b) PROVE LoginInv'
    BY <1>3, LogoutStep
<1>4. CASE UNCHANGED loginVars
    <2>1. /\ now' = now /\ attempt' = attempt /\ stateCookie' = stateCookie
          /\ session' = session
        BY <1>4 DEF loginVars
    <2>2. LoginTypes' /\ CookiesAtHome'
        BY <2>1 DEF LoginInv, LoginTypes, CookiesAtHome, LongestLogin
    <2>3. \A x \in Attempts : AttemptOnTrack(x)'
        BY <2>1, SameTrack DEF SameFields
    <2> QED
        BY <2>2, <2>3 DEF LoginInv
<1> QED
    BY <1>1, <1>2, <1>3, <1>4 DEF LoginNext

(* However tabs and browsers interleave, a session belongs to a login that *)
(* began in its browser, ends in time, and a state is refused only for a   *)
(* reason (ui_auth.go: handleLogin, handleCallback, callbackState).        *)
THEOREM LoginSoundAlways == LoginSpec => []LoginSound
<1>1. LoginInit => LoginInv
    BY InitLoginInv
<1>2. LoginInv /\ [LoginNext]_loginVars => LoginInv'
    BY LoginNextStep
<1>3. LoginInv => LoginSound
    BY LoginInvSound
<1> QED
    BY <1>1, <1>2, <1>3, PTL DEF LoginSpec

-----------------------------------------------------------------------------
(* Proxy trust.  An address in the result of a resolution was in the DNS   *)
(* after the resolution began, and a resolution ends within its timeout;   *)
(* the ticker begins one every interval.  Both must be said of resolutions *)
(* under way, because any of them may be the next to store its result.     *)

RoundStates == [pc : {"idle", "looking", "resolved"}, start : Nat,
                name : DOMAIN HostNames, got : SUBSET Peers]

(* The types of the variables of proxy trust.                              *)
TrustTypes ==
    /\ xtime \in Nat
    /\ dns \in [DOMAIN HostNames -> SUBSET Peers]
    /\ seen \in [Peers -> Nat]
    /\ steady \subseteq (DOMAIN HostNames) \X Peers
    /\ resolved \subseteq Peers
    /\ round \in [Rounds -> RoundStates]
    /\ nextTick \in Nat
    /\ failing \in BOOLEAN

Underway(g) == round[g].pc # "idle"

(* Resolutions keep to their timeout, and the ticker to its interval.      *)
TrustClock ==
    /\ \A a \in Peers : seen[a] <= xtime
    /\ nextTick - RefreshEvery <= xtime
    /\ ~Underway(Ticker) => xtime <= nextTick
    /\ Underway(Ticker) => round[Ticker].start = nextTick - RefreshEvery
    /\ \A g \in Rounds : Underway(g) => /\ round[g].start <= xtime
                                        /\ xtime - round[g].start <= LookupTimeout

SteadyInDNS == \A p \in steady : p[2] \in dns[p[1]]

(* What a resolution has collected: nothing that had left the DNS before   *)
(* it began, and everything that has always been there of the names done.  *)
GotRecent(g) == Underway(g) => \A a \in round[g].got : LastSeen(a) >= round[g].start

GotSteady(g) ==
    Underway(g) => \A p \in steady :
        p[1] < round[g].name \/ round[g].pc = "resolved" => p[2] \in round[g].got

(* What is stored was in the DNS a lookup before the ticker last began, or *)
(* before it began the time before, while its resolution is under way.     *)
StoredSince(t) == \A a \in resolved : LastSeen(a) >= t

StoredRecent ==
    ~failing => IF Underway(Ticker)
                THEN StoredSince(nextTick - 2 * RefreshEvery - LookupTimeout)
                ELSE StoredSince(nextTick - RefreshEvery - LookupTimeout)

SteadyTrusted == \A p \in steady : Trusted(p[2])

(* The inductive invariant.                                                *)
TrustInv == /\ TrustTypes /\ TrustClock /\ SteadyInDNS
            /\ \A g \in Rounds : GotRecent(g) /\ GotSteady(g)
            /\ StoredRecent /\ SteadyTrusted

LEMMA TrustIntervals ==
    RefreshEvery \in Nat /\ LookupTimeout \in Nat /\ LookupTimeout < RefreshEvery
BY TrustAssumption

LEMMA TrustConstants ==
    /\ RefreshEvery \in Nat /\ LookupTimeout \in Nat /\ LookupTimeout < RefreshEvery
    /\ Len(HostNames) \in Nat /\ DOMAIN HostNames = 1..Len(HostNames)
    /\ 1 \in DOMAIN HostNames
    /\ Fixed \subseteq Peers /\ Ticker \in Rounds /\ Ticker \notin Forced
BY TrustAssumption DEF Rounds

(* When an address was last in the DNS.                                    *)
LEMMA LastSeenBounds ==
    ASSUME TrustTypes, TrustClock, NEW a \in Peers
    PROVE  LastSeen(a) \in Nat /\ LastSeen(a) <= xtime
BY DEF TrustTypes, TrustClock, LastSeen

(* The invariant gives the bound of TrustTracksDNS.                        *)
LEMMA TrustInvTracks == TrustInv => TrustTracksDNS
<1> SUFFICES ASSUME TrustInv, ~failing, NEW a \in resolved
             PROVE  xtime - LastSeen(a) <= RefreshEvery + 2 * LookupTimeout
    BY DEF TrustInv, TrustTracksDNS, SteadyTrusted
<1>1. /\ LastSeen(a) \in Nat /\ xtime \in Nat /\ nextTick \in Nat
    BY LastSeenBounds DEF TrustInv, TrustTypes
<1>2. CASE Underway(Ticker)
    <2>1. LastSeen(a) >= nextTick - 2 * RefreshEvery - LookupTimeout
        BY <1>2 DEF TrustInv, StoredRecent, StoredSince
    <2>2. xtime - (nextTick - RefreshEvery) <= LookupTimeout
        BY <1>2, TrustConstants DEF TrustInv, TrustClock
    <2> QED
        BY <1>1, <2>1, <2>2, TrustConstants
<1>3. CASE ~Underway(Ticker)
    <2>1. LastSeen(a) >= nextTick - RefreshEvery - LookupTimeout
        BY <1>3 DEF TrustInv, StoredRecent, StoredSince
    <2>2. xtime <= nextTick
        BY <1>3 DEF TrustInv, TrustClock
    <2> QED
        BY <1>1, <2>1, <2>2, TrustConstants
<1> QED
    BY <1>2, <1>3

(* New resolves every name before the process starts.                      *)
LEMMA InitTrustInv == TrustInit => TrustInv
<1> SUFFICES ASSUME TrustInit PROVE TrustInv
    OBVIOUS
<1>1. Quiet \in RoundStates /\ Quiet.pc = "idle"
    BY TrustConstants DEF Quiet, RoundStates
<1>2. \A n \in DOMAIN HostNames : dns[n] \subseteq Peers /\ dns[n] \subseteq resolved
    BY DEF TrustInit, InDNS
<1>3. dns \in [DOMAIN HostNames -> SUBSET Peers] /\ resolved \subseteq Peers
    BY <1>2 DEF TrustInit, InDNS
<1>4. TrustTypes
    BY <1>1, <1>3, TrustConstants DEF TrustInit, TrustTypes
<1>5. \A g \in Rounds : ~Underway(g)
    BY <1>1 DEF TrustInit, Underway
<1>6. TrustClock
    BY <1>5, TrustConstants DEF TrustInit, TrustClock
<1>7. SteadyInDNS /\ SteadyTrusted
    BY <1>2 DEF TrustInit, SteadyInDNS, SteadyTrusted, Trusted
<1>8. StoredRecent
    <2> SUFFICES ASSUME NEW a \in resolved
                 PROVE  LastSeen(a) >= nextTick - RefreshEvery - LookupTimeout
        BY <1>5, TrustConstants DEF StoredRecent, StoredSince
    <2>1. LastSeen(a) \in Nat
        BY <1>3, <1>4, <1>6, LastSeenBounds
    <2> QED
        BY <2>1, TrustConstants DEF TrustInit
<1> QED
    BY <1>4, <1>5, <1>6, <1>7, <1>8 DEF TrustInv, GotRecent, GotSteady

(* Time is only added to when an address was last in the DNS.              *)
SeenLater == \A a \in Peers : LastSeen(a)' \in Nat /\ LastSeen(a)' >= LastSeen(a)

(* A step that leaves the clock and the DNS alone.                         *)
LEMMA SameSeen ==
    ASSUME TrustInv, xtime' = xtime, dns' = dns, seen' = seen
    PROVE  SeenLater /\ \A a \in Peers : LastSeen(a)' = LastSeen(a)
<1>1. \A a \in Peers : LastSeen(a)' = LastSeen(a)
    BY DEF LastSeen, InDNS
<1>2. \A a \in Peers : LastSeen(a) \in Nat
    BY LastSeenBounds DEF TrustInv
<1> QED
    BY <1>1, <1>2 DEF SeenLater

(* What was recent stays recent while addresses are only seen later.       *)
LEMMA RecentKept ==
    ASSUME TrustInv, SeenLater, resolved' = resolved, round' = round,
           nextTick' = nextTick, failing' = failing
    PROVE  StoredRecent' /\ \A g \in Rounds : GotRecent(g)'
<1>1. \A a \in Peers : LastSeen(a) \in Nat
    BY LastSeenBounds DEF TrustInv
<1>2. ASSUME NEW g \in Rounds PROVE GotRecent(g)'
    <2>1. round[g].got \subseteq Peers /\ round[g].start \in Nat
        BY DEF TrustInv, TrustTypes, RoundStates
    <2> QED
        BY <1>1, <2>1 DEF TrustInv, GotRecent, SeenLater, Underway
<1>3. resolved \subseteq Peers /\ nextTick \in Nat
    BY DEF TrustInv, TrustTypes
<1>4. ASSUME NEW t \in Int, StoredSince(t) PROVE StoredSince(t)'
    BY <1>1, <1>3, <1>4 DEF StoredSince, SeenLater
<1>5. /\ nextTick - 2 * RefreshEvery - LookupTimeout \in Int
      /\ nextTick - RefreshEvery - LookupTimeout \in Int
    BY <1>3, TrustConstants
<1>6. StoredRecent'
    BY <1>4, <1>5 DEF TrustInv, StoredRecent, Underway, StoredSince
<1> QED
    BY <1>2, <1>6

(* Pods move.                                                              *)
LEMMA MoveDNSStep ==
    ASSUME TrustInv, NEW n \in DOMAIN HostNames, NEW addrs \in SUBSET (Peers \ Fixed),
           MoveDNS(n, addrs)
    PROVE  TrustInv'
<1>1. /\ xtime' = xtime /\ resolved' = resolved /\ round' = round
      /\ nextTick' = nextTick /\ failing' = failing
      /\ dns' = [dns EXCEPT ![n] = addrs]
      /\ seen' = [a \in Peers |-> IF a \in InDNS(dns) THEN xtime ELSE seen[a]]
      /\ steady' = {p \in steady : p[2] \in dns'[p[1]]}
    BY DEF MoveDNS
<1>2. TrustTypes'
    <2>1. dns' \in [DOMAIN HostNames -> SUBSET Peers]
        BY <1>1 DEF TrustInv, TrustTypes
    <2>2. seen' \in [Peers -> Nat]
        BY <1>1 DEF TrustInv, TrustTypes
    <2> QED
        BY <1>1, <2>1, <2>2 DEF TrustInv, TrustTypes
<1>3. \A a \in Peers : seen'[a] <= xtime
    BY <1>1 DEF TrustInv, TrustClock, TrustTypes
<1>4. TrustClock'
    BY <1>1, <1>3 DEF TrustInv, TrustClock, Underway
<1>5. SeenLater
    <2> SUFFICES ASSUME NEW a \in Peers
                 PROVE  LastSeen(a)' \in Nat /\ LastSeen(a)' >= LastSeen(a)
        BY DEF SeenLater
    <2>1. LastSeen(a)' = xtime \/ LastSeen(a)' = LastSeen(a)
        BY <1>1 DEF LastSeen
    <2> QED
        BY <2>1, LastSeenBounds DEF TrustInv, TrustTypes
<1>6. StoredRecent' /\ \A g \in Rounds : GotRecent(g)'
    BY <1>1, <1>5, RecentKept
<1>7. /\ SteadyInDNS'
      /\ SteadyTrusted'
      /\ \A g \in Rounds : GotSteady(g)'
    BY <1>1 DEF TrustInv, SteadyInDNS, SteadyTrusted, Trusted, GotSteady, Underway
<1> QED
    BY <1>2, <1>4, <1>6, <1>7 DEF TrustInv

(* Time passes.                                                            *)
LEMMA TrustTickStep == ASSUME TrustInv, TrustTick PROVE TrustInv'
<1>1. /\ xtime' = xtime + 1 /\ dns' = dns /\ seen' = seen /\ steady' = steady
      /\ resolved' = resolved /\ round' = round
      /\ nextTick' = nextTick /\ failing' = failing
    BY DEF TrustTick
<1>2. TrustTypes'
    BY <1>1 DEF TrustInv, TrustTypes
<1>3. TrustClock'
    <2>1. \A a \in Peers : seen[a] <= xtime + 1
        BY DEF TrustInv, TrustTypes, TrustClock
    <2>2. nextTick - RefreshEvery <= xtime + 1
        BY TrustConstants DEF TrustInv, TrustTypes, TrustClock
    <2>3. ~Underway(Ticker) => xtime + 1 <= nextTick
        BY DEF TrustInv, TrustTypes, TrustTick, Underway
    <2>4. ASSUME NEW g \in Rounds, Underway(g)
          PROVE  round[g].start <= xtime + 1 /\ xtime + 1 - round[g].start <= LookupTimeout
        <3>1. /\ round[g].start \in Nat /\ xtime \in Nat /\ round[g].start <= xtime
              /\ xtime - round[g].start < LookupTimeout
            BY <2>4 DEF TrustInv, TrustTypes, TrustTick, TrustClock, Underway, RoundStates
        <3> QED
            BY <3>1, TrustConstants
    <2>5. \A g \in Rounds : Underway(g)' = Underway(g)
        BY <1>1 DEF Underway
    <2>6. Underway(Ticker) => round[Ticker].start = nextTick - RefreshEvery
        BY DEF TrustInv, TrustClock
    <2>7. (\A a \in Peers : seen[a] <= xtime)' /\ (nextTick - RefreshEvery <= xtime)'
        BY <1>1, <2>1, <2>2
    <2>8. (~Underway(Ticker) => xtime <= nextTick)'
        BY <1>1, <2>3, <2>5, TrustConstants
    <2>9. (Underway(Ticker) => round[Ticker].start = nextTick - RefreshEvery)'
        BY <1>1, <2>6, <2>5, TrustConstants
    <2>10. (\A g \in Rounds : Underway(g) => /\ round[g].start <= xtime
                                             /\ xtime - round[g].start <= LookupTimeout)'
        <3> SUFFICES ASSUME NEW g \in Rounds, Underway(g)
                     PROVE  /\ round'[g].start <= xtime'
                            /\ xtime' - round'[g].start <= LookupTimeout
            BY <2>5
        <3>1. round[g].start <= xtime + 1 /\ xtime + 1 - round[g].start <= LookupTimeout
            BY <2>4
        <3>2. /\ round'[g].start = round[g].start /\ xtime' = xtime + 1
              /\ xtime \in Nat /\ round[g].start \in Nat
            BY <1>1 DEF TrustInv, TrustTypes, RoundStates
        <3> QED
            BY <3>1, <3>2, TrustIntervals
    <2> QED
        BY <2>7, <2>8, <2>9, <2>10 DEF TrustClock
<1>4. SeenLater
    <2> SUFFICES ASSUME NEW a \in Peers
                 PROVE  LastSeen(a)' \in Nat /\ LastSeen(a)' >= LastSeen(a)
        BY DEF SeenLater
    <2>1. LastSeen(a)' = xtime + 1 \/ LastSeen(a)' = LastSeen(a)
        BY <1>1 DEF LastSeen, InDNS
    <2> QED
        BY <2>1, LastSeenBounds DEF TrustInv, TrustTypes
<1>5. StoredRecent' /\ \A g \in Rounds : GotRecent(g)'
    BY <1>1, <1>4, RecentKept
<1>6. SteadyInDNS' /\ SteadyTrusted' /\ \A g \in Rounds : GotSteady(g)'
    BY <1>1 DEF TrustInv, SteadyInDNS, SteadyTrusted, Trusted, GotSteady, Underway
<1> QED
    BY <1>2, <1>3, <1>5, <1>6 DEF TrustInv

(* A resolution begins.                                                    *)
LEMMA BeginFields ==
    ASSUME TrustInv, NEW g \in Rounds, Begin(g)
    PROVE  /\ round' \in [Rounds -> RoundStates]
           /\ round'[g].pc = "looking" /\ round'[g].start = xtime
           /\ round'[g].name = 1 /\ round'[g].got = {}
           /\ \A x \in Rounds \ {g} : round'[x] = round[x]
<1>1. Quiet \in RoundStates /\ Quiet.name = 1 /\ Quiet.got = {} /\ xtime \in Nat
    BY TrustConstants DEF Quiet, RoundStates, TrustInv, TrustTypes
<1> DEFINE afresh == [Quiet EXCEPT !.pc = "looking", !.start = xtime]
<1> HIDE DEF Quiet
<1>2. afresh \in RoundStates
    BY <1>1 DEF RoundStates
<1>3. afresh.pc = "looking" /\ afresh.start = xtime /\ afresh.name = 1 /\ afresh.got = {}
    BY <1>1 DEF RoundStates
<1>4. round \in [Rounds -> RoundStates] /\ round' = [round EXCEPT ![g] = afresh]
    BY DEF TrustInv, TrustTypes, Begin
<1> HIDE DEF afresh
<1> QED
    BY <1>2, <1>3, <1>4

(* What a step of one resolution leaves to the others.                     *)
LEMMA OtherRounds ==
    ASSUME TrustInv, NEW g \in Rounds, xtime' = xtime, dns' = dns, seen' = seen,
           steady' = steady, \A x \in Rounds \ {g} : round'[x] = round[x],
           GotRecent(g)', GotSteady(g)'
    PROVE  \A x \in Rounds : GotRecent(x)' /\ GotSteady(x)'
<1> SUFFICES ASSUME NEW x \in Rounds, x # g PROVE GotRecent(x)' /\ GotSteady(x)'
    OBVIOUS
<1>1. round'[x] = round[x] /\ round[x].got \subseteq Peers
    BY DEF TrustInv, TrustTypes, RoundStates
<1>2. GotRecent(x)'
    BY <1>1, SameSeen DEF TrustInv, GotRecent, Underway
<1>3. GotSteady(x)'
    BY <1>1 DEF TrustInv, GotSteady, Underway
<1> QED
    BY <1>2, <1>3

LEMMA TickerFiresStep == ASSUME TrustInv, TickerFires PROVE TrustInv'
<1>1. /\ xtime' = xtime /\ dns' = dns /\ seen' = seen /\ steady' = steady
      /\ resolved' = resolved /\ failing' = failing
      /\ nextTick' = nextTick + RefreshEvery
      /\ ~Underway(Ticker) /\ xtime = nextTick
    <2>1. xtime >= nextTick /\ ~Underway(Ticker)
        BY DEF TickerFires, Underway
    <2>2. xtime <= nextTick /\ xtime \in Nat /\ nextTick \in Nat
        BY <2>1 DEF TrustInv, TrustClock, TrustTypes
    <2> QED
        BY <2>1, <2>2 DEF TickerFires
<1>2. /\ round' \in [Rounds -> RoundStates]
      /\ round'[Ticker].pc = "looking" /\ round'[Ticker].start = xtime
      /\ round'[Ticker].name = 1 /\ round'[Ticker].got = {}
      /\ \A x \in Rounds \ {Ticker} : round'[x] = round[x]
    BY BeginFields, TrustConstants DEF TickerFires
<1>3. TrustTypes'
    BY <1>1, <1>2, TrustConstants DEF TrustInv, TrustTypes
<1>4. TrustClock'
    <2>1. Underway(Ticker)' /\ round'[Ticker].start = nextTick' - RefreshEvery
        BY <1>1, <1>2, TrustConstants DEF Underway, TrustInv, TrustTypes
    <2>2. nextTick' - RefreshEvery <= xtime
        BY <1>1, TrustConstants DEF TrustInv, TrustTypes
    <2>3. ASSUME NEW g \in Rounds, Underway(g)'
          PROVE  round'[g].start <= xtime /\ xtime - round'[g].start <= LookupTimeout
        <3>1. CASE g = Ticker
            BY <3>1, <1>2, TrustConstants DEF TrustInv, TrustTypes
        <3>2. CASE g # Ticker
            <4>1. round'[g] = round[g]
                BY <3>2, <1>2
            <4> QED
                BY <4>1, <2>3 DEF TrustInv, TrustClock, Underway
        <3> QED
            BY <3>1, <3>2
    <2> QED
        BY <1>1, <2>1, <2>2, <2>3 DEF TrustInv, TrustClock
<1>5. GotRecent(Ticker)' /\ GotSteady(Ticker)'
    <2>1. GotRecent(Ticker)'
        BY <1>2 DEF GotRecent
    <2>2. ASSUME NEW p \in steady PROVE ~(p[1] < 1)
        BY <2>2, TrustConstants DEF TrustInv, TrustTypes
    <2> QED
        BY <1>1, <1>2, <2>1, <2>2 DEF GotSteady
<1>6. \A x \in Rounds : GotRecent(x)' /\ GotSteady(x)'
    BY <1>1, <1>2, <1>5, OtherRounds, TrustConstants
<1>7. StoredRecent'
    <2>1. Underway(Ticker)'
        BY <1>2 DEF Underway
    <2>2. nextTick' - 2 * RefreshEvery - LookupTimeout = nextTick - RefreshEvery - LookupTimeout
        BY <1>1, TrustConstants DEF TrustInv, TrustTypes
    <2>3. ~failing => \A a \in resolved : LastSeen(a) >= nextTick - RefreshEvery - LookupTimeout
        BY <1>1 DEF TrustInv, StoredRecent, StoredSince
    <2>4. \A a \in resolved : LastSeen(a)' = LastSeen(a)
        BY <1>1, SameSeen DEF TrustInv, TrustTypes
    <2> QED
        BY <1>1, <2>1, <2>2, <2>3, <2>4 DEF StoredRecent, StoredSince
<1>8. SteadyInDNS' /\ SteadyTrusted'
    BY <1>1 DEF TrustInv, SteadyInDNS, SteadyTrusted, Trusted
<1> QED
    BY <1>3, <1>4, <1>6, <1>7, <1>8 DEF TrustInv

(* ConnPolicy starts a resolution beside the ticker's.                     *)
LEMMA UnknownPeerStep ==
    ASSUME TrustInv, NEW a \in Peers, NEW g \in Forced, UnknownPeer(a, g)
    PROVE  TrustInv'
<1> g \in Rounds /\ g # Ticker /\ Ticker \in Rounds
    BY TrustConstants DEF Rounds
<1>1. /\ xtime' = xtime /\ dns' = dns /\ seen' = seen /\ steady' = steady
      /\ resolved' = resolved /\ failing' = failing /\ nextTick' = nextTick
    BY DEF UnknownPeer
<1>2. /\ round' \in [Rounds -> RoundStates]
      /\ round'[g].pc = "looking" /\ round'[g].start = xtime
      /\ round'[g].name = 1 /\ round'[g].got = {}
      /\ \A x \in Rounds \ {g} : round'[x] = round[x]
    BY BeginFields DEF UnknownPeer
<1>3. TrustTypes'
    BY <1>1, <1>2 DEF TrustInv, TrustTypes
<1>4. round'[Ticker] = round[Ticker] /\ Underway(Ticker)' = Underway(Ticker)
    BY <1>2 DEF Underway
<1>5. TrustClock'
    <2>1. ASSUME NEW x \in Rounds, Underway(x)'
          PROVE  round'[x].start <= xtime /\ xtime - round'[x].start <= LookupTimeout
        <3>1. CASE x = g
            BY <3>1, <1>2, TrustConstants DEF TrustInv, TrustTypes
        <3>2. CASE x # g
            <4>1. round'[x] = round[x]
                BY <3>2, <1>2
            <4> QED
                BY <4>1, <2>1 DEF TrustInv, TrustClock, Underway
        <3> QED
            BY <3>1, <3>2
    <2> QED
        BY <1>1, <1>4, <2>1 DEF TrustInv, TrustClock
<1>6. GotRecent(g)' /\ GotSteady(g)'
    <2>1. GotRecent(g)'
        BY <1>2 DEF GotRecent
    <2>2. ASSUME NEW p \in steady PROVE ~(p[1] < 1)
        BY <2>2, TrustConstants DEF TrustInv, TrustTypes
    <2> QED
        BY <1>1, <1>2, <2>1, <2>2 DEF GotSteady
<1>7. \A x \in Rounds : GotRecent(x)' /\ GotSteady(x)'
    BY <1>1, <1>2, <1>6, OtherRounds
<1>8. StoredRecent'
    <2>1. \A x \in resolved : LastSeen(x)' = LastSeen(x)
        BY <1>1, SameSeen DEF TrustInv, TrustTypes
    <2> QED
        BY <1>1, <1>4, <2>1 DEF TrustInv, StoredRecent, StoredSince
<1>9. SteadyInDNS' /\ SteadyTrusted'
    BY <1>1 DEF TrustInv, SteadyInDNS, SteadyTrusted, Trusted
<1> QED
    BY <1>3, <1>5, <1>7, <1>8, <1>9 DEF TrustInv

(* The next name: what it gives is in the DNS now.                         *)
LEMMA LookupStep == ASSUME TrustInv, NEW g \in Rounds, Lookup(g) PROVE TrustInv'
<1> DEFINE n == round[g].name
           next == AfterLookup(g)
<1>1. /\ xtime' = xtime /\ dns' = dns /\ seen' = seen /\ steady' = steady
      /\ resolved' = resolved /\ failing' = failing /\ nextTick' = nextTick
      /\ round[g].pc = "looking" /\ round' = [round EXCEPT ![g] = next]
    BY DEF Lookup
<1>2. /\ round[g] \in RoundStates /\ n \in 1..Len(HostNames)
      /\ dns[n] \subseteq Peers
    BY TrustConstants DEF TrustInv, TrustTypes, RoundStates
<1>3. /\ next \in RoundStates /\ next.start = round[g].start
      /\ next.got = round[g].got \cup dns[n]
      /\ IF n < Len(HostNames) THEN next.pc = "looking" /\ next.name = n + 1
         ELSE next.pc = "resolved" /\ next.name = n
    BY <1>1, <1>2, TrustConstants DEF RoundStates, AfterLookup
<1> HIDE DEF next
<1>4. /\ round' \in [Rounds -> RoundStates] /\ round'[g] = next
      /\ \A x \in Rounds \ {g} : round'[x] = round[x]
    BY <1>1, <1>3 DEF TrustInv, TrustTypes
<1>5. Underway(g) /\ next.pc # "idle"
    BY <1>1, <1>3 DEF Underway
<1>6. \A x \in Rounds : /\ Underway(x)' = Underway(x)
                         /\ round'[x].start = round[x].start
    BY <1>3, <1>4, <1>5 DEF Underway
<1>7. TrustTypes'
    BY <1>1, <1>4 DEF TrustInv, TrustTypes
<1>8. TrustClock'
    BY <1>1, <1>6, TrustConstants DEF TrustInv, TrustClock
<1>9. GotRecent(g)'
    <2> SUFFICES ASSUME NEW a \in next.got PROVE LastSeen(a)' >= next.start
        BY <1>4 DEF GotRecent
    <2>1. a \in Peers
        BY <1>3 DEF RoundStates
    <2>2. LastSeen(a)' = LastSeen(a)
        BY <1>1, <2>1, SameSeen
    <2>3. CASE a \in round[g].got
        BY <2>2, <2>3, <1>3, <1>5 DEF TrustInv, GotRecent
    <2>4. CASE a \in dns[n]
        <3>1. LastSeen(a) = xtime
            BY <2>4, <1>2, TrustConstants DEF LastSeen, InDNS
        <3>2. round[g].start <= xtime
            BY <1>5 DEF TrustInv, TrustClock
        <3> QED
            BY <2>2, <3>1, <3>2, <1>2, <1>3 DEF RoundStates, TrustInv, TrustTypes
    <2> QED
        BY <2>3, <2>4, <1>3
<1>10. GotSteady(g)'
    <2> SUFFICES ASSUME NEW p \in steady, p[1] < next.name \/ next.pc = "resolved"
                 PROVE  p[2] \in next.got
        BY <1>1, <1>4 DEF GotSteady
    <2>1. p[1] \in 1..Len(HostNames) /\ p[2] \in dns[p[1]]
        BY TrustConstants DEF TrustInv, TrustTypes, SteadyInDNS
    <2>2. p[1] < n \/ p[1] = n
        BY <2>1, <1>2, <1>3, TrustConstants
    <2>3. CASE p[1] < n
        BY <2>3, <1>3, <1>5 DEF TrustInv, GotSteady
    <2>4. CASE p[1] = n
        BY <2>4, <2>1, <1>3
    <2> QED
        BY <2>2, <2>3, <2>4
<1>11. \A x \in Rounds : GotRecent(x)' /\ GotSteady(x)'
    BY <1>1, <1>4, <1>9, <1>10, OtherRounds
<1>12. StoredRecent'
    <2>1. \A x \in resolved : LastSeen(x)' = LastSeen(x)
        BY <1>1, SameSeen DEF TrustInv, TrustTypes
    <2> QED
        BY <1>1, <1>6, <2>1, TrustConstants DEF TrustInv, StoredRecent, StoredSince
<1>13. SteadyInDNS' /\ SteadyTrusted'
    BY <1>1 DEF TrustInv, SteadyInDNS, SteadyTrusted, Trusted
<1> QED
    BY <1>7, <1>8, <1>11, <1>12, <1>13 DEF TrustInv

(* A resolution ends, in either way.                                       *)
LEMMA EndOfRound ==
    ASSUME TrustInv, NEW g \in Rounds, Underway(g), round' = [round EXCEPT ![g] = Quiet],
           xtime' = xtime, dns' = dns, seen' = seen, steady' = steady, nextTick' = nextTick,
           failing' \in BOOLEAN, resolved' \subseteq Peers
    PROVE  /\ TrustTypes' /\ TrustClock' /\ SteadyInDNS'
           /\ \A x \in Rounds : GotRecent(x)' /\ GotSteady(x)'
           /\ Underway(Ticker)' => Underway(Ticker)
<1>1. Quiet \in RoundStates /\ Quiet.pc = "idle"
    BY TrustConstants DEF Quiet, RoundStates
<1>2. /\ round' \in [Rounds -> RoundStates] /\ ~Underway(g)'
      /\ \A x \in Rounds \ {g} : round'[x] = round[x]
    BY <1>1 DEF TrustInv, TrustTypes, Underway
<1>3. \A x \in Rounds : Underway(x)' => Underway(x) /\ round'[x] = round[x]
    BY <1>2 DEF Underway
<1>4. TrustTypes' /\ SteadyInDNS'
    BY <1>2 DEF TrustInv, TrustTypes, SteadyInDNS
<1>5. GotRecent(g)' /\ GotSteady(g)'
    BY <1>2 DEF GotRecent, GotSteady
<1>6. \A x \in Rounds : GotRecent(x)' /\ GotSteady(x)'
    BY <1>2, <1>5, OtherRounds
<1>7. ~Underway(Ticker)' => xtime <= nextTick
    <2>1. CASE ~Underway(Ticker)
        BY <2>1 DEF TrustInv, TrustClock
    <2>2. CASE Underway(Ticker)
        <3>1. /\ round[Ticker].start = nextTick - RefreshEvery
              /\ xtime - round[Ticker].start <= LookupTimeout
              /\ nextTick \in Nat /\ xtime \in Nat
            BY <2>2, TrustConstants DEF TrustInv, TrustClock, TrustTypes
        <3> QED
            BY <3>1, TrustConstants
    <2> QED
        BY <2>1, <2>2
<1>8. TrustClock'
    <2>1. /\ (\A a \in Peers : seen[a] <= xtime)' /\ (nextTick - RefreshEvery <= xtime)'
          /\ (~Underway(Ticker) => xtime <= nextTick)'
        BY <1>7 DEF TrustInv, TrustClock
    <2>2. /\ (Underway(Ticker) => round[Ticker].start = nextTick - RefreshEvery)'
          /\ (\A x \in Rounds : Underway(x) => /\ round[x].start <= xtime
                                               /\ xtime - round[x].start <= LookupTimeout)'
        BY <1>3, TrustConstants DEF TrustInv, TrustClock
    <2> QED
        BY <2>1, <2>2 DEF TrustClock
<1> QED
    BY <1>3, <1>4, <1>6, <1>8, TrustConstants

(* The last known good set is kept.                                        *)
LEMMA LookupFailsStep == ASSUME TrustInv, NEW g \in Rounds, LookupFails(g) PROVE TrustInv'
<1>1. /\ xtime' = xtime /\ dns' = dns /\ seen' = seen /\ steady' = steady
      /\ resolved' = resolved /\ failing' = TRUE /\ nextTick' = nextTick
      /\ round' = [round EXCEPT ![g] = Quiet] /\ Underway(g)
    BY DEF LookupFails, FailRound, Underway
<1>2. resolved' \subseteq Peers
    BY <1>1 DEF TrustInv, TrustTypes
<1>3. /\ TrustTypes' /\ TrustClock' /\ SteadyInDNS'
      /\ \A x \in Rounds : GotRecent(x)' /\ GotSteady(x)'
    BY <1>1, <1>2, EndOfRound
<1>4. StoredRecent' /\ SteadyTrusted'
    BY <1>1 DEF TrustInv, StoredRecent, SteadyTrusted, Trusted
<1> QED
    BY <1>3, <1>4 DEF TrustInv

(* Whichever resolution stores its result, it began at most a timeout ago. *)
LEMMA StoreResultStep == ASSUME TrustInv, NEW g \in Rounds, StoreResult(g) PROVE TrustInv'
<1>1. /\ xtime' = xtime /\ dns' = dns /\ seen' = seen /\ steady' = steady
      /\ resolved' = round[g].got /\ failing' = FALSE /\ nextTick' = nextTick
      /\ round' = [round EXCEPT ![g] = Quiet] /\ round[g].pc = "resolved" /\ Underway(g)
    BY DEF StoreResult, Result, Underway
<1>2. round[g].got \subseteq Peers /\ round[g].start \in Nat
    BY DEF TrustInv, TrustTypes, RoundStates
<1>3. /\ TrustTypes' /\ TrustClock' /\ SteadyInDNS'
      /\ \A x \in Rounds : GotRecent(x)' /\ GotSteady(x)'
    BY <1>1, <1>2, EndOfRound
<1>4. SteadyTrusted'
    BY <1>1 DEF TrustInv, SteadyTrusted, Trusted, GotSteady
<1>5. ASSUME NEW a \in round[g].got
      PROVE  LastSeen(a)' >= nextTick - RefreshEvery - LookupTimeout
    <2>1. LastSeen(a)' = LastSeen(a) /\ LastSeen(a) \in Nat
        BY <1>1, <1>2, SameSeen, LastSeenBounds DEF TrustInv
    <2>2. LastSeen(a) >= round[g].start
        BY <1>1 DEF TrustInv, GotRecent
    <2>3. /\ xtime - round[g].start <= LookupTimeout /\ nextTick - RefreshEvery <= xtime
          /\ xtime \in Nat /\ nextTick \in Nat
        BY <1>1 DEF TrustInv, TrustClock, TrustTypes
    <2> QED
        BY <2>1, <2>2, <2>3, <1>2, TrustIntervals
<1>6. ASSUME NEW a \in round[g].got
      PROVE  LastSeen(a)' >= nextTick - 2 * RefreshEvery - LookupTimeout
    <2>1. LastSeen(a)' \in Nat /\ nextTick \in Nat
        BY <1>1, <1>2, SameSeen DEF TrustInv, TrustTypes, SeenLater
    <2> QED
        BY <2>1, <1>5, TrustIntervals
<1>7. StoredRecent'
    BY <1>1, <1>5, <1>6 DEF StoredRecent, StoredSince
<1> QED
    BY <1>3, <1>4, <1>7 DEF TrustInv

LEMMA TrustNextStep == TrustInv /\ [TrustNext]_trustVars => TrustInv'
<1> SUFFICES ASSUME TrustInv, [TrustNext]_trustVars PROVE TrustInv'
    OBVIOUS
<1>1. CASE UNCHANGED trustVars
    <2>1. /\ xtime' = xtime /\ dns' = dns /\ seen' = seen /\ steady' = steady
          /\ resolved' = resolved /\ round' = round
          /\ nextTick' = nextTick /\ failing' = failing
        BY <1>1 DEF trustVars
    <2>2. TrustTypes' /\ TrustClock' /\ SteadyInDNS' /\ SteadyTrusted'
        BY <2>1 DEF TrustInv, TrustTypes, TrustClock, SteadyInDNS, SteadyTrusted,
                    Trusted, Underway
    <2>3. StoredRecent' /\ \A g \in Rounds : GotRecent(g)'
        BY <2>1, SameSeen, RecentKept
    <2>4. \A g \in Rounds : GotSteady(g)'
        BY <2>1 DEF TrustInv, GotSteady, Underway
    <2> QED
        BY <2>2, <2>3, <2>4 DEF TrustInv
<1> QED
    BY <1>1, MoveDNSStep, TrustTickStep, TickerFiresStep, UnknownPeerStep, LookupStep,
       LookupFailsStep, StoreResultStep DEF TrustNext

(* However resolutions overlap, fail and store their results, for any      *)
(* number of them, of names and of addresses: what never left the DNS is   *)
(* always trusted, and what left it no longer than an interval and two     *)
(* timeouts (proxytrust.go: Run, Refresh, triggerRefresh, Trusted).        *)
THEOREM TrustTracksAlways == TrustSpec => []TrustTracksDNS
<1>1. TrustInit => TrustInv
    BY InitTrustInv
<1>2. TrustInv /\ [TrustNext]_trustVars => TrustInv'
    BY TrustNextStep
<1>3. TrustInv => TrustTracksDNS
    BY TrustInvTracks
<1> QED
    BY <1>1, <1>2, <1>3, PTL DEF TrustSpec

-----------------------------------------------------------------------------
(* The audit stream.  First, sequences and the sets of their elements.     *)

LEMMA ToSetElement ==
    ASSUME NEW S, NEW s \in Seq(S), NEW k \in 1..Len(s)
    PROVE  s[k] \in ToSet(s) /\ s[k] \in S
BY DEF ToSet

LEMMA ToSetAppend ==
    ASSUME NEW S, NEW s \in Seq(S), NEW x \in S
    PROVE  Append(s, x) \in Seq(S) /\ ToSet(Append(s, x)) = ToSet(s) \cup {x}
<1> DEFINE t == Append(s, x)
<1>1. t \in Seq(S) /\ DOMAIN t = 1..(Len(s) + 1) /\ DOMAIN s = 1..Len(s) /\ Len(s) \in Nat
      /\ t[Len(s) + 1] = x /\ \A k \in 1..Len(s) : t[k] = s[k]
    OBVIOUS
<1> HIDE DEF t
<1>2. ASSUME NEW y \in ToSet(t) PROVE y \in ToSet(s) \cup {x}
    BY <1>1 DEF ToSet
<1>3. ASSUME NEW y \in ToSet(s) PROVE y \in ToSet(t)
    BY <1>1 DEF ToSet
<1>4. x \in ToSet(t)
    BY <1>1 DEF ToSet
<1> QED
    BY <1>1, <1>2, <1>3, <1>4 DEF t

LEMMA ToSetConcat ==
    ASSUME NEW S, NEW s \in Seq(S), NEW r \in Seq(S)
    PROVE  s \o r \in Seq(S) /\ ToSet(s \o r) = ToSet(s) \cup ToSet(r)
<1> DEFINE t == s \o r
<1>1. t \in Seq(S) /\ DOMAIN t = 1..(Len(s) + Len(r)) /\ DOMAIN s = 1..Len(s)
      /\ DOMAIN r = 1..Len(r) /\ Len(s) \in Nat /\ Len(r) \in Nat
      /\ (\A k \in 1..Len(s) : t[k] = s[k])
      /\ (\A k \in 1..Len(r) : t[Len(s) + k] = r[k])
    OBVIOUS
<1> HIDE DEF t
<1>2. ASSUME NEW y \in ToSet(t) PROVE y \in ToSet(s) \cup ToSet(r)
    <2>1. PICK k \in 1..(Len(s) + Len(r)) : y = t[k]
        BY <1>1 DEF ToSet
    <2>2. CASE k <= Len(s)
        <3>1. k \in 1..Len(s)
            BY <1>1, <2>1, <2>2
        <3>2. y = s[k]
            BY <1>1, <2>1, <3>1
        <3> QED
            BY <1>1, <3>1, <3>2 DEF ToSet
    <2>3. CASE k > Len(s)
        <3>1. k - Len(s) \in 1..Len(r) /\ k = Len(s) + (k - Len(s))
            BY <1>1, <2>3
        <3>2. y = r[k - Len(s)]
            BY <1>1, <2>1, <3>1
        <3> QED
            BY <1>1, <3>1, <3>2 DEF ToSet
    <2> QED
        BY <1>1, <2>2, <2>3
<1>3. ASSUME NEW y \in ToSet(s) PROVE y \in ToSet(t)
    BY <1>1 DEF ToSet
<1>4. ASSUME NEW y \in ToSet(r) PROVE y \in ToSet(t)
    <2>1. PICK k \in 1..Len(r) : y = r[k]
        BY <1>1 DEF ToSet
    <2>2. Len(s) + k \in DOMAIN t /\ t[Len(s) + k] = y
        BY <1>1, <2>1
    <2> QED
        BY <2>2 DEF ToSet
<1> QED
    BY <1>1, <1>2, <1>3, <1>4 DEF t

LEMMA AscendingAppend ==
    ASSUME NEW s \in Seq(Int), NEW x \in Int, Ascending(s), \A y \in ToSet(s) : y < x
    PROVE  Ascending(Append(s, x))
<1> DEFINE t == Append(s, x)
<1>1. Len(t) = Len(s) + 1 /\ Len(s) \in Nat /\ t[Len(s) + 1] = x
      /\ \A k \in 1..Len(s) : t[k] = s[k]
    OBVIOUS
<1>2. \A k \in 1..Len(s) : s[k] < x
    BY ToSetElement
<1> HIDE DEF t
<1>3. ASSUME NEW i \in 1..Len(t), NEW j \in 1..Len(t), i < j PROVE t[i] < t[j]
    <2>1. CASE j = Len(s) + 1
        <3>1. i \in 1..Len(s)
            BY <1>1, <1>3, <2>1
        <3> QED
            BY <1>1, <1>2, <2>1, <3>1
    <2>2. CASE j \in 1..Len(s)
        <3>1. i \in 1..Len(s)
            BY <1>1, <1>3, <2>2
        <3> QED
            BY <1>1, <1>3, <2>2, <3>1 DEF Ascending
    <2> QED
        BY <1>1, <2>1, <2>2
<1> QED
    BY <1>3 DEF Ascending, t

LEMMA AscendingConcat ==
    ASSUME NEW s \in Seq(Int), NEW r \in Seq(Int), Ascending(s), Ascending(r),
           \A x \in ToSet(s), y \in ToSet(r) : x < y
    PROVE  Ascending(s \o r)
<1> DEFINE t == s \o r
<1>1. Len(t) = Len(s) + Len(r) /\ Len(s) \in Nat /\ Len(r) \in Nat
      /\ (\A k \in 1..Len(s) : t[k] = s[k])
      /\ (\A k \in 1..Len(r) : t[Len(s) + k] = r[k])
    OBVIOUS
<1> HIDE DEF t
<1>2. \A k \in 1..Len(t) : k > Len(s) =>
        k - Len(s) \in 1..Len(r) /\ t[k] = r[k - Len(s)]
    <2>1. ASSUME NEW k \in 1..Len(t), k > Len(s)
          PROVE  k - Len(s) \in 1..Len(r) /\ t[k] = r[k - Len(s)]
        <3>1. k - Len(s) \in 1..Len(r) /\ k = Len(s) + (k - Len(s))
            BY <1>1, <2>1
        <3> QED
            BY <1>1, <3>1
    <2> QED
        BY <2>1
<1>3. ASSUME NEW i \in 1..Len(t), NEW j \in 1..Len(t), i < j PROVE t[i] < t[j]
    <2>1. CASE j <= Len(s)
        <3>1. i \in 1..Len(s) /\ j \in 1..Len(s)
            BY <1>1, <1>3, <2>1
        <3> QED
            BY <1>1, <1>3, <3>1 DEF Ascending
    <2>2. CASE i > Len(s)
        <3>1. i - Len(s) \in 1..Len(r) /\ j - Len(s) \in 1..Len(r)
              /\ i - Len(s) < j - Len(s) /\ t[i] = r[i - Len(s)] /\ t[j] = r[j - Len(s)]
            BY <1>1, <1>2, <1>3, <2>2
        <3> QED
            BY <3>1 DEF Ascending
    <2>3. CASE i <= Len(s) /\ j > Len(s)
        <3>1. i \in 1..Len(s) /\ t[i] = s[i] /\ j - Len(s) \in 1..Len(r) /\ t[j] = r[j - Len(s)]
            BY <1>1, <1>2, <2>3
        <3>2. s[i] \in ToSet(s) /\ r[j - Len(s)] \in ToSet(r)
            BY <3>1, ToSetElement
        <3> QED
            BY <3>1, <3>2
    <2> QED
        BY <1>1, <1>3, <2>1, <2>2, <2>3
<1> QED
    BY <1>3 DEF Ascending, t

LEMMA AscendingLast ==
    ASSUME NEW s \in Seq(Int), Ascending(s), s # <<>>
    PROVE  /\ Last(s) \in ToSet(s) /\ Last(s) \in Int
           /\ \A i \in ToSet(s) : i <= Last(s) /\ i \in Int
<1>1. Len(s) \in Nat /\ Len(s) \in 1..Len(s) /\ DOMAIN s = 1..Len(s)
    OBVIOUS
<1>2. Last(s) \in ToSet(s) /\ Last(s) \in Int
    BY <1>1, ToSetElement DEF Last
<1>3. ASSUME NEW i \in ToSet(s) PROVE i <= Last(s) /\ i \in Int
    <2>1. PICK k \in 1..Len(s) : i = s[k]
        BY <1>1 DEF ToSet
    <2>2. s[k] \in Int /\ (k < Len(s) => s[k] < s[Len(s)])
        BY <1>1 DEF Ascending
    <2> QED
        BY <1>1, <1>2, <2>1, <2>2 DEF Last
<1> QED
    BY <1>2, <1>3

(* A bounded set of integers has a largest element, which is what Max      *)
(* denotes.                                                                *)
LEMMA MaxOfBounded ==
    ASSUME NEW S, S \subseteq Int, S # {}, NEW b \in Int, \A x \in S : x <= b
    PROVE  Max(S) \in S /\ \A y \in S : Max(S) >= y
<1> DEFINE T == {b - x : x \in S}
           R == OpToRel(<, Nat)
<1>0. \A x \in S : b - x \in Nat
    OBVIOUS
<1>1. T \subseteq Nat /\ T # {}
    BY <1>0
<1>2. IsWellFoundedOn(R, Nat)
    BY NatLessThanWellFounded
<1>3. \E t \in T : \A u \in T : ~ (<<u, t>> \in R)
    <2> HIDE DEF T, R
    <2> QED
        BY <1>1, <1>2, WFMin
<1>4. PICK t \in T : \A u \in T : ~ (<<u, t>> \in R)
    BY <1>3
<1>5. \A u \in T : u \in Nat /\ t \in Nat /\ ~ (u < t)
    BY <1>1, <1>4 DEF OpToRel
<1>6. PICK x \in S : t = b - x
    OBVIOUS
<1>7. \A y \in S : x >= y
    BY <1>5, <1>6
<1> QED
    BY <1>7 DEF Max

(* The inductive invariant.                                                *)
StreamTypes ==
    /\ event \in [Ids -> {"free", "open", "committed", "rolled back"}]
    /\ spc \in {"starting", "returned", "polling", "draining", "emitting"}
    /\ lastID \in 0..MaxEvents
    /\ batch \in Seq(Ids) /\ logged \in Seq(Ids) /\ posted \in Seq(Ids)
    /\ atEvent \in Nat

(* Ids are drawn in order, and only committed events are read.             *)
DrawnInOrder ==
    /\ \A i, j \in Ids : j < i /\ event[i] # "free" => event[j] # "free"
    /\ lastID # 0 => event[lastID] # "free"
    /\ ToSet(logged) \cup ToSet(posted) \cup ToSet(batch) \subseteq Visible

(* The cursor and the events of the batch that are logged are at or past   *)
(* everything emitted.                                                     *)
CursorAhead ==
    /\ Ascending(logged) /\ Ascending(posted) /\ Ascending(batch)
    /\ spc \in {"polling", "draining"} =>
          \A i \in ToSet(logged) \cup ToSet(posted) : i <= lastID
    /\ spc = "emitting" =>
          /\ batch # <<>> /\ atEvent <= Len(batch)
          /\ \A i \in ToSet(batch) : i > lastID
          /\ \A i \in ToSet(posted) : i <= lastID
          /\ \A i \in ToSet(logged) : i <= lastID \/ (atEvent > 0 /\ i <= batch[atEvent])

(* What is or may become visible up to the cursor is logged or excused; up *)
(* to the end of the batch it is in the batch or excused.                  *)
Pending(i) == event[i] \in {"open", "committed"}

PassedLogged ==
    /\ spc = "starting" => lastID = 0
    /\ "log" \in sinks =>
          \A i \in Ids : i <= lastID /\ Pending(i) => i \in ToSet(logged) \cup excused
    /\ spc = "emitting" =>
          /\ "log" \in sinks => \A k \in 1..atEvent : batch[k] \in ToSet(logged)
          /\ \A i \in Ids : i > lastID /\ i <= Last(batch) /\ Pending(i) =>
                i \in ToSet(batch) \cup excused

StreamInv == StreamTypes /\ DrawnInOrder /\ CursorAhead /\ PassedLogged

LEMMA IdsInt == Ids \subseteq Int /\ Ids \subseteq Nat /\ MaxEvents \in Nat /\ BatchSize \in Nat
                /\ \A i : i \in Ids <=> i \in Nat /\ 1 <= i /\ i <= MaxEvents
BY StreamAssumption DEF Ids

LEMMA CursorType == StreamTypes => lastID \in Nat /\ (lastID \in Ids \/ lastID = 0)
<1> SUFFICES ASSUME StreamTypes PROVE lastID \in Nat /\ (lastID \in Ids \/ lastID = 0)
    OBVIOUS
<1>1. lastID \in 0..MaxEvents /\ MaxEvents \in Nat
    BY StreamAssumption DEF StreamTypes
<1> QED
    BY <1>1 DEF Ids

LEMMA SeqIds == ASSUME NEW s \in Seq(Ids) PROVE s \in Seq(Int) /\ ToSet(s) \subseteq Ids
<1>1. \A k \in 1..Len(s) : s[k] \in Ids /\ s[k] \in Int
    BY IdsInt
<1> QED
    BY <1>1, IdsInt DEF ToSet

LEMMA EmptyToSet == ToSet(<<>>) = {} /\ Ascending(<<>>) /\ <<>> \in Seq(Ids)
BY DEF ToSet, Ascending

LEMMA InitStreamInv == StreamInit => StreamInv
BY EmptyToSet, IdsInt DEF StreamInit, StreamInv, StreamTypes, DrawnInOrder, CursorAhead, PassedLogged, Pending

(* Events are drawn and settled.                                           *)
LEMMA EventStep ==
    ASSUME StreamInv, NEW i \in Ids, InsertAuditEvent(i) \/ Settle(i)
    PROVE  StreamInv'
<1> USE IdsInt
<1>1. UNCHANGED <<spc, lastID, batch, atEvent, sinks, logged, posted, excused, restarts>>
    BY DEF InsertAuditEvent, Settle
<1>2. /\ event' \in [Ids -> {"free", "open", "committed", "rolled back"}]
      /\ \A j \in Ids : j # i => event'[j] = event[j]
      /\ event'[i] # "free" /\ event[i] # "committed"
      /\ event[i] = "free" => \A j \in 1..(i - 1) : event[j] # "free"
      /\ Pending(i)' => Pending(i) \/ event[i] = "free"
    BY DEF StreamInv, StreamTypes, InsertAuditEvent, Settle, Pending
<1>3. StreamTypes'
    BY <1>1, <1>2 DEF StreamInv, StreamTypes
<1>4. DrawnInOrder'
    <2>1. Visible \subseteq Visible'
        BY <1>2 DEF Visible
    <2>2. ASSUME NEW j \in Ids, NEW k \in Ids, k < j, event'[j] # "free"
          PROVE  event'[k] # "free"
        <3>1. CASE j = i
            <4>1. event[k] # "free"
                <5>1. k \in 1..(i - 1)
                    BY <2>2, <3>1
                <5> QED
                    BY <1>2, <2>2, <3>1, <5>1 DEF StreamInv, DrawnInOrder
            <4> QED
                BY <1>2, <4>1
        <3>2. CASE j # i
            BY <1>2, <2>2, <3>2 DEF StreamInv, DrawnInOrder
        <3> QED
            BY <3>1, <3>2
    <2>3. lastID' # 0 => event'[lastID'] # "free"
        BY <1>1, <1>2, CursorType DEF StreamInv, DrawnInOrder
    <2> QED
        BY <1>1, <2>1, <2>2, <2>3 DEF StreamInv, DrawnInOrder
<1>5. CursorAhead'
    BY <1>1 DEF StreamInv, CursorAhead
<1>6. PassedLogged'
    <2>1. \A j \in Ids : Pending(j)' => Pending(j) \/ (j = i /\ event[i] = "free")
        BY <1>2 DEF Pending
    <2>2. i <= lastID => event[i] # "free"
        <3>1. lastID \in Ids \/ lastID = 0
            BY CursorType DEF StreamInv
        <3> QED
            BY <3>1 DEF StreamInv, DrawnInOrder
    <2>3. spc = "emitting" /\ i <= Last(batch) => event[i] # "free"
        <3>1. SUFFICES ASSUME spc = "emitting", i <= Last(batch) PROVE event[i] # "free"
            OBVIOUS
        <3>2. Last(batch) \in ToSet(batch) /\ ToSet(batch) \subseteq Visible
            BY <3>1, SeqIds, AscendingLast DEF StreamInv, StreamTypes, CursorAhead, DrawnInOrder
        <3>3. Last(batch) \in Ids /\ event[Last(batch)] # "free"
            BY <3>2 DEF Visible
        <3> QED
            BY <3>1, <3>3 DEF StreamInv, DrawnInOrder
    <2> QED
        BY <1>1, <2>1, <2>2, <2>3 DEF StreamInv, PassedLogged
<1> QED
    BY <1>3, <1>4, <1>5, <1>6 DEF StreamInv

LEMMA StartStep ==
    ASSUME StreamInv, Start
    PROVE  StreamInv'
<1> USE IdsInt
<1> DEFINE top == Max(Visible \cup {0})
<1>1. /\ spc' = "polling" /\ lastID' = top /\ excused' = excused \cup (1..top)
      /\ UNCHANGED <<event, batch, atEvent, sinks, logged, posted, restarts>>
    BY DEF Start
<1>2. top \in Visible \cup {0} /\ \A y \in Visible \cup {0} : top >= y
    <2>1. Visible \cup {0} \subseteq Int /\ \A y \in Visible \cup {0} : y <= MaxEvents
        BY DEF Visible
    <2> QED
        BY <2>1, MaxOfBounded
<1>3. top \in 0..MaxEvents /\ (top # 0 => top \in Visible)
    BY <1>2 DEF Visible
<1> HIDE DEF top
<1>4. StreamTypes'
    BY <1>1, <1>3 DEF StreamInv, StreamTypes
<1>5. DrawnInOrder'
    <2>1. Visible' = Visible
        BY <1>1 DEF Visible
    <2> QED
        BY <1>1, <1>3, <2>1 DEF StreamInv, DrawnInOrder, Visible
<1>6. CursorAhead'
    <2>1. \A i \in ToSet(logged) \cup ToSet(posted) : i <= top
        BY <1>2 DEF StreamInv, DrawnInOrder, Visible
    <2> QED
        BY <1>1, <2>1 DEF StreamInv, CursorAhead
<1>7. PassedLogged'
    BY <1>1, <1>3 DEF PassedLogged
<1> QED
    BY <1>4, <1>5, <1>6, <1>7 DEF StreamInv

LEMMA ListStep ==
    ASSUME StreamInv, List
    PROVE  StreamInv'
<1> USE IdsInt
<1>1. PICK found \in ListAuditEventsAfter(lastID) :
         IF found = <<>>
         THEN spc' = "polling" /\ UNCHANGED <<batch, atEvent, excused>>
         ELSE /\ spc' = "emitting"
              /\ batch' = found /\ atEvent' = 0
              /\ excused' = excused \cup {i \in Open : i < Last(found)}
    BY DEF List
<1>2. /\ spc \in {"polling", "draining"}
      /\ UNCHANGED <<event, lastID, sinks, logged, posted, restarts>>
      /\ Visible' = Visible
    BY DEF List, Visible
<1>3. CASE found = <<>>
    <2>1. spc' = "polling" /\ UNCHANGED <<batch, atEvent, excused>>
        BY <1>1, <1>3
    <2> QED
        BY <1>2, <2>1 DEF StreamInv, StreamTypes, DrawnInOrder, CursorAhead, PassedLogged, Pending
<1>4. CASE found # <<>>
    <2>1. /\ spc' = "emitting" /\ batch' = found /\ atEvent' = 0
          /\ excused' = excused \cup {i \in Open : i < Last(found)}
        BY <1>1, <1>4
    <2>2. /\ found \in Seq(Ids) /\ Ascending(found)
          /\ ToSet(found) \subseteq Visible /\ \A i \in ToSet(found) : i > lastID
        <3>1. found \in BatchesAfter(lastID)
            BY DEF ListAuditEventsAfter
        <3>2. PICK n \in 0..BatchSize : found \in [1..n -> Ids]
            BY <3>1 DEF BatchesAfter, BoundedSeq, SeqOf
        <3>3. found \in Seq(Ids)
            BY <3>2
        <3> QED
            BY <3>1, <3>3 DEF BatchesAfter
    <2>3. \A i \in Visible : i > lastID /\ i <= Last(found) => i \in ToSet(found)
        <3>1. Last(found) \in Int
            BY <1>4, <2>2, SeqIds, AscendingLast
        <3> QED
            BY <3>1 DEF ListAuditEventsAfter, Visible
    <2>4. Last(found) \in ToSet(found) /\ Last(found) \in Int
        BY <1>4, <2>2, SeqIds, AscendingLast
    <2>5. StreamTypes'
        BY <1>2, <2>1, <2>2 DEF StreamInv, StreamTypes
    <2>6. DrawnInOrder'
        BY <1>2, <2>1, <2>2 DEF StreamInv, DrawnInOrder
    <2>7. CursorAhead'
        BY <1>2, <1>4, <2>1, <2>2 DEF StreamInv, CursorAhead
    <2>8. PassedLogged'
        <3>1. ASSUME NEW i \in Ids, i > lastID, i <= Last(found), Pending(i)
              PROVE  i \in ToSet(found) \cup {j \in Open : j < Last(found)}
            <4>1. CASE event[i] = "committed"
                BY <2>3, <3>1, <4>1 DEF Visible
            <4>2. CASE event[i] = "open"
                <5>1. Last(found) \in Visible
                    BY <2>2, <2>4
                <5>2. i # Last(found)
                    BY <4>2, <5>1 DEF Visible
                <5> QED
                    BY <2>4, <3>1, <4>2, <5>2 DEF Open
            <4> QED
                BY <3>1, <4>1, <4>2 DEF Pending
        <3>2. \A i \in Ids : Pending(i)' <=> Pending(i)
            BY <1>2 DEF Pending
        <3>3. \A k \in 1..atEvent' : FALSE
            BY <2>1
        <3> QED
            BY <1>2, <2>1, <3>1, <3>2, <3>3 DEF StreamInv, PassedLogged
    <2> QED
        BY <2>5, <2>6, <2>7, <2>8 DEF StreamInv
<1> QED
    BY <1>3, <1>4

LEMMA LogEventStep ==
    ASSUME StreamInv, LogEvent
    PROVE  StreamInv'
<1> USE IdsInt
<1> DEFINE x == batch[atEvent + 1]
<1>1. /\ spc = "emitting" /\ "log" \in sinks /\ atEvent < Len(batch)
      /\ atEvent' = atEvent + 1 /\ logged' = Append(logged, x)
      /\ UNCHANGED <<event, spc, lastID, batch, sinks, posted, excused, restarts>>
    BY DEF LogEvent
<1>2. /\ batch \in Seq(Ids) /\ logged \in Seq(Ids) /\ atEvent \in Nat /\ lastID \in Nat
      /\ batch # <<>> /\ Ascending(batch) /\ Ascending(logged) /\ Len(batch) \in Nat
    <2>1. batch \in Seq(Ids) /\ logged \in Seq(Ids) /\ atEvent \in Nat /\ lastID \in Nat
        BY CursorType DEF StreamInv, StreamTypes
    <2>2. batch # <<>> /\ Ascending(batch) /\ Ascending(logged)
        BY <1>1 DEF StreamInv, CursorAhead
    <2> QED
        BY <2>1, <2>2
<1>3. x \in ToSet(batch) /\ x \in Ids /\ x \in Int /\ x \in Visible /\ x > lastID
    <2>1. atEvent + 1 \in 1..Len(batch)
        BY <1>1, <1>2
    <2>2. x \in ToSet(batch) /\ x \in Ids
        BY <1>2, <2>1, ToSetElement
    <2> QED
        BY <1>1, <2>2 DEF StreamInv, DrawnInOrder, CursorAhead
<1>4. atEvent > 0 => batch[atEvent] < x /\ batch[atEvent] \in Int
    <2>1. SUFFICES ASSUME atEvent > 0 PROVE batch[atEvent] < x /\ batch[atEvent] \in Int
        OBVIOUS
    <2>2. atEvent \in 1..Len(batch) /\ atEvent + 1 \in 1..Len(batch) /\ atEvent < atEvent + 1
        BY <1>1, <1>2, <2>1
    <2> QED
        BY <1>2, <2>2, ToSetElement DEF Ascending
<1> HIDE DEF x
<1>5. logged' \in Seq(Ids) /\ ToSet(logged') = ToSet(logged) \cup {x}
    BY <1>1, <1>2, <1>3, ToSetAppend
<1>6. \A y \in ToSet(logged) : y < x
    <2>1. ToSet(logged) \subseteq Int
        BY <1>2, SeqIds
    <2>2. \A y \in ToSet(logged) : y <= lastID \/ (atEvent > 0 /\ y <= batch[atEvent])
        BY <1>1 DEF StreamInv, CursorAhead
    <2> QED
        BY <1>2, <1>3, <1>4, <2>1, <2>2
<1>7. Ascending(logged')
    BY <1>1, <1>2, <1>3, <1>6, SeqIds, AscendingAppend
<1>8. batch[atEvent'] = x /\ atEvent' > 0 /\ atEvent' <= Len(batch) /\ atEvent' \in Nat
    BY <1>1, <1>2 DEF x
<1>9. \A y \in ToSet(logged') : y <= x
    <2>1. ToSet(logged) \subseteq Int
        BY <1>2, SeqIds
    <2> QED
        BY <1>3, <1>5, <1>6, <2>1
<1>10. StreamTypes'
    BY <1>1, <1>5, <1>8 DEF StreamInv, StreamTypes
<1>11. DrawnInOrder'
    <2>1. Visible' = Visible
        BY <1>1 DEF Visible
    <2> QED
        BY <1>1, <1>3, <1>5, <2>1 DEF StreamInv, DrawnInOrder
<1>12. CursorAhead'
    BY <1>1, <1>7, <1>8, <1>9 DEF StreamInv, CursorAhead
<1>13. PassedLogged'
    <2>1. \A k \in 1..atEvent' : batch[k] \in ToSet(logged')
        <3>1. \A k \in 1..atEvent : batch[k] \in ToSet(logged)
            BY <1>1 DEF StreamInv, PassedLogged
        <3>2. \A k \in 1..atEvent' : k \in 1..atEvent \/ k = atEvent'
            BY <1>1, <1>2
        <3> QED
            BY <1>5, <1>8, <3>1, <3>2
    <2>2. \A i \in Ids : Pending(i)' <=> Pending(i)
        BY <1>1 DEF Pending
    <2> QED
        BY <1>1, <1>5, <2>1, <2>2 DEF StreamInv, PassedLogged
<1> QED
    BY <1>10, <1>11, <1>12, <1>13 DEF StreamInv

LEMMA PostStep ==
    ASSUME StreamInv, Post
    PROVE  StreamInv'
<1> USE IdsInt
<1>1. /\ spc = "emitting" /\ ("log" \in sinks => atEvent = Len(batch))
      /\ posted' = posted \o batch \/ posted' = posted
      /\ lastID' = Last(batch) /\ spc' \in {"polling", "draining"}
      /\ batch' = <<>> /\ atEvent' = 0
      /\ UNCHANGED <<event, sinks, logged, excused, restarts>>
    BY DEF Post
<1>2. /\ batch \in Seq(Ids) /\ logged \in Seq(Ids) /\ posted \in Seq(Ids) /\ lastID \in Nat
      /\ batch # <<>> /\ Ascending(batch) /\ Ascending(logged) /\ Ascending(posted)
      /\ atEvent \in Nat /\ atEvent <= Len(batch)
      /\ \A i \in ToSet(batch) : i > lastID
      /\ \A i \in ToSet(posted) : i <= lastID
    BY <1>1, CursorType DEF StreamInv, StreamTypes, CursorAhead
<1>3. /\ ToSet(batch) \subseteq Ids /\ ToSet(posted) \subseteq Ids /\ ToSet(logged) \subseteq Ids
    BY <1>2, SeqIds
<1>4. /\ Last(batch) \in ToSet(batch) /\ Last(batch) \in Ids /\ Last(batch) > lastID
      /\ \A i \in ToSet(batch) : i <= Last(batch)
    BY <1>2, <1>3, SeqIds, AscendingLast
<1>5. /\ posted' \in Seq(Ids) /\ ToSet(posted') \subseteq ToSet(posted) \cup ToSet(batch)
      /\ Ascending(posted')
    <2>1. CASE posted' = posted
        BY <1>2, <2>1
    <2>2. CASE posted' = posted \o batch
        <3>1. \A x \in ToSet(posted), y \in ToSet(batch) : x < y
            BY <1>2, <1>3
        <3>2. posted \in Seq(Int) /\ batch \in Seq(Int)
            BY <1>2, SeqIds
        <3>3. Ascending(posted \o batch)
            BY <1>2, <3>1, <3>2, AscendingConcat
        <3> QED
            BY <1>2, <2>2, <3>3, ToSetConcat
    <2> QED
        BY <1>1, <2>1, <2>2
<1>6. Visible' = Visible /\ ToSet(batch) \subseteq Visible
    BY <1>1 DEF Visible, StreamInv, DrawnInOrder
<1>7. StreamTypes'
    <2>1. lastID' \in 0..MaxEvents
        BY <1>1, <1>4
    <2> QED
        BY <1>1, <1>5, <2>1, EmptyToSet DEF StreamInv, StreamTypes
<1>8. DrawnInOrder'
    BY <1>1, <1>4, <1>5, <1>6, EmptyToSet DEF StreamInv, DrawnInOrder, Visible
<1>9. \A i \in ToSet(logged) : i <= Last(batch)
    <2>1. atEvent > 0 => batch[atEvent] \in ToSet(batch)
        <3>1. atEvent > 0 => atEvent \in 1..Len(batch)
            BY <1>2
        <3> QED
            BY <1>2, <3>1, ToSetElement
    <2>2. \A i \in ToSet(logged) : i <= lastID \/ (atEvent > 0 /\ i <= batch[atEvent])
        BY <1>1 DEF StreamInv, CursorAhead
    <2> QED
        <3>1. ASSUME NEW i \in ToSet(logged) PROVE i <= Last(batch)
            <4>1. i \in Int /\ Last(batch) \in Int
                BY <1>3, <1>4
            <4>2. CASE i <= lastID
                BY <1>2, <1>4, <4>1, <4>2
            <4>3. CASE atEvent > 0 /\ i <= batch[atEvent]
                <5>1. batch[atEvent] \in Int /\ batch[atEvent] <= Last(batch)
                    BY <1>3, <1>4, <2>1, <4>3
                <5> QED
                    BY <4>1, <4>3, <5>1
            <4> QED
                BY <2>2, <4>2, <4>3
        <3> QED
            BY <3>1
<1>10. \A i \in ToSet(posted') : i <= Last(batch)
    BY <1>2, <1>3, <1>4, <1>5
<1>11. CursorAhead'
    BY <1>1, <1>2, <1>5, <1>9, <1>10, EmptyToSet DEF StreamInv, CursorAhead
<1>12. PassedLogged'
    <2>1. "log" \in sinks => ToSet(batch) \subseteq ToSet(logged)
        <3>1. SUFFICES ASSUME "log" \in sinks, NEW y \in ToSet(batch) PROVE y \in ToSet(logged)
            OBVIOUS
        <3>2. PICK k \in 1..Len(batch) : y = batch[k]
            BY <1>2 DEF ToSet
        <3> QED
            BY <1>1, <3>1, <3>2 DEF StreamInv, PassedLogged
    <2>2. \A i \in Ids : Pending(i)' <=> Pending(i)
        BY <1>1 DEF Pending
    <2>3. ASSUME "log" \in sinks, NEW i \in Ids, i <= Last(batch), Pending(i)
          PROVE  i \in ToSet(logged) \cup excused
        <3>1. CASE i <= lastID
            BY <2>3, <3>1 DEF StreamInv, PassedLogged
        <3>2. CASE i > lastID
            BY <1>1, <2>1, <2>3, <3>2 DEF StreamInv, PassedLogged
        <3> QED
            BY <1>2, <3>1, <3>2
    <2> QED
        BY <1>1, <2>2, <2>3 DEF PassedLogged
<1> QED
    BY <1>7, <1>8, <1>11, <1>12 DEF StreamInv

LEMMA OtherStreamStep ==
    ASSUME StreamInv, StartFails \/ ListFails \/ RestartStream \/ UNCHANGED streamVars
    PROVE  StreamInv'
<1> USE IdsInt
<1>1. event' = event /\ logged' = logged /\ posted' = posted /\ sinks' = sinks /\ excused' = excused
      /\ Visible' = Visible /\ \A i \in Ids : Pending(i)' <=> Pending(i)
    BY DEF StartFails, ListFails, RestartStream, streamVars, Visible, Pending
<1>2. CASE RestartStream
    <2>1. spc' = "starting" /\ lastID' = 0 /\ batch' = <<>> /\ atEvent' = 0
        BY <1>2 DEF RestartStream
    <2>5. lastID' \in 0..MaxEvents
        BY <2>1
    <2>6. batch' \in Seq(Ids) /\ atEvent' \in Nat
        BY <2>1, EmptyToSet
    <2>2. StreamTypes'
        BY <1>1, <2>1, <2>5, <2>6 DEF StreamInv, StreamTypes
    <2>3. DrawnInOrder' /\ CursorAhead'
        BY <1>1, <2>1, EmptyToSet DEF StreamInv, DrawnInOrder, CursorAhead
    <2>4. PassedLogged'
        BY <1>1, <2>1 DEF PassedLogged
    <2> QED
        BY <2>2, <2>3, <2>4 DEF StreamInv
<1>3. CASE StartFails \/ ListFails
    BY <1>1, <1>3 DEF StartFails, ListFails, StreamInv, StreamTypes, DrawnInOrder, CursorAhead, PassedLogged
<1>4. CASE UNCHANGED streamVars
    BY <1>1, <1>4 DEF streamVars, StreamInv, StreamTypes, DrawnInOrder, CursorAhead, PassedLogged
<1> QED
    BY <1>2, <1>3, <1>4

LEMMA StreamInvFaithful == StreamInv => StreamFaithful
BY DEF StreamInv, CursorAhead, PassedLogged, Pending, StreamFaithful, Visible

(* No event is emitted twice or out of order by any number of runs of the  *)
(* replica, and what the cursor of Run passed was logged unless nobody     *)
(* could see it then (drain, emit over ListAuditEventsAfter), for any      *)
(* number of events and any batch size.                                    *)
THEOREM StreamAlwaysFaithful == StreamSpec => []StreamFaithful
<1>1. StreamInv /\ [StreamNext]_streamVars => StreamInv'
    BY EventStep, StartStep, ListStep, LogEventStep, PostStep, OtherStreamStep DEF StreamNext
<1> QED
    BY <1>1, InitStreamInv, StreamInvFaithful, PTL DEF StreamSpec

-----------------------------------------------------------------------------
(* The session trail.                                                      *)

LoginStates == [pc : {"away", "asked", "opening", "open", "closed", "refused"},
                user : LocalUsers \cup {""}, cert : Nat,
                reported : Nat, started : Nat, serial : Nat, from : Nat,
                stale : BOOLEAN, clear : BOOLEAN]

Reports == [serial : Serials, at : Nat, number : Nat]

Posts == [login : Logins, ask : Nat, serial : Serials]

(* The types of the variables that attribution reads.                      *)
AuthTypes ==
    /\ ttime \in Nat
    /\ login \in [Logins -> LoginStates]
    /\ asks \in Nat
    /\ underway \in SUBSET Posts
    /\ recent \in [LocalUsers -> SUBSET Reports]
    /\ heard \in Nat
    /\ shown \in [LocalUsers -> SUBSET Serials]
    /\ begun \in Nat

Waiting(l) == login[l].pc \in {"asked", "opening"}

(* A login that has not begun has nothing, one whose session has not       *)
(* begun has no serial.                                                    *)
Vacant == \A l \in Logins :
    /\ login[l].pc = "away" => ~login[l].clear
    /\ login[l].pc # "away" => login[l].user \in LocalUsers
    /\ login[l].pc \in {"away", "asked", "opening"} => login[l].serial = 0 /\ login[l].from = 0

(* A report on its way is of a certificate shown for the login's account.  *)
PostsOwn == \A p \in underway :
    /\ login[p.login].pc # "away"
    /\ p.serial \in shown[login[p.login].user]

(* A waiting report is of a certificate shown for the account, and no      *)
(* session has taken it.                                                   *)
ReportsOwn == \A u \in LocalUsers : \A a \in recent[u] :
    /\ a.number < heard
    /\ a.serial \in shown[u]
    /\ \A k \in Logins : login[k].from # a.number + 1

(* Reports are told apart by their number.                                 *)
ReportsDistinct == \A u, v \in LocalUsers : \A a \in recent[u], b \in recent[v] :
    a.number = b.number => a = b /\ u = v

(* A report a session has taken is one that came in, of a certificate      *)
(* shown for the account, in its window, and taken by one session only.    *)
SerialsOwn == \A l \in Logins : login[l].from # 0 =>
    /\ login[l].from <= heard
    /\ login[l].serial \in shown[login[l].user]
    /\ ~login[l].stale
    /\ \A k \in Logins : login[k].from = login[l].from => k = l

(* The report of an undisturbed login is the newest of its account.        *)
ClearIsNewest == \A l \in Logins : login[l].clear /\ Waiting(l) =>
    \E a \in recent[login[l].user] :
        /\ a.serial = login[l].cert /\ a.at = login[l].reported
        /\ \A b \in recent[login[l].user] : b.number <= a.number

ClearCarries == \A l \in Logins :
    login[l].clear /\ login[l].pc \in {"open", "closed"} => login[l].serial = login[l].cert

(* The inductive invariant of attribution.                                 *)
AuthInv == /\ AuthTypes /\ Vacant /\ PostsOwn /\ ReportsOwn /\ ReportsDistinct
           /\ SerialsOwn /\ ClearIsNewest /\ ClearCarries

(* A login that a step leaves alone, or at most disturbs.                  *)
Passive(k) ==
    /\ login'[k].pc = login[k].pc /\ login'[k].user = login[k].user
    /\ login'[k].cert = login[k].cert /\ login'[k].reported = login[k].reported
    /\ login'[k].started = login[k].started /\ login'[k].serial = login[k].serial
    /\ login'[k].from = login[k].from /\ login'[k].stale = login[k].stale
    /\ login'[k].clear => login[k].clear

(* Disturb changes nothing but clear, and leaves no other waiting login of *)
(* the account clear.                                                      *)
LEMMA DisturbFields ==
    ASSUME AuthTypes, NEW u, NEW l, NEW k \in Logins
    PROVE  LET d == Disturb(u, l)
           IN /\ d \in [Logins -> LoginStates]
              /\ d[k].pc = login[k].pc /\ d[k].user = login[k].user
              /\ d[k].cert = login[k].cert /\ d[k].reported = login[k].reported
              /\ d[k].started = login[k].started /\ d[k].serial = login[k].serial
              /\ d[k].from = login[k].from /\ d[k].stale = login[k].stale
              /\ d[k].clear => login[k].clear
              /\ d[k].clear /\ k # l /\ Waiting(k) => login[k].user # u
              /\ k = l => d[k] = login[k]
<1> DEFINE d == Disturb(u, l)
<1>1. \A j \in Logins : login[j] \in LoginStates
    BY DEF AuthTypes
<1>2. \A j \in Logins : [login[j] EXCEPT !.clear = FALSE] \in LoginStates
    BY <1>1 DEF LoginStates
<1>3. d \in [Logins -> LoginStates]
    BY <1>1, <1>2 DEF Disturb
<1>4. d[k] = IF k # l /\ login[k].user = u /\ login[k].pc \in {"asked", "opening"}
             THEN [login[k] EXCEPT !.clear = FALSE] ELSE login[k]
    BY DEF Disturb
<1>5. LET e == [login[k] EXCEPT !.clear = FALSE]
      IN /\ e.pc = login[k].pc /\ e.user = login[k].user
         /\ e.cert = login[k].cert /\ e.reported = login[k].reported
         /\ e.started = login[k].started /\ e.serial = login[k].serial
         /\ e.from = login[k].from /\ e.stale = login[k].stale /\ e.clear = FALSE
    BY <1>1 DEF LoginStates
<1> HIDE DEF d
<1> QED
    BY <1>3, <1>4, <1>5 DEF Waiting, d

LEMMA AuthInit == TrailInit => AuthInv
<1> SUFFICES ASSUME TrailInit PROVE AuthInv
    OBVIOUS
<1>1. NoLogin \in LoginStates
    BY DEF NoLogin, LoginStates
<1>2. AuthTypes
    BY <1>1 DEF TrailInit, AuthTypes
<1>3. \A l \in Logins : /\ login[l].pc = "away" /\ login[l].from = 0
                          /\ login[l].serial = 0 /\ login[l].clear = FALSE
    BY DEF TrailInit, NoLogin
<1>4. underway = {} /\ \A u \in LocalUsers : recent[u] = {}
    BY DEF TrailInit
<1>5. Vacant /\ SerialsOwn /\ ClearIsNewest /\ ClearCarries
    BY <1>3 DEF Vacant, SerialsOwn, ClearIsNewest, ClearCarries
<1>6. PostsOwn /\ ReportsOwn /\ ReportsDistinct
    BY <1>4 DEF PostsOwn, ReportsOwn, ReportsDistinct
<1> QED
    BY <1>2, <1>5, <1>6 DEF AuthInv

(* A step that leaves logins and reports alone.                            *)
LEMMA AuthUnchanged ==
    ASSUME AuthInv, login' = login, UNCHANGED reportVars, begun' = begun, ttime' \in Nat
    PROVE  AuthInv'
<1>1. AuthTypes'
    BY DEF AuthInv, AuthTypes, reportVars
<1> QED
    BY <1>1 DEF AuthInv, Vacant, PostsOwn, ReportsOwn, ReportsDistinct, SerialsOwn,
        ClearIsNewest, ClearCarries, Waiting, reportVars

(* A step that moves one login l on without touching reports or serials,   *)
(* and disturbs others at most; it may show a certificate of l.            *)
LEMMA AuthMove ==
    ASSUME AuthInv, NEW l \in Logins, AuthTypes',
           \A k \in Logins \ {l} : Passive(k),
           login'[l].pc # "away",
           \A u \in LocalUsers : recent'[u] \subseteq recent[u],
           heard' = heard,
           \A u \in LocalUsers : shown[u] \subseteq shown'[u],
           \A p \in underway' : p \in underway \/
              (p.login = l /\ p.serial \in shown'[login'[l].user]),
           login'[l].serial = login[l].serial,
           login'[l].from = login[l].from,
           login'[l].stale = login[l].stale,
           login'[l].user \in LocalUsers,
           login[l].pc # "away" => login'[l].user = login[l].user,
           login'[l].pc \in {"asked", "opening"} => login'[l].serial = 0 /\ login'[l].from = 0,
           \A k \in Logins : login'[k].clear /\ Waiting(k)' =>
              /\ login[k].clear /\ Waiting(k) /\ login'[k].reported = login[k].reported
              /\ login'[k].cert = login[k].cert
              /\ recent'[login[k].user] = recent[login[k].user],
           login'[l].clear => login[l].clear /\ login[l].pc \in {"asked", "opening", "open"},
           login'[l].pc \in {"open", "closed"} /\ login'[l].clear =>
              login[l].pc = "open" /\ login'[l].cert = login[l].cert
    PROVE  AuthInv'
<1>1. \A k \in Logins \ {l} :
         /\ login'[k].pc = login[k].pc /\ login'[k].user = login[k].user
         /\ login'[k].cert = login[k].cert /\ login'[k].from = login[k].from
         /\ login'[k].serial = login[k].serial /\ login'[k].stale = login[k].stale
         /\ login'[k].clear => login[k].clear
    BY DEF Passive
<1>2. \A k \in Logins : login[k].pc # "away" =>
         login'[k].pc # "away" /\ login'[k].user = login[k].user
    BY <1>1
<1>3. \A k \in Logins : /\ login'[k].serial = login[k].serial
                        /\ login'[k].from = login[k].from /\ login'[k].stale = login[k].stale
    BY <1>1
<1>4. Vacant'
    BY <1>1 DEF Vacant, AuthInv
<1>5. PostsOwn'
    <2> SUFFICES ASSUME NEW p \in underway'
                 PROVE  /\ login'[p.login].pc # "away"
                        /\ p.serial \in shown'[login'[p.login].user]
        BY DEF PostsOwn
    <2>1. CASE p \in underway
        <3>1. p.login \in Logins /\ login[p.login].pc # "away"
              /\ p.serial \in shown[login[p.login].user]
            BY <2>1 DEF AuthInv, AuthTypes, Posts, PostsOwn
        <3>2. login[p.login].user \in LocalUsers
            BY <3>1 DEF AuthInv, Vacant
        <3> QED
            BY <1>2, <3>1, <3>2
    <2> QED
        BY <2>1
<1>6. ReportsOwn'
    <2> SUFFICES ASSUME NEW u \in LocalUsers, NEW a \in recent'[u]
                 PROVE  /\ a.number < heard
                        /\ a.serial \in shown'[u]
                        /\ \A k \in Logins : login'[k].from # a.number + 1
        BY DEF ReportsOwn
    <2>1. a \in recent[u]
        OBVIOUS
    <2> QED
        BY <1>3, <2>1 DEF AuthInv, ReportsOwn
<1>7. ReportsDistinct'
    BY DEF ReportsDistinct, AuthInv
<1>8. SerialsOwn'
    <2> SUFFICES ASSUME NEW k \in Logins, login'[k].from # 0
                 PROVE  /\ login'[k].from <= heard
                        /\ login'[k].serial \in shown'[login'[k].user]
                        /\ ~login'[k].stale
                        /\ \A j \in Logins : login'[j].from = login'[k].from => j = k
        BY DEF SerialsOwn
    <2>1. login[k].from # 0
        BY <1>3
    <2>2. login[k].pc # "away"
        BY <2>1 DEF AuthInv, Vacant
    <2>3. login'[k].user = login[k].user /\ login[k].user \in LocalUsers
        BY <1>2, <2>2 DEF AuthInv, Vacant
    <2> QED
        BY <1>3, <2>1, <2>3 DEF AuthInv, SerialsOwn
<1>9. ClearIsNewest'
    <2> SUFFICES ASSUME NEW k \in Logins, login'[k].clear, Waiting(k)'
                 PROVE  \E a \in recent'[login'[k].user] :
                            /\ a.serial = login'[k].cert /\ a.at = login'[k].reported
                            /\ \A b \in recent'[login'[k].user] : b.number <= a.number
        BY DEF ClearIsNewest, Waiting
    <2>1. /\ login[k].clear /\ Waiting(k) /\ login'[k].reported = login[k].reported
          /\ login'[k].cert = login[k].cert
          /\ recent'[login[k].user] = recent[login[k].user]
        OBVIOUS
    <2>2. login'[k].user = login[k].user
        BY <1>2, <2>1 DEF Waiting
    <2> QED
        BY <2>1, <2>2 DEF ClearIsNewest, AuthInv
<1>10. ClearCarries'
    BY <1>1, <1>3 DEF ClearCarries, AuthInv
<1> QED
    BY <1>4, <1>5, <1>6, <1>7, <1>8, <1>9, <1>10 DEF AuthInv

LEMMA AuthAsk ==
    ASSUME AuthInv, NEW l \in Logins, NEW u \in LocalUsers, NEW s \in Serials \cup {0},
           Ask(l, u, s)
    PROVE  AuthInv'
<1> DEFINE p == [login |-> l, ask |-> asks, serial |-> s]
<1>0. s \in Nat /\ asks \in Nat
    BY TrailAssumption DEF AuthInv, AuthTypes
<1>1. login[l] \in LoginStates /\ login[l].pc \in {"away", "asked"}
      /\ (login[l].pc # "away" => login[l].user = u)
    BY DEF AuthInv, AuthTypes, Ask
<1>2. login'[l] = [login[l] EXCEPT !.pc = "asked", !.user = u, !.cert = s,
                                   !.clear = login[l].clear /\ login[l].cert = s]
    BY DEF AuthInv, AuthTypes, Ask
<1>3. /\ login'[l] \in LoginStates
      /\ login'[l].pc = "asked" /\ login'[l].user = u
      /\ login'[l].reported = login[l].reported /\ login'[l].from = login[l].from
      /\ login'[l].serial = login[l].serial /\ login'[l].stale = login[l].stale
      /\ login'[l].clear => login[l].clear /\ login'[l].cert = login[l].cert
    <2> DEFINE x == login[l].clear /\ login[l].cert = s
    <2>1. ASSUME NEW y \in BOOLEAN
          PROVE  LET e == [login[l] EXCEPT !.pc = "asked", !.user = u, !.cert = s, !.clear = y]
                 IN /\ e \in LoginStates /\ e.pc = "asked" /\ e.user = u /\ e.cert = s
                    /\ e.reported = login[l].reported /\ e.serial = login[l].serial
                    /\ e.from = login[l].from /\ e.stale = login[l].stale /\ e.clear = y
        BY ONLY <1>0, <1>1, u \in LocalUsers, y \in BOOLEAN DEF LoginStates
    <2>2. x \in BOOLEAN /\ (x => login[l].clear /\ login[l].cert = s)
        BY <1>1 DEF LoginStates
    <2> HIDE DEF x
    <2>3. login'[l] = [login[l] EXCEPT !.pc = "asked", !.user = u, !.cert = s, !.clear = x]
        BY ONLY <1>2, Zenon DEF x
    <2>4. LET e == [login[l] EXCEPT !.pc = "asked", !.user = u, !.cert = s, !.clear = x]
          IN /\ e \in LoginStates /\ e.pc = "asked" /\ e.user = u /\ e.cert = s
             /\ e.reported = login[l].reported /\ e.serial = login[l].serial
             /\ e.from = login[l].from /\ e.stale = login[l].stale /\ e.clear = x
        BY ONLY <2>1, <2>2, Zenon
    <2> QED
        BY ONLY <2>2, <2>3, <2>4, Zenon
<1>4. \A k \in Logins \ {l} : login'[k] = login[k]
    BY DEF AuthInv, AuthTypes, Ask
<1>5. /\ login[l].serial = 0 /\ login[l].from = 0
      /\ login[l].pc = "away" => ~login[l].clear
    BY <1>1 DEF AuthInv, Vacant
<1>6. /\ shown' \in [LocalUsers -> SUBSET Serials]
      /\ \A v \in LocalUsers : shown[v] \subseteq shown'[v]
      /\ s # 0 => s \in shown'[u]
    BY DEF AuthInv, AuthTypes, Ask
<1>7. p.login = l /\ p.serial = s /\ (s # 0 => p \in Posts)
    BY <1>0 DEF Posts
<1>8. underway' \subseteq underway \cup (IF s = 0 THEN {} ELSE {p})
    BY DEF Ask
<1> HIDE DEF p
<1>9. underway' \in SUBSET Posts
    BY <1>7, <1>8 DEF AuthInv, AuthTypes
<1>10. \A q \in underway' : q \in underway \/
              (q.login = l /\ q.serial \in shown'[login'[l].user])
    BY <1>3, <1>6, <1>7, <1>8
<1>11. recent' = recent /\ heard' = heard
    BY DEF Ask
<1>12. AuthTypes'
    <2>1. login' \in [Logins -> LoginStates]
        BY <1>3, <1>4 DEF AuthInv, AuthTypes, Ask
    <2> QED
        BY <1>0, <1>6, <1>9, <2>1 DEF AuthInv, AuthTypes, Ask
<1>13. \A k \in Logins \ {l} : Passive(k)
    BY <1>4 DEF Passive
<1>14. \A k \in Logins : login'[k].clear /\ Waiting(k)' =>
              /\ login[k].clear /\ Waiting(k) /\ login'[k].reported = login[k].reported
              /\ login'[k].cert = login[k].cert
              /\ recent'[login[k].user] = recent[login[k].user]
    BY <1>1, <1>3, <1>4, <1>5, <1>11 DEF Waiting
<1> QED
    BY <1>1, <1>3, <1>5, <1>6, <1>10, <1>11, <1>12, <1>13, <1>14, AuthMove

LEMMA AuthRefused ==
    ASSUME AuthInv, NEW l \in Logins, LoginRefused(l)
    PROVE  AuthInv'
<1>1. login[l] \in LoginStates /\ login[l].pc = "asked"
    BY DEF AuthInv, AuthTypes, LoginRefused
<1>2. login'[l] = [login[l] EXCEPT !.pc = "refused"]
    BY DEF AuthInv, AuthTypes, LoginRefused
<1>3. /\ login'[l] \in LoginStates
      /\ login'[l].pc = "refused" /\ login'[l].user = login[l].user
      /\ login'[l].from = login[l].from
      /\ login'[l].serial = login[l].serial /\ login'[l].stale = login[l].stale
      /\ login'[l].clear = login[l].clear
    BY <1>1, <1>2 DEF LoginStates
<1>4. \A k \in Logins \ {l} : login'[k] = login[k]
    BY DEF AuthInv, AuthTypes, LoginRefused
<1>5. login[l].user \in LocalUsers
    BY <1>1 DEF AuthInv, Vacant
<1>6. AuthTypes'
    BY <1>3, <1>4 DEF AuthInv, AuthTypes, LoginRefused, reportVars
<1>7. \A k \in Logins \ {l} : Passive(k)
    BY <1>4 DEF Passive
<1>8. recent' = recent /\ heard' = heard /\ underway' = underway /\ shown' = shown
    BY DEF LoginRefused, reportVars
<1>9. \A k \in Logins : login'[k].clear /\ Waiting(k)' =>
              /\ login[k].clear /\ Waiting(k) /\ login'[k].reported = login[k].reported
              /\ login'[k].cert = login[k].cert
              /\ recent'[login[k].user] = recent[login[k].user]
    BY <1>3, <1>4, <1>8 DEF Waiting
<1> QED
    BY <1>1, <1>3, <1>5, <1>6, <1>7, <1>8, <1>9, AuthMove

LEMMA AuthPamOpen ==
    ASSUME AuthInv, NEW l \in Logins, PamOpen(l)
    PROVE  AuthInv'
<1>1. login[l] \in LoginStates /\ login[l].pc = "asked" /\ begun' \in Nat
    BY DEF AuthInv, AuthTypes, PamOpen
<1>2. login'[l] = [login[l] EXCEPT !.pc = "opening", !.started = begun']
    BY DEF AuthInv, AuthTypes, PamOpen
<1>3. /\ login'[l] \in LoginStates
      /\ login'[l].pc = "opening" /\ login'[l].user = login[l].user
      /\ login'[l].cert = login[l].cert /\ login'[l].reported = login[l].reported
      /\ login'[l].serial = login[l].serial /\ login'[l].from = login[l].from
      /\ login'[l].stale = login[l].stale /\ login'[l].clear = login[l].clear
    BY <1>1, <1>2 DEF LoginStates
<1>4. \A k \in Logins \ {l} : login'[k] = login[k]
    BY DEF AuthInv, AuthTypes, PamOpen
<1>5. login[l].user \in LocalUsers /\ login[l].serial = 0 /\ login[l].from = 0
    BY <1>1 DEF AuthInv, Vacant
<1>6. AuthTypes'
    BY <1>1, <1>3, <1>4 DEF AuthInv, AuthTypes, PamOpen, reportVars
<1>7. \A k \in Logins \ {l} : Passive(k)
    BY <1>4 DEF Passive
<1>8. recent' = recent /\ heard' = heard /\ underway' = underway /\ shown' = shown
    BY DEF PamOpen, reportVars
<1>9. \A k \in Logins : login'[k].clear /\ Waiting(k)' =>
              /\ login[k].clear /\ Waiting(k) /\ login'[k].reported = login[k].reported
              /\ login'[k].cert = login[k].cert
              /\ recent'[login[k].user] = recent[login[k].user]
    BY <1>1, <1>3, <1>4, <1>8 DEF Waiting
<1> QED
    BY <1>1, <1>3, <1>5, <1>6, <1>7, <1>8, <1>9, AuthMove

(* The fields of a login whose session ends.                               *)
LEMMA EndFields ==
    ASSUME NEW r \in LoginStates
    PROVE  LET e == [r EXCEPT !.pc = "closed"]
           IN /\ e \in LoginStates /\ e.pc = "closed" /\ e.user = r.user
              /\ e.cert = r.cert /\ e.started = r.started
              /\ e.serial = r.serial /\ e.from = r.from
              /\ e.stale = r.stale /\ e.clear = r.clear
    BY DEF LoginStates

(* The fields of a login whose session begins without its event.           *)
LEMMA BeginLostFields ==
    ASSUME NEW r \in LoginStates
    PROVE  LET e == [r EXCEPT !.pc = "open", !.clear = FALSE]
           IN /\ e \in LoginStates /\ e.pc = "open" /\ e.user = r.user
              /\ e.started = r.started /\ e.serial = r.serial /\ e.from = r.from
              /\ e.stale = r.stale /\ e.clear = FALSE
    BY DEF LoginStates

(* A session that ends, with its event or without.                         *)
LEMMA AuthEnd ==
    ASSUME AuthInv, NEW l \in Logins, login[l].pc = "open",
           login' = [login EXCEPT ![l].pc = "closed"],
           UNCHANGED <<ttime, reportVars, begun>>
    PROVE  AuthInv'
<1>1. login[l] \in LoginStates
    BY DEF AuthInv, AuthTypes
<1>2. login'[l] = [login[l] EXCEPT !.pc = "closed"]
    BY DEF AuthInv, AuthTypes
<1>3. /\ login'[l] \in LoginStates
      /\ login'[l].pc = "closed" /\ login'[l].user = login[l].user
      /\ login'[l].cert = login[l].cert /\ login'[l].from = login[l].from
      /\ login'[l].serial = login[l].serial /\ login'[l].stale = login[l].stale
      /\ login'[l].clear = login[l].clear
    BY ONLY <1>1, <1>2, EndFields
<1>4. \A k \in Logins \ {l} : login'[k] = login[k]
    BY DEF AuthInv, AuthTypes
<1>5. login[l].user \in LocalUsers
    BY DEF AuthInv, Vacant
<1>6. AuthTypes'
    BY <1>3, <1>4 DEF AuthInv, AuthTypes, reportVars
<1>7. \A k \in Logins \ {l} : Passive(k)
    BY <1>4 DEF Passive
<1>8. recent' = recent /\ heard' = heard /\ underway' = underway /\ shown' = shown
    BY DEF reportVars
<1>9. \A k \in Logins : login'[k].clear /\ Waiting(k)' =>
              /\ login[k].clear /\ Waiting(k) /\ login'[k].reported = login[k].reported
              /\ login'[k].cert = login[k].cert
              /\ recent'[login[k].user] = recent[login[k].user]
    BY <1>3, <1>4, <1>8 DEF Waiting
<1> QED
    BY <1>3, <1>5, <1>6, <1>7, <1>8, <1>9, AuthMove

(* A session that begins without its event.                                *)
LEMMA AuthBeginLost ==
    ASSUME AuthInv, NEW l \in Logins, login[l].pc = "opening",
           recent' \in {recent, Taken(login[l].user)},
           login' = [Disturb(login[l].user, l) EXCEPT ![l] =
                         [@ EXCEPT !.pc = "open", !.clear = FALSE]],
           UNCHANGED <<ttime, asks, underway, heard, shown, begun>>
    PROVE  AuthInv'
<1> DEFINE u == login[l].user
           d == Disturb(u, l)
<1>0. AuthTypes
    BY DEF AuthInv
<1>1. login[l] \in LoginStates /\ u \in LocalUsers
    BY DEF AuthInv, AuthTypes, Vacant
<1>2. d \in [Logins -> LoginStates] /\ d[l] = login[l]
    BY <1>0, DisturbFields
<1>d. login' = [d EXCEPT ![l] = [d[l] EXCEPT !.pc = "open", !.clear = FALSE]]
    OBVIOUS
<1>3. login'[l] = [login[l] EXCEPT !.pc = "open", !.clear = FALSE]
    <2> HIDE DEF d
    <2> QED
        BY ONLY <1>2, <1>d, l \in Logins
<1>4. /\ login'[l] \in LoginStates
      /\ login'[l].pc = "open" /\ login'[l].user = login[l].user
      /\ login'[l].from = login[l].from
      /\ login'[l].serial = login[l].serial /\ login'[l].stale = login[l].stale
      /\ login'[l].clear = FALSE
    BY ONLY <1>1, <1>3, BeginLostFields
<1>5. \A k \in Logins \ {l} : login'[k] = d[k]
    <2> HIDE DEF d
    <2> QED
        BY ONLY <1>2, <1>d, l \in Logins
<1>6. login' \in [Logins -> LoginStates]
    <2>2. [d[l] EXCEPT !.pc = "open", !.clear = FALSE] \in LoginStates
        BY <1>2, <1>3, <1>4
    <2> HIDE DEF d
    <2> QED
        BY ONLY <1>2, <1>d, <2>2, l \in Logins
<1>7. \A k \in Logins \ {l} : Passive(k)
    <2> SUFFICES ASSUME NEW k \in Logins \ {l} PROVE Passive(k)
        OBVIOUS
    <2>1. login'[k] = d[k]
        BY <1>5
    <2> QED
        BY <1>0, <2>1, DisturbFields DEF Passive
<1>8. recent' \in [LocalUsers -> SUBSET Reports] /\ \A v \in LocalUsers :
         recent'[v] \subseteq recent[v] /\ (v # u => recent'[v] = recent[v])
    BY <1>0 DEF AuthTypes, Taken
<1>9. AuthTypes'
    BY <1>0, <1>6, <1>8 DEF AuthTypes
<1>10. \A k \in Logins : login'[k].clear /\ Waiting(k)' =>
              /\ login[k].clear /\ Waiting(k) /\ login'[k].reported = login[k].reported
              /\ login'[k].cert = login[k].cert
              /\ recent'[login[k].user] = recent[login[k].user]
    <2> SUFFICES ASSUME NEW k \in Logins, login'[k].clear, Waiting(k)'
                 PROVE  /\ login[k].clear /\ Waiting(k) /\ login'[k].reported = login[k].reported
                        /\ login'[k].cert = login[k].cert
                        /\ recent'[login[k].user] = recent[login[k].user]
        OBVIOUS
    <2>1. k # l /\ login'[k] = d[k]
        BY <1>4, <1>5
    <2>2. /\ d[k].pc = login[k].pc /\ d[k].reported = login[k].reported
          /\ d[k].cert = login[k].cert
          /\ d[k].clear => login[k].clear
          /\ d[k].clear /\ k # l /\ Waiting(k) => login[k].user # u
        BY <1>0, DisturbFields
    <2>3. Waiting(k) /\ login[k].clear /\ login[k].user # u
        BY <2>1, <2>2 DEF Waiting
    <2>4. login[k].user \in LocalUsers
        BY <2>3 DEF AuthInv, Vacant, Waiting
    <2> QED
        BY <1>8, <2>1, <2>2, <2>3, <2>4
<1> HIDE DEF u, d
<1>11. login[l].serial = 0
    BY DEF AuthInv, Vacant
<1> QED
    BY <1>1, <1>4, <1>7, <1>8, <1>9, <1>10, <1>11, AuthMove DEF u

LEMMA AuthRestart ==
    ASSUME AuthInv, AgentRestarts
    PROVE  AuthInv'
<1>1. \A k \in Logins : login[k] \in LoginStates
    BY DEF AuthInv, AuthTypes
<1>2. ASSUME NEW k \in Logins
      PROVE  login'[k] \in LoginStates /\ Passive(k) /\ (login'[k].clear => ~Waiting(k)')
    <2>1. login'[k] = IF Waiting(k) THEN [login[k] EXCEPT !.clear = FALSE] ELSE login[k]
        BY DEF AgentRestarts, Waiting
    <2>2. LET e == [login[k] EXCEPT !.clear = FALSE]
          IN /\ e \in LoginStates /\ e.pc = login[k].pc /\ e.user = login[k].user
             /\ e.cert = login[k].cert /\ e.reported = login[k].reported
             /\ e.started = login[k].started /\ e.serial = login[k].serial
             /\ e.from = login[k].from /\ e.stale = login[k].stale /\ e.clear = FALSE
        BY <1>1 DEF LoginStates
    <2> QED
        BY ONLY <1>1, <2>1, <2>2, k \in Logins DEF Passive, Waiting
<1>3. \A u \in LocalUsers : recent'[u] = {}
    BY DEF AgentRestarts
<1>4. AuthTypes'
    BY <1>2 DEF AuthInv, AuthTypes, AgentRestarts
<1>5. ReportsOwn' /\ ReportsDistinct'
    BY <1>3 DEF ReportsOwn, ReportsDistinct
<1>6. \A k \in Logins :
         /\ login'[k].pc = login[k].pc /\ login'[k].user = login[k].user
         /\ login'[k].cert = login[k].cert /\ login'[k].from = login[k].from
         /\ login'[k].serial = login[k].serial /\ login'[k].stale = login[k].stale
         /\ login'[k].clear => login[k].clear
    BY <1>2 DEF Passive
<1>7. shown' = shown /\ underway' = underway /\ heard' = heard
    BY DEF AgentRestarts
<1>8. Vacant' /\ SerialsOwn'
    BY <1>6, <1>7 DEF AuthInv, Vacant, SerialsOwn
<1>9. PostsOwn'
    BY <1>6, <1>7 DEF AuthInv, AuthTypes, Posts, PostsOwn
<1>10. ClearIsNewest'
    BY <1>2 DEF ClearIsNewest, Waiting
<1>11. ClearCarries'
    BY <1>6 DEF AuthInv, ClearCarries
<1> QED
    BY <1>4, <1>5, <1>8, <1>9, <1>10, <1>11 DEF AuthInv

(* recordAuth: nobody has taken the report, and it is the newest.          *)
LEMMA AuthRecord ==
    ASSUME AuthInv, NEW p \in underway, RecordAuth(p)
    PROVE  AuthInv'
<1> DEFINE l == p.login
           u == login[l].user
           d == Disturb(u, l)
           a == [serial |-> p.serial, at |-> ttime, number |-> heard]
           x == (p.serial = login[l].cert)
           F == IF login[l].pc \in {"asked", "opening"}
                THEN [login[l] EXCEPT !.reported = ttime, !.clear = x]
                ELSE login[l]
<1>p. p \in Posts /\ l \in Logins
    BY DEF AuthInv, AuthTypes, Posts
<1>0. AuthTypes /\ login[l] \in LoginStates
    BY <1>p DEF AuthInv, AuthTypes
<1>1. login[l].pc # "away" /\ u \in LocalUsers /\ p.serial \in shown[u]
    BY <1>p DEF AuthInv, PostsOwn, Vacant
<1>2. d \in [Logins -> LoginStates] /\ d[l] = login[l]
    BY <1>0, <1>p, DisturbFields
<1>3. login' = [d EXCEPT ![l] = F]
    BY Zenon DEF RecordAuth
<1>4. /\ F \in LoginStates /\ F.pc = login[l].pc /\ F.user = u /\ F.cert = login[l].cert
      /\ F.serial = login[l].serial /\ F.from = login[l].from /\ F.stale = login[l].stale
      /\ Waiting(l) => F.reported = ttime /\ (F.clear => p.serial = login[l].cert)
      /\ ~Waiting(l) => F.clear = login[l].clear
    <2>1. ttime \in Nat /\ x \in BOOLEAN
        BY <1>0 DEF AuthTypes
    <2>2. LET e == [login[l] EXCEPT !.reported = ttime, !.clear = x]
          IN /\ e \in LoginStates /\ e.pc = login[l].pc /\ e.user = u /\ e.cert = login[l].cert
             /\ e.serial = login[l].serial /\ e.from = login[l].from
             /\ e.stale = login[l].stale /\ e.reported = ttime /\ e.clear = x
        <3>1. ASSUME NEW y \in BOOLEAN
              PROVE  LET e == [login[l] EXCEPT !.reported = ttime, !.clear = y]
                     IN /\ e \in LoginStates /\ e.pc = login[l].pc /\ e.user = u
                        /\ e.cert = login[l].cert /\ e.serial = login[l].serial
                        /\ e.from = login[l].from /\ e.stale = login[l].stale
                        /\ e.reported = ttime /\ e.clear = y
            BY ONLY <1>0, <2>1, y \in BOOLEAN DEF LoginStates
        <3> HIDE DEF x
        <3> QED
            BY ONLY <2>1, <3>1, Zenon
    <2> QED
        BY <1>0, <2>2 DEF Waiting
<1> HIDE DEF d, F
<1>5. login' \in [Logins -> LoginStates] /\ login'[l] = F
      /\ \A k \in Logins \ {l} : login'[k] = d[k]
    BY <1>2, <1>3, <1>4, <1>p
<1>6. \A k \in Logins \ {l} :
         /\ Passive(k)
         /\ login'[k].clear /\ Waiting(k) => login[k].user # u
    <2> SUFFICES ASSUME NEW k \in Logins \ {l}
                 PROVE  Passive(k) /\ (login'[k].clear /\ Waiting(k) => login[k].user # u)
        OBVIOUS
    <2>1. login'[k] = d[k]
        BY <1>5
    <2> QED
        BY <1>0, <2>1, DisturbFields DEF Passive, d
<1>7. \A k \in Logins :
         /\ login'[k].pc = login[k].pc /\ login'[k].user = login[k].user
         /\ login'[k].serial = login[k].serial /\ login'[k].stale = login[k].stale
         /\ login'[k].cert = login[k].cert /\ login'[k].from = login[k].from
    BY <1>4, <1>5, <1>6 DEF Passive
<1>8. shown' = shown /\ underway' = underway \ {p} /\ asks' = asks /\ begun' = begun
      /\ ttime' = ttime
    BY DEF RecordAuth
<1>10. /\ recent' \in [LocalUsers -> SUBSET Reports]
       /\ recent'[u] \subseteq recent[u] \cup {a} /\ a \in recent'[u]
       /\ \A v \in LocalUsers \ {u} : recent'[v] = recent[v]
    <2>1. a \in Reports
        BY <1>0, <1>p DEF AuthTypes, Reports, Posts
    <2>2. recent' = [recent EXCEPT ![u] = {b \in recent[u] : Fresh(b)} \cup {a}]
        BY DEF RecordAuth
    <2> HIDE DEF a
    <2> QED
        BY <1>0, <1>1, <2>1, <2>2 DEF AuthTypes
<1>11. heard' = heard + 1 /\ heard \in Nat
    BY <1>0 DEF AuthTypes, RecordAuth
<1>12. AuthTypes'
    BY <1>0, <1>5, <1>8, <1>10, <1>11 DEF AuthTypes
<1>13. a.serial = p.serial /\ a.number = heard /\ a.at = ttime
    OBVIOUS
<1> HIDE DEF a, u, l
<1>14. \A k \in Logins : login[k].from # heard + 1
    <2> SUFFICES ASSUME NEW k \in Logins, login[k].from = heard + 1 PROVE FALSE
        OBVIOUS
    <2>1. login[k].from # 0
        BY <1>11
    <2>2. login[k].from <= heard
        BY <2>1 DEF AuthInv, SerialsOwn
    <2> QED
        BY <1>11, <2>2
<1>15. Vacant'
    <2>1. \A k \in Logins : login[k].pc = "away" => ~login'[k].clear
        BY <1>1, <1>6 DEF AuthInv, Vacant, Passive
    <2>2. \A k \in Logins :
             /\ login'[k].pc # "away" => login'[k].user \in LocalUsers
             /\ login'[k].pc \in {"away", "asked", "opening"} =>
                  login'[k].serial = 0 /\ login'[k].from = 0
        BY <1>7 DEF AuthInv, Vacant
    <2> QED
        BY <1>7, <2>1, <2>2 DEF Vacant
<1>16. PostsOwn'
    <2> SUFFICES ASSUME NEW q \in underway
                 PROVE  /\ login'[q.login].pc # "away"
                        /\ q.serial \in shown[login'[q.login].user]
        BY <1>8 DEF PostsOwn
    <2>1. q.login \in Logins
        BY <1>0 DEF AuthTypes, Posts
    <2> QED
        BY <1>7, <2>1 DEF AuthInv, PostsOwn
<1>17. ReportsOwn'
    <2> SUFFICES ASSUME NEW v \in LocalUsers, NEW b \in recent'[v]
                 PROVE  /\ b.number < heard'
                        /\ b.serial \in shown[v]
                        /\ \A k \in Logins : login'[k].from # b.number + 1
        BY <1>8 DEF ReportsOwn
    <2>1. CASE v = u /\ b = a
        BY <1>1, <1>7, <1>11, <1>13, <1>14, <2>1
    <2>2. CASE b \in recent[v]
        <3>1. /\ b.number < heard /\ b.serial \in shown[v]
              /\ \A k \in Logins : login[k].from # b.number + 1
            BY <2>2 DEF AuthInv, ReportsOwn
        <3>2. b.number \in Nat
            BY <1>0, <2>2 DEF AuthTypes, Reports
        <3> QED
            BY <1>7, <1>11, <3>1, <3>2
    <2> QED
        BY <1>10, <2>1, <2>2
<1>18. ReportsDistinct'
    <2> SUFFICES ASSUME NEW v \in LocalUsers, NEW w \in LocalUsers,
                        NEW b \in recent'[v], NEW c \in recent'[w], b.number = c.number
                 PROVE  b = c /\ v = w
        BY DEF ReportsDistinct
    <2>1. ASSUME NEW z \in LocalUsers, NEW e \in recent[z] PROVE e.number # heard
        <3>1. e.number < heard
            BY <2>1 DEF AuthInv, ReportsOwn
        <3>2. e.number \in Nat
            BY <1>0, <2>1 DEF AuthTypes, Reports
        <3> QED
            BY <1>11, <3>1, <3>2
    <2>2. b \in recent[v] /\ c \in recent[w] => b = c /\ v = w
        BY DEF AuthInv, ReportsDistinct
    <2>3. /\ b \in recent[v] \/ (b = a /\ v = u)
          /\ c \in recent[w] \/ (c = a /\ w = u)
        BY <1>10
    <2> QED
        BY <1>13, <2>1, <2>2, <2>3
<1>19. SerialsOwn'
    <2> SUFFICES ASSUME NEW k \in Logins, login[k].from # 0
                 PROVE  /\ login[k].from <= heard'
                        /\ login[k].serial \in shown[login[k].user]
                        /\ ~login[k].stale
                        /\ \A j \in Logins : login[j].from = login[k].from => j = k
        BY <1>7, <1>8 DEF SerialsOwn
    <2>1. /\ login[k].from <= heard
          /\ login[k].serial \in shown[login[k].user]
          /\ ~login[k].stale
          /\ \A j \in Logins : login[j].from = login[k].from => j = k
        BY DEF AuthInv, SerialsOwn
    <2>2. login[k].from \in Nat
        BY <1>0 DEF AuthTypes, LoginStates
    <2> QED
        BY <1>11, <2>1, <2>2
<1>20. ClearIsNewest'
    <2> SUFFICES ASSUME NEW k \in Logins, login'[k].clear, Waiting(k)'
                 PROVE  \E b \in recent'[login'[k].user] :
                            /\ b.serial = login'[k].cert /\ b.at = login'[k].reported
                            /\ \A c \in recent'[login'[k].user] : c.number <= b.number
        BY DEF ClearIsNewest, Waiting
    <2>0. Waiting(k)
        BY <1>7 DEF Waiting
    <2>1. CASE k = l
        <3>1. \A c \in recent'[u] : c.number <= a.number
            <4>1. \A c \in recent[u] : c.number < heard /\ c.number \in Nat
                BY <1>0, <1>1 DEF AuthInv, ReportsOwn, AuthTypes, Reports
            <4> QED
                BY <1>10, <1>11, <1>13, <4>1
        <3>2. login'[k].user = u /\ login'[k].reported = ttime /\ login'[k].cert = p.serial
            BY <1>4, <1>5, <2>0, <2>1
        <3> QED
            BY <1>10, <1>13, <3>1, <3>2
    <2>2. CASE k # l
        <3>1. login[k].user # u /\ login[k].clear /\ login'[k].user = login[k].user
              /\ login'[k].reported = login[k].reported /\ login'[k].cert = login[k].cert
            BY <1>6, <2>0, <2>2 DEF Passive
        <3>2. login[k].user \in LocalUsers
            BY <2>0 DEF AuthInv, Vacant, Waiting
        <3>3. recent'[login[k].user] = recent[login[k].user]
            BY <1>10, <3>1, <3>2
        <3> QED
            BY <2>0, <3>1, <3>3 DEF AuthInv, ClearIsNewest
    <2> QED
        BY <2>1, <2>2
<1>21. ClearCarries'
    <2> SUFFICES ASSUME NEW k \in Logins, login'[k].clear, login'[k].pc \in {"open", "closed"}
                 PROVE  login'[k].serial = login'[k].cert
        BY DEF ClearCarries
    <2>1. login[k].clear
        BY <1>4, <1>5, <1>6, <1>7 DEF Passive, Waiting
    <2> QED
        BY <1>7, <2>1 DEF AuthInv, ClearCarries
<1> QED
    BY <1>12, <1>15, <1>16, <1>17, <1>18, <1>19, <1>20, <1>21 DEF AuthInv

(* takeSerial takes at most one report.                                    *)
LEMMA NewestIsOne ==
    ASSUME AuthInv, NEW u \in LocalUsers,
           NEW a \in NewestFresh(recent[u]), NEW b \in NewestFresh(recent[u])
    PROVE  a = b
<1>1. a \in recent[u] /\ b \in recent[u] /\ a.number <= b.number /\ b.number <= a.number
    BY DEF NewestFresh
<1>2. a.number \in Nat /\ b.number \in Nat
    BY <1>1 DEF AuthInv, AuthTypes, Reports
<1>3. a.number = b.number
    BY <1>1, <1>2
<1> QED
    BY <1>1, <1>3 DEF AuthInv, ReportsDistinct

(* handleSessionEvent for the open: the serial goes from the report to the *)
(* session, and it is the login's own when the login was undisturbed.      *)
LEMMA AuthOpened ==
    ASSUME AuthInv, NEW l \in Logins, SessionOpened(l)
    PROVE  AuthInv'
<1> DEFINE u == login[l].user
           d == Disturb(u, l)
           rec == NewestFresh(recent[u])
           n == IF rec = {} THEN 0 ELSE (CHOOSE a \in rec : TRUE).serial
           m == IF rec = {} THEN 0 ELSE (CHOOSE a \in rec : TRUE).number + 1
           st == \E a \in rec : ttime - a.at >= AuthWindow
           c == login[l].clear /\ ttime - login[l].reported < AuthWindow
           F == [login[l] EXCEPT !.pc = "open", !.serial = n, !.from = m, !.stale = st,
                                 !.clear = c, !.reported = 0]
<1>0. AuthTypes /\ login[l] \in LoginStates
    BY DEF AuthInv, AuthTypes
<1>1. login[l].pc = "opening" /\ u \in LocalUsers
    BY DEF SessionOpened, AuthInv, Vacant
<1>2. d \in [Logins -> LoginStates] /\ d[l] = login[l]
    BY <1>0, DisturbFields
<1>3. login' = [d EXCEPT ![l] = F]
    <2>1. login' = [d EXCEPT ![l] =
              [d[l] EXCEPT !.pc = "open", !.serial = n, !.from = m, !.stale = st,
                 !.clear = c, !.reported = 0]]
        BY Zenon DEF SessionOpened
    <2> HIDE DEF d, n, m, st, c
    <2> QED
        BY <1>2, <2>1
<1>4. rec \subseteq recent[u] /\ \A a \in rec : a \in Reports /\ Fresh(a)
    BY <1>0, <1>1 DEF AuthTypes, NewestFresh
<1>5. \A a \in rec : n = a.serial /\ m = a.number + 1 /\ rec = {a}
    <2>1. \A a, b \in rec : a = b
        BY <1>1, NewestIsOne
    <2> HIDE DEF rec
    <2> QED
        BY <2>1
<1>6. rec = {} => n = 0 /\ m = 0
    OBVIOUS
<1>7. n \in Nat /\ m \in Nat
    <2>1. \A a \in rec : a.serial \in Nat /\ a.number \in Nat
        BY <1>4, TrailAssumption DEF Reports
    <2> HIDE DEF rec, n, m
    <2> QED
        BY <1>5, <1>6, <2>1
<1>8. st = FALSE
    <2>1. \A a \in rec : ttime - a.at < AuthWindow /\ a.at \in Nat
        BY <1>4 DEF Fresh, Reports
    <2>2. AuthWindow \in Nat /\ ttime \in Nat
        BY <1>0, TrailAssumption DEF AuthTypes
    <2> HIDE DEF rec
    <2> QED
        BY <2>1, <2>2
<1>9. c \in BOOLEAN
    BY <1>0 DEF LoginStates
<1>10. /\ F \in LoginStates /\ F.pc = "open" /\ F.user = u /\ F.cert = login[l].cert
       /\ F.serial = n /\ F.from = m /\ F.stale = FALSE /\ F.clear = c
    <2> HIDE DEF n, m, st, c
    <2>1. F = [login[l] EXCEPT !.pc = "open", !.serial = n, !.from = m, !.stale = FALSE,
                               !.clear = c, !.reported = 0]
        BY <1>8
    <2>2. ASSUME NEW x \in BOOLEAN
          PROVE  LET e == [login[l] EXCEPT !.pc = "open", !.serial = n, !.from = m,
                                           !.stale = FALSE, !.clear = x, !.reported = 0]
                 IN /\ e \in LoginStates /\ e.pc = "open" /\ e.user = u
                    /\ e.cert = login[l].cert /\ e.serial = n /\ e.from = m
                    /\ e.stale = FALSE /\ e.clear = x
        BY ONLY <1>0, <1>7, x \in BOOLEAN DEF LoginStates
    <2> HIDE DEF F
    <2> QED
        BY ONLY <1>9, <2>1, <2>2, Zenon
<1>11. c => n = login[l].cert
    <2> SUFFICES ASSUME c PROVE n = login[l].cert
        OBVIOUS
    <2>1. PICK a \in recent[u] :
             /\ a.serial = login[l].cert /\ a.at = login[l].reported
             /\ \A b \in recent[u] : b.number <= a.number
        BY <1>1 DEF AuthInv, ClearIsNewest, Waiting
    <2>2. a \in rec
        BY <2>1 DEF NewestFresh, Fresh
    <2> HIDE DEF n, m, rec
    <2> QED
        BY <1>5, <2>1, <2>2
<1> HIDE DEF d, F, n, m, st, c
<1>12. login' \in [Logins -> LoginStates] /\ login'[l] = F
       /\ \A k \in Logins \ {l} : login'[k] = d[k]
    BY <1>2, <1>3, <1>10
<1>13. \A k \in Logins \ {l} :
         /\ Passive(k)
         /\ login'[k].clear /\ Waiting(k) => login[k].user # u
    <2> SUFFICES ASSUME NEW k \in Logins \ {l}
                 PROVE  Passive(k) /\ (login'[k].clear /\ Waiting(k) => login[k].user # u)
        OBVIOUS
    <2>1. login'[k] = d[k]
        BY <1>12
    <2> QED
        BY <1>0, <2>1, DisturbFields DEF Passive, d
<1>14. \A k \in Logins \ {l} :
         /\ login'[k].pc = login[k].pc /\ login'[k].user = login[k].user
         /\ login'[k].serial = login[k].serial /\ login'[k].stale = login[k].stale
         /\ login'[k].cert = login[k].cert /\ login'[k].reported = login[k].reported
         /\ login'[k].from = login[k].from
         /\ login'[k].clear => login[k].clear
    BY <1>13 DEF Passive
<1>15. \A k \in Logins : login'[k].user = login[k].user
          /\ (login[k].pc # "away" => login'[k].pc # "away")
    BY <1>10, <1>12, <1>14
<1>16. /\ recent' \in [LocalUsers -> SUBSET Reports]
       /\ recent'[u] = recent[u] \ rec
       /\ \A v \in LocalUsers \ {u} : recent'[v] = recent[v]
    <2>2. recent' = [recent EXCEPT ![u] = recent[u] \ rec]
        BY DEF SessionOpened, Taken
    <2> HIDE DEF rec
    <2> QED
        BY <1>0, <1>1, <2>2 DEF AuthTypes
<1>s. UNCHANGED <<ttime, asks, underway, heard, shown, begun>>
    BY DEF SessionOpened
<1>17. AuthTypes'
    BY <1>0, <1>12, <1>16, <1>s DEF AuthTypes
<1> HIDE DEF rec, u
<1>t. \A v \in LocalUsers : recent'[v] \subseteq recent[v]
    BY <1>16
<1>18. Vacant'
    <2>1. login'[l].pc = "open" /\ login'[l].user \in LocalUsers
        BY <1>1, <1>10, <1>12
    <2> QED
        BY <1>14, <2>1 DEF AuthInv, Vacant
<1>p. PostsOwn'
    <2> SUFFICES ASSUME NEW q \in underway
                 PROVE  /\ login'[q.login].pc # "away"
                        /\ q.serial \in shown[login'[q.login].user]
        BY <1>s DEF PostsOwn
    <2>1. q.login \in Logins
        BY <1>0 DEF AuthTypes, Posts
    <2> QED
        BY <1>15, <2>1 DEF AuthInv, PostsOwn
<1>a. ASSUME NEW a \in rec
      PROVE  /\ a \in recent[u] /\ a.number \in Nat /\ m = a.number + 1 /\ n = a.serial
             /\ n \in shown[u] /\ m <= heard /\ \A j \in Logins : login[j].from # m
    <2>1. a \in recent[u] /\ a.number \in Nat /\ m = a.number + 1 /\ n = a.serial
        BY <1>4, <1>5, <1>a DEF Reports
    <2>2. /\ a.number < heard /\ a.serial \in shown[u]
          /\ \A j \in Logins : login[j].from # a.number + 1
        BY <1>1, <2>1 DEF AuthInv, ReportsOwn
    <2>3. heard \in Nat
        BY <1>0 DEF AuthTypes
    <2> QED
        BY <2>1, <2>2, <2>3
<1>19. ReportsOwn'
    <2> SUFFICES ASSUME NEW v \in LocalUsers, NEW b \in recent'[v]
                 PROVE  /\ b.number < heard
                        /\ b.serial \in shown[v]
                        /\ \A k \in Logins : login'[k].from # b.number + 1
        BY <1>s DEF ReportsOwn
    <2>1. b \in recent[v] /\ b.number \in Nat
        BY <1>0, <1>t DEF AuthTypes, Reports
    <2>2. /\ b.number < heard /\ b.serial \in shown[v]
          /\ \A k \in Logins : login[k].from # b.number + 1
        BY <2>1 DEF AuthInv, ReportsOwn
    <2>4. m # b.number + 1
        <3>1. CASE rec = {}
            BY <1>6, <2>1, <3>1
        <3>2. ASSUME NEW a \in rec PROVE m # b.number + 1
            <4>1. a \in recent[u] /\ a.number \in Nat /\ m = a.number + 1
                BY <1>a, <3>2
            <4>2. a.number # b.number
                <5> SUFFICES ASSUME a.number = b.number PROVE FALSE
                    OBVIOUS
                <5>1. a = b /\ u = v
                    BY <1>1, <2>1, <4>1 DEF AuthInv, ReportsDistinct
                <5> QED
                    BY <1>16, <3>2, <5>1
            <4> QED
                BY <2>1, <4>1, <4>2
        <3> QED
            BY <3>1, <3>2
    <2>5. \A k \in Logins : login'[k].from # b.number + 1
        BY <1>10, <1>12, <1>14, <2>2, <2>4
    <2> QED
        BY <2>2, <2>5
<1>20. ReportsDistinct'
    BY <1>t DEF AuthInv, ReportsDistinct
<1>21. SerialsOwn'
    <2> SUFFICES ASSUME NEW k \in Logins, login'[k].from # 0
                 PROVE  /\ login'[k].from <= heard
                        /\ login'[k].serial \in shown[login'[k].user]
                        /\ ~login'[k].stale
                        /\ \A j \in Logins : login'[j].from = login'[k].from => j = k
        BY <1>s DEF SerialsOwn
    <2>1. ASSUME m # 0
          PROVE  n \in shown[u] /\ m <= heard /\ \A j \in Logins : login[j].from # m
        <3>1. PICK a \in rec : TRUE
            BY <1>6, <2>1
        <3> QED
            BY <1>a, <3>1
    <2>2. CASE k = l
        <3>1. /\ login'[k].from = m /\ login'[k].serial = n /\ m # 0
              /\ login'[k].user = u /\ ~login'[k].stale
            BY <1>10, <1>12, <2>2
        <3>2. \A j \in Logins : login'[j].from = m => j = k
            BY <1>14, <2>1, <2>2, <3>1
        <3> QED
            BY <2>1, <3>1, <3>2
    <2>3. CASE k # l
        <3>1. /\ login'[k].from = login[k].from /\ login'[k].stale = login[k].stale
              /\ login'[k].serial = login[k].serial /\ login'[k].user = login[k].user
            BY <1>14, <2>3
        <3>2. /\ login[k].from <= heard /\ login[k].serial \in shown[login[k].user]
              /\ ~login[k].stale
              /\ \A j \in Logins : login[j].from = login[k].from => j = k
            BY <3>1 DEF AuthInv, SerialsOwn
        <3>3. m # login[k].from
            BY <2>1, <3>1
        <3>4. \A j \in Logins : login'[j].from = login[k].from => j = k
            BY <1>10, <1>12, <1>14, <3>2, <3>3
        <3> QED
            BY <3>1, <3>2, <3>4
    <2> QED
        BY <2>2, <2>3
<1>22. ClearIsNewest'
    <2> SUFFICES ASSUME NEW k \in Logins, login'[k].clear, Waiting(k)'
                 PROVE  \E b \in recent'[login'[k].user] :
                            /\ b.serial = login'[k].cert /\ b.at = login'[k].reported
                            /\ \A e \in recent'[login'[k].user] : e.number <= b.number
        BY DEF ClearIsNewest, Waiting
    <2>1. k # l
        BY <1>10, <1>12 DEF Waiting
    <2>2. Waiting(k)
        BY <1>14, <2>1 DEF Waiting
    <2>3. login[k].user # u /\ login[k].clear /\ login'[k].user = login[k].user
          /\ login'[k].reported = login[k].reported /\ login'[k].cert = login[k].cert
        BY <1>13, <1>14, <2>1, <2>2
    <2>4. login[k].user \in LocalUsers
        BY <2>2 DEF AuthInv, Vacant, Waiting
    <2>5. recent'[login[k].user] = recent[login[k].user]
        BY <1>16, <2>3, <2>4
    <2> QED
        BY <2>2, <2>3, <2>5 DEF AuthInv, ClearIsNewest
<1>23. ClearCarries'
    BY <1>10, <1>11, <1>12, <1>14 DEF AuthInv, ClearCarries
<1> QED
    BY <1>17, <1>18, <1>p, <1>19, <1>20, <1>21, <1>22, <1>23 DEF AuthInv

(* Every step keeps the invariant.                                         *)
LEMMA AuthNext == AuthInv /\ [TrailNext]_trailVars => AuthInv'
<1> SUFFICES ASSUME AuthInv, [TrailNext]_trailVars PROVE AuthInv'
    OBVIOUS
<1>0. ttime \in Nat
    BY DEF AuthInv, AuthTypes
<1>1. CASE TrailTick
    BY <1>0, <1>1, AuthUnchanged DEF TrailTick
<1>2. CASE AgentRestarts
    BY <1>2, AuthRestart
<1>3. ASSUME NEW l \in Logins, NEW u \in LocalUsers, NEW s \in Serials \cup {0}, Ask(l, u, s)
      PROVE  AuthInv'
    BY <1>3, AuthAsk
<1>r. ASSUME NEW p \in underway, RecordAuth(p)
      PROVE  AuthInv'
    BY <1>r, AuthRecord
<1>4. ASSUME NEW l \in Logins, LoginRefused(l) \/ PamOpen(l) \/ SessionOpened(l)
      PROVE  AuthInv'
    BY <1>4, AuthRefused, AuthPamOpen, AuthOpened
<1>5. ASSUME NEW l \in Logins, SessionClosed(l)
      PROVE  AuthInv'
    BY <1>5, AuthEnd DEF SessionClosed
<1>6. ASSUME NEW l \in Logins, EventLost(l)
      PROVE  AuthInv'
    BY <1>6, AuthEnd, AuthBeginLost DEF EventLost, reportVars
<1>7. CASE UNCHANGED trailVars
    BY <1>0, <1>7, AuthUnchanged DEF trailVars
<1>8. CASE \/ \E n \in (acked + 1)..Len(wire) : SendBatch(n)
           \/ IngestEvent \/ DiscardEvent \/ BatchAnswered \/ AnswerLost
    BY <1>0, <1>8, AuthUnchanged
       DEF SendBatch, IngestEvent, DiscardEvent, BatchAnswered, AnswerLost
<1> QED
    BY <1>1, <1>2, <1>3, <1>r, <1>4, <1>5, <1>6, <1>7, <1>8 DEF TrailNext

(* takeSerial and recordAuth attribute certificates correctly: no session  *)
(* ever carries a certificate that was not shown for its account or whose  *)
(* report is past its window, no report is given to two sessions, and an   *)
(* undisturbed login carries its own certificate, for any number of        *)
(* logins, of runs of the helper for each, of certificates shared between  *)
(* logins, of faults and for any window.                                   *)
THEOREM SerialsAlwaysAttributed == TrailSpec => []SerialAttribution
<1>1. AuthInv => SerialAttribution
    BY DEF AuthInv, SerialsOwn, ClearCarries, SerialAttribution
<1> QED
    BY <1>1, AuthInit, AuthNext, PTL DEF TrailSpec

-----------------------------------------------------------------------------
(* The rows of host_sessions.                                              *)

TrailEvents == [phase : {"open", "close"}, user : LocalUsers, started : Nat, login : Logins]

SessionRows == [user : LocalUsers, started : Nat, ended : BOOLEAN]

(* The types of the uplink and the order of its marks.                     *)
UplinkTypes ==
    /\ wire \in Seq(TrailEvents) /\ rows \in Seq(SessionRows) /\ lossy \in BOOLEAN
    /\ acked \in Nat /\ done \in Nat /\ sent \in Nat
    /\ acked <= done /\ done <= sent /\ sent <= Len(wire)

(* An event is that of a login that has got so far.                        *)
WireOwn == \A k \in 1..Len(wire) :
    /\ wire[k].user = login[wire[k].login].user
    /\ wire[k].phase = "open" => login[wire[k].login].pc \in {"open", "closed"}
    /\ wire[k].phase = "close" => login[wire[k].login].pc = "closed"

(* The agent spools an event once.                                         *)
WireOnce == \A j, k \in 1..Len(wire) :
    wire[j].login = wire[k].login /\ wire[j].phase = wire[k].phase => j = k

(* No session started later than the last that began.                      *)
StartedBefore ==
    /\ \A l \in Logins : login[l].started <= begun
    /\ \A k \in 1..Len(wire) : wire[k].started <= begun
    /\ \A i \in 1..Len(rows) : rows[i].started <= begun

(* The events of a login that agentSessions has not been through.          *)
Unsaved(l, phase) ==
    {k \in (done + 1)..Len(wire) : wire[k].login = l /\ wire[k].phase = phase}

(* An open event still to come is followed by its close, if the session    *)
(* has ended.                                                              *)
OpenThenClose == ~lossy => \A l \in Logins : login[l].pc = "closed" =>
    \A j \in Unsaved(l, "open") : \E k \in Unsaved(l, "close") : j < k

(* The sessions of an account as far as the server has heard of them.      *)
KnownLive(u) ==
    {l \in Logins : /\ login[l].user = u /\ login[l].pc \in {"open", "closed"}
                    /\ Unsaved(l, "open") = {}
                    /\ login[l].pc = "closed" => Unsaved(l, "close") # {}}

ActiveRows(u) == {i \in 1..Len(rows) : rows[i].user = u /\ ~rows[i].ended}

LiveCounted == ~lossy => \A u \in LocalUsers :
    Cardinality(ActiveRows(u)) = Cardinality(KnownLive(u))

(* The inductive invariant of the rows.                                    *)
RowsInv == /\ AuthInv /\ UplinkTypes /\ WireOwn /\ WireOnce /\ StartedBefore
           /\ OpenThenClose /\ LiveCounted

(* The sets counted are finite.                                            *)
LEMMA CountedFinite ==
    ASSUME UplinkTypes, NEW u
    PROVE  IsFiniteSet(ActiveRows(u)) /\ IsFiniteSet(KnownLive(u))
<1>1. IsFiniteSet(1..Len(rows)) /\ IsFiniteSet(Logins)
    BY FS_Interval, TrailAssumption DEF Logins, UplinkTypes
<1>2. ActiveRows(u) \in SUBSET (1..Len(rows)) /\ KnownLive(u) \in SUBSET Logins
    BY DEF ActiveRows, KnownLive
<1> QED
    BY <1>1, <1>2, FS_Subset

(* A bounded set of numbers has a largest.                                 *)
LEMMA LargestExists ==
    ASSUME NEW S \in SUBSET Nat, S # {}, NEW b \in Nat, \A x \in S : x <= b
    PROVE  \E x \in S : \A y \in S : y <= x
<1>1. S \subseteq Int /\ b \in Int
    OBVIOUS
<1>2. Max(S) \in S /\ \A y \in S : Max(S) >= y
    BY <1>1, MaxOfBounded
<1> QED
    BY <1>2

(* The UPDATE of CloseHostSession ends exactly one row, when there is one: *)
(* of two rows that started at the same time only the later one.           *)
LEMMA ClosesOne ==
    ASSUME NEW rs \in Seq(SessionRows), NEW ev \in TrailEvents, NEW b \in Nat,
           \A i \in 1..Len(rs) : rs[i].started <= b,
           Closable(rs, ev) # {}
    PROVE  LET r == CloseHostSession(rs, ev)
           IN /\ r \in Seq(SessionRows) /\ Len(r) = Len(rs)
              /\ \E i \in Closable(rs, ev) : \A j \in 1..Len(rs) :
                    /\ r[j].user = rs[j].user /\ r[j].started = rs[j].started
                    /\ r[j].ended = (rs[j].ended \/ j = i)
<1> DEFINE C == Closable(rs, ev)
           T == {rs[i].started : i \in C}
           Youngest(i) == \A j \in C :
               rs[j].started < rs[i].started \/ (rs[j].started = rs[i].started /\ j <= i)
           r == CloseHostSession(rs, ev)
<1>0. \A i \in 1..Len(rs) : rs[i] \in SessionRows /\ rs[i].started \in Nat
    <2>1. \A i \in 1..Len(rs) : rs[i] \in SessionRows
        BY ONLY rs \in Seq(SessionRows)
    <2> QED
        BY ONLY <2>1 DEF SessionRows
<1>1. C \subseteq 1..Len(rs) /\ Len(rs) \in Nat /\ \A i \in C : rs[i].started \in Nat
    BY <1>0 DEF Closable
<1>2. PICK s \in T : \A t \in T : t <= s
    <2>1. T \in SUBSET Nat /\ T # {} /\ \A t \in T : t <= b
        <3> HIDE DEF C
        <3> QED
            BY <1>1 DEF C
    <2> HIDE DEF T
    <2> QED
        BY <2>1, LargestExists
<1> DEFINE E == {i \in C : rs[i].started = s}
<1>3. PICK i \in E : \A j \in E : j <= i
    <2>1. E \in SUBSET Nat /\ E # {} /\ \A j \in E : j <= Len(rs)
        <3> HIDE DEF C
        <3>1. PICK i \in C : rs[i].started = s
            BY <1>2
        <3>2. E # {}
            BY <3>1
        <3>3. C \subseteq Nat /\ \A j \in C : j <= Len(rs)
            BY ONLY <1>1
        <3>4. E \subseteq C
            OBVIOUS
        <3> HIDE DEF E
        <3> QED
            BY ONLY <3>2, <3>3, <3>4
    <2> HIDE DEF E
    <2> QED
        BY <1>1, <2>1, LargestExists
<1> HIDE DEF C
<1>4. i \in C /\ Youngest(i)
    <2>1. i \in C /\ rs[i].started = s
        BY <1>3
    <2> SUFFICES ASSUME NEW j \in C
                 PROVE  rs[j].started < rs[i].started \/ (rs[j].started = rs[i].started /\ j <= i)
        BY <2>1
    <2>2. rs[j].started <= s
        BY <1>2
    <2>3. rs[j].started = s => j <= i
        BY <1>3
    <2> QED
        BY <1>1, <2>1, <2>2, <2>3
<1>5. \A j \in C : Youngest(j) => j = i
    <2> SUFFICES ASSUME NEW j \in C, Youngest(j) PROVE j = i
        OBVIOUS
    <2>1. /\ rs[j].started < rs[i].started \/ (rs[j].started = rs[i].started /\ j <= i)
          /\ rs[i].started < rs[j].started \/ (rs[j].started = rs[i].started /\ i <= j)
        BY <1>4
    <2> QED
        BY <1>1, <1>4, <2>1
<1>6. r = [j \in 1..Len(rs) |-> IF j \in C /\ Youngest(j)
                                THEN [rs[j] EXCEPT !.ended = TRUE] ELSE rs[j]]
    <2>1. DOMAIN rs = 1..Len(rs)
        OBVIOUS
    <2> QED
        BY <2>1 DEF CloseHostSession, C
<1>7. \A j \in 1..Len(rs) : LET e == [rs[j] EXCEPT !.ended = TRUE]
         IN e \in SessionRows /\ e.user = rs[j].user /\ e.started = rs[j].started /\ e.ended = TRUE
    BY <1>0 DEF SessionRows
<1> HIDE DEF Youngest, r
<1>8. \A j \in 1..Len(rs) : r[j] = IF j = i THEN [rs[j] EXCEPT !.ended = TRUE] ELSE rs[j]
    BY <1>4, <1>5, <1>6
<1>9. r \in [1..Len(rs) -> SessionRows]
    BY <1>0, <1>6, <1>7
<1>10. r \in Seq(SessionRows) /\ Len(r) = Len(rs)
    BY <1>1, <1>9
<1>11. \A j \in 1..Len(rs) :
          /\ r[j].user = rs[j].user /\ r[j].started = rs[j].started
          /\ r[j].ended = (rs[j].ended \/ j = i)
    <2> SUFFICES ASSUME NEW j \in 1..Len(rs)
                 PROVE  /\ r[j].user = rs[j].user /\ r[j].started = rs[j].started
                        /\ r[j].ended = (rs[j].ended \/ j = i)
        OBVIOUS
    <2>1. CASE j = i
        BY <1>7, <1>8, <2>1
    <2>2. CASE j # i
        <3>1. r[j] = rs[j] /\ rs[j].ended \in BOOLEAN
            BY <1>0, <1>8, <2>2 DEF SessionRows
        <3> QED
            BY <2>2, <3>1
    <2> QED
        BY <2>1, <2>2
<1> QED
    BY <1>4, <1>10, <1>11 DEF C, r

(* The events and the rows.                                                *)
LEMMA WireElements ==
    ASSUME UplinkTypes
    PROVE  \A k \in 1..Len(wire) :
              /\ wire[k] \in TrailEvents /\ wire[k].user \in LocalUsers
              /\ wire[k].login \in Logins /\ wire[k].started \in Nat
              /\ wire[k].phase \in {"open", "close"}
<1>1. \A k \in 1..Len(wire) : wire[k] \in TrailEvents
    BY DEF UplinkTypes
<1> QED
    BY ONLY <1>1 DEF TrailEvents

LEMMA RowElements ==
    ASSUME UplinkTypes
    PROVE  \A i \in 1..Len(rows) : rows[i] \in SessionRows /\ rows[i].started \in Nat
                                  /\ rows[i].user \in LocalUsers /\ rows[i].ended \in BOOLEAN
<1>1. \A i \in 1..Len(rows) : rows[i] \in SessionRows
    BY DEF UplinkTypes
<1> QED
    BY ONLY <1>1 DEF SessionRows

LEMMA RowsInit == TrailInit => RowsInv
<1> SUFFICES ASSUME TrailInit PROVE RowsInv
    OBVIOUS
<1>1. AuthInv
    BY AuthInit
<1>2. wire = <<>> /\ rows = <<>> /\ acked = 0 /\ sent = 0 /\ done = 0 /\ begun = 0 /\ lossy = FALSE
    BY DEF TrailInit
<1>a. <<>> \in Seq(TrailEvents) /\ <<>> \in Seq(SessionRows) /\ Len(<<>>) = 0
    OBVIOUS
<1>b. Len(wire) = 0 /\ Len(rows) = 0
    BY <1>2
<1>3. UplinkTypes /\ WireOwn /\ WireOnce
    <2>1. UplinkTypes
        <3>1. wire \in Seq(TrailEvents) /\ rows \in Seq(SessionRows) /\ lossy \in BOOLEAN
            BY <1>2, <1>a, Zenon
        <3>2. /\ acked \in Nat /\ done \in Nat /\ sent \in Nat
              /\ acked <= done /\ done <= sent /\ sent <= Len(wire)
            BY <1>2, <1>b
        <3> QED
            BY <3>1, <3>2 DEF UplinkTypes
    <2> QED
        BY <1>b, <2>1 DEF WireOwn, WireOnce
<1>4. \A l \in Logins : login[l].pc = "away" /\ login[l].started = 0
    BY DEF TrailInit, NoLogin
<1>5. StartedBefore
    BY <1>2, <1>b, <1>4 DEF StartedBefore
<1>6. OpenThenClose
    BY <1>4 DEF OpenThenClose
<1>7. \A u : ActiveRows(u) = {} /\ KnownLive(u) = {}
    BY <1>2, <1>b, <1>4 DEF ActiveRows, KnownLive
<1>8. LiveCounted
    BY <1>7 DEF LiveCounted
<1> QED
    BY <1>1, <1>3, <1>5, <1>6, <1>8 DEF RowsInv

(* A step before the session begins: nothing is spooled or ingested, and   *)
(* no login gets to a session or out of one.                               *)
LEMMA RowsQuiet ==
    ASSUME RowsInv, AuthInv', UNCHANGED uplinkVars, lossy' = lossy,
           begun' >= begun,
           \A l \in Logins :
              /\ login[l].pc \in {"open", "closed"} \/ login'[l].pc \in {"open", "closed"} =>
                    login'[l].pc = login[l].pc /\ login'[l].user = login[l].user
              /\ login'[l].started <= begun'
    PROVE  RowsInv'
<1>0. begun \in Nat /\ begun' \in Nat
    BY DEF RowsInv, AuthInv, AuthTypes
<1>1. UplinkTypes'
    BY DEF RowsInv, UplinkTypes, uplinkVars
<1>w. \A k \in 1..Len(wire) : wire[k].login \in Logins /\ wire[k].started \in Nat
                             /\ wire[k].phase \in {"open", "close"}
    BY WireElements DEF RowsInv
<1>r. \A i \in 1..Len(rows) : rows[i].started \in Nat
    BY RowElements DEF RowsInv
<1>2. WireOwn'
    BY <1>w DEF RowsInv, WireOwn, uplinkVars
<1>3. WireOnce'
    BY DEF RowsInv, WireOnce, uplinkVars
<1>4. StartedBefore'
    BY <1>0, <1>w, <1>r DEF RowsInv, StartedBefore, uplinkVars
<1>5. \A l, phase : Unsaved(l, phase)' = Unsaved(l, phase)
    BY DEF Unsaved, uplinkVars
<1>6. OpenThenClose'
    BY <1>5 DEF RowsInv, OpenThenClose
<1>7. \A u : KnownLive(u)' = KnownLive(u) /\ ActiveRows(u)' = ActiveRows(u)
    BY <1>5 DEF KnownLive, ActiveRows, uplinkVars
<1>8. LiveCounted'
    BY <1>7 DEF RowsInv, LiveCounted
<1> QED
    BY <1>1, <1>2, <1>3, <1>4, <1>6, <1>8 DEF RowsInv

(* The event of a login that goes on to its session, or ends it.           *)
LEMMA RowsSpool ==
    ASSUME RowsInv, AuthInv', NEW l \in Logins, NEW phase \in {"open", "close"},
           Spool(l, phase), lossy' = lossy, begun' = begun,
           login[l].user \in LocalUsers,
           login'[l].user = login[l].user, login'[l].started = login[l].started,
           phase = "open" => login[l].pc = "opening" /\ login'[l].pc = "open",
           phase = "close" => login[l].pc = "open" /\ login'[l].pc = "closed",
           \A k \in Logins \ {l} : /\ login'[k].pc = login[k].pc
                                    /\ login'[k].user = login[k].user
                                    /\ login'[k].started = login[k].started
    PROVE  RowsInv'
<1> DEFINE ev == [phase |-> phase, user |-> login[l].user,
                  started |-> login[l].started, login |-> l]
           n == Len(wire)
<1>0. login[l].started \in Nat /\ begun \in Nat /\ n \in Nat /\ done \in Nat /\ done <= n
      /\ wire \in Seq(TrailEvents)
    <2>1. login[l] \in LoginStates /\ begun \in Nat
        BY DEF RowsInv, AuthInv, AuthTypes
    <2>2. login[l].started \in Nat
        BY <2>1 DEF LoginStates
    <2>3. n \in Nat /\ done \in Nat /\ done <= n /\ wire \in Seq(TrailEvents)
        BY DEF RowsInv, UplinkTypes
    <2> QED
        BY <2>1, <2>2, <2>3
<1>1. ev \in TrailEvents /\ ev.phase = phase /\ ev.user = login[l].user
      /\ ev.started = login[l].started /\ ev.login = l
    BY <1>0 DEF TrailEvents
<1>2. wire' = Append(wire, ev) /\ UNCHANGED <<acked, sent, done, rows>>
    BY DEF Spool
<1> HIDE DEF ev
<1>3. /\ wire' \in Seq(TrailEvents) /\ Len(wire') = n + 1 /\ wire'[n + 1] = ev
      /\ \A k \in 1..n : wire'[k] = wire[k]
    BY <1>0, <1>1, <1>2
<1>w. \A k \in 1..n : wire[k].login \in Logins /\ wire[k].started \in Nat
                      /\ wire[k].phase \in {"open", "close"}
    BY WireElements DEF RowsInv
<1> HIDE DEF n
<1>4. UplinkTypes'
    BY <1>0, <1>2, <1>3 DEF RowsInv, UplinkTypes, n
<1>5. \A k \in 1..(n + 1) : k \in 1..n \/ k = n + 1
    BY <1>0
<1>6. WireOwn'
    <2> SUFFICES ASSUME NEW k \in 1..(n + 1)
                 PROVE  /\ wire'[k].user = login'[wire'[k].login].user
                        /\ wire'[k].phase = "open" => login'[wire'[k].login].pc \in {"open", "closed"}
                        /\ wire'[k].phase = "close" => login'[wire'[k].login].pc = "closed"
        BY <1>3 DEF WireOwn
    <2>1. CASE k \in 1..n
        BY <1>3, <1>w, <2>1 DEF RowsInv, WireOwn, n
    <2>2. CASE k = n + 1
        BY <1>1, <1>3, <2>2
    <2> QED
        BY <1>5, <2>1, <2>2
<1>7. \A k \in 1..n : wire[k].login = l => wire[k].phase # phase
    BY <1>w DEF RowsInv, WireOwn, n
<1>8. WireOnce'
    <2> SUFFICES ASSUME NEW j \in 1..(n + 1), NEW k \in 1..(n + 1),
                        wire'[j].login = wire'[k].login, wire'[j].phase = wire'[k].phase
                 PROVE  j = k
        BY <1>3 DEF WireOnce
    <2>1. CASE j \in 1..n /\ k \in 1..n
        BY <1>3, <2>1 DEF RowsInv, WireOnce, n
    <2>2. CASE j \in 1..n /\ k = n + 1
        BY <1>1, <1>3, <1>7, <2>2
    <2>3. CASE j = n + 1 /\ k \in 1..n
        BY <1>1, <1>3, <1>7, <2>3
    <2> QED
        BY <1>5, <2>1, <2>2, <2>3
<1>9. StartedBefore'
    <2>1. \A k \in 1..(n + 1) : wire'[k].started <= begun
        BY <1>1, <1>3, <1>5 DEF RowsInv, StartedBefore, n
    <2> QED
        BY <1>2, <1>3, <2>1 DEF RowsInv, StartedBefore
<1>10. ASSUME NEW k \in Logins, NEW ph, k # l \/ ph # phase
       PROVE  Unsaved(k, ph)' = Unsaved(k, ph)
    <2>1. wire'[n + 1].login # k \/ wire'[n + 1].phase # ph
        BY <1>1, <1>3, <1>10
    <2>2. Unsaved(k, ph) = {j \in (done + 1)..n : wire[j].login = k /\ wire[j].phase = ph}
        BY DEF Unsaved, n
    <2>3. Unsaved(k, ph)' = {j \in (done + 1)..(n + 1) : wire'[j].login = k /\ wire'[j].phase = ph}
        BY <1>2, <1>3 DEF Unsaved
    <2>4. \A j \in (done + 1)..n : j \in (done + 1)..(n + 1) /\ wire'[j] = wire[j]
        BY <1>0, <1>3
    <2>5. \A j \in (done + 1)..(n + 1) : j \in (done + 1)..n \/ j = n + 1
        BY <1>0
    <2> QED
        BY <2>1, <2>2, <2>3, <2>4, <2>5
<1>11. n + 1 \in Unsaved(l, phase)' /\ \A j \in Unsaved(l, phase)' : j <= n + 1
    BY <1>0, <1>1, <1>2, <1>3 DEF Unsaved
<1>12. OpenThenClose'
    <2> SUFFICES ASSUME ~lossy, NEW k \in Logins, login'[k].pc = "closed",
                        NEW j \in Unsaved(k, "open")'
                 PROVE  \E i \in Unsaved(k, "close")' : j < i
        BY DEF OpenThenClose
    <2>1. CASE k # l
        <3>1. j \in Unsaved(k, "open") /\ login[k].pc = "closed"
            BY <1>10, <2>1
        <3>2. \E i \in Unsaved(k, "close") : j < i
            BY <3>1 DEF RowsInv, OpenThenClose
        <3> QED
            BY <1>10, <2>1, <3>2
    <2>2. CASE k = l
        <3>1. phase = "close"
            BY <2>2
        <3>2. j \in Unsaved(l, "open")
            BY <1>10, <2>2, <3>1
        <3>3. j < n + 1
            BY <1>0, <3>2 DEF Unsaved, n
        <3> QED
            BY <1>11, <2>2, <3>1, <3>3
    <2> QED
        BY <2>1, <2>2
<1>13. ASSUME NEW u PROVE KnownLive(u)' = KnownLive(u)
    <2>1. \A k \in Logins \ {l} : k \in KnownLive(u)' <=> k \in KnownLive(u)
        BY <1>10 DEF KnownLive
    <2>2. CASE phase = "open"
        BY <1>11, <2>1, <2>2 DEF KnownLive
    <2>3. CASE phase = "close"
        <3>1. Unsaved(l, "open")' = Unsaved(l, "open") /\ Unsaved(l, "close")' # {}
            BY <1>10, <1>11, <2>3
        <3> QED
            BY <2>1, <2>3, <3>1 DEF KnownLive
    <2> QED
        BY <2>2, <2>3
<1>14. \A u : ActiveRows(u)' = ActiveRows(u)
    BY <1>2 DEF ActiveRows
<1>15. LiveCounted'
    BY <1>13, <1>14 DEF RowsInv, LiveCounted
<1> QED
    BY <1>4, <1>6, <1>8, <1>9, <1>12, <1>15 DEF RowsInv

(* A step of the uplink that stores nothing.                               *)
LEMMA RowsMarks ==
    ASSUME RowsInv, AuthInv', UplinkTypes',
           UNCHANGED <<login, wire, rows, begun, done, lossy>>
    PROVE  RowsInv'
<1>1. WireOwn' /\ WireOnce' /\ StartedBefore'
    BY DEF RowsInv, WireOwn, WireOnce, StartedBefore
<1>2. \A l, phase : Unsaved(l, phase)' = Unsaved(l, phase)
    BY DEF Unsaved
<1>3. OpenThenClose'
    BY <1>2 DEF RowsInv, OpenThenClose
<1>4. \A u : KnownLive(u)' = KnownLive(u) /\ ActiveRows(u)' = ActiveRows(u)
    BY <1>2 DEF KnownLive, ActiveRows
<1> QED
    BY <1>1, <1>3, <1>4 DEF RowsInv, LiveCounted

(* A step that loses an event, or will ingest one twice.                   *)
LEMMA RowsLost ==
    ASSUME RowsInv, AuthInv', UplinkTypes', lossy' = TRUE,
           UNCHANGED <<wire, rows, begun>>,
           \A l \in Logins :
              /\ login'[l].user = login[l].user /\ login'[l].started = login[l].started
              /\ login[l].pc \in {"open", "closed"} => login'[l].pc \in {"open", "closed"}
              /\ login[l].pc = "closed" => login'[l].pc = "closed"
    PROVE  RowsInv'
<1>1. \A k \in 1..Len(wire) : wire[k].login \in Logins
    BY WireElements DEF RowsInv
<1>2. WireOwn'
    BY <1>1 DEF RowsInv, WireOwn
<1>3. WireOnce' /\ StartedBefore'
    BY DEF RowsInv, WireOnce, StartedBefore
<1>4. OpenThenClose' /\ LiveCounted'
    BY DEF OpenThenClose, LiveCounted
<1> QED
    BY <1>2, <1>3, <1>4 DEF RowsInv

(* agentSessions stores an event: what is left of the other logins.        *)
LEMMA UnsavedAfter ==
    ASSUME RowsInv, done < sent, done' = done + 1, wire' = wire,
           NEW l \in Logins, NEW phase
    PROVE  LET ev == wire[done + 1]
           IN /\ done + 1 \in 1..Len(wire)
              /\ l # ev.login \/ phase # ev.phase =>
                    Unsaved(l, phase)' = Unsaved(l, phase)
              /\ l = ev.login /\ phase = ev.phase =>
                    Unsaved(l, phase)' = {} /\ Unsaved(l, phase) = {done + 1}
<1> DEFINE n == Len(wire)
<1>0. done \in Nat /\ n \in Nat /\ done + 1 <= n
    BY DEF RowsInv, UplinkTypes
<1>1. done + 1 \in 1..n
    BY <1>0
<1>2. Unsaved(l, phase) = {k \in (done + 1)..n : wire[k].login = l /\ wire[k].phase = phase}
    BY DEF Unsaved
<1>3. Unsaved(l, phase)' = {k \in (done + 2)..n : wire[k].login = l /\ wire[k].phase = phase}
    BY <1>0 DEF Unsaved
<1> HIDE DEF n
<1>4. \A k \in (done + 1)..n : k \in 1..n /\ (k = done + 1 \/ k \in (done + 2)..n)
    BY <1>0
<1>5. \A k \in (done + 2)..n : k \in (done + 1)..n /\ k \in 1..n /\ k # done + 1
    BY <1>0
<1>6. CASE l # wire[done + 1].login \/ phase # wire[done + 1].phase
    BY <1>1, <1>2, <1>3, <1>4, <1>5, <1>6 DEF n
<1>7. CASE l = wire[done + 1].login /\ phase = wire[done + 1].phase
    <2>1. \A k \in 1..n : wire[k].login = l /\ wire[k].phase = phase => k = done + 1
        BY <1>1, <1>7 DEF RowsInv, WireOnce, n
    <2>2. Unsaved(l, phase)' = {}
        BY <1>3, <1>5, <2>1
    <2>3. done + 1 \in Unsaved(l, phase)
        BY <1>0, <1>2, <1>7
    <2>4. Unsaved(l, phase) = {done + 1}
        BY <1>2, <1>4, <2>1, <2>3
    <2> QED
        BY <1>1, <1>7, <2>2, <2>4 DEF n
<1> QED
    BY <1>6, <1>7

(* It leaves what does not depend on the rows as it was.                   *)
LEMMA IngestFrame ==
    ASSUME RowsInv, AuthInv', IngestEvent,
           rows' \in Seq(SessionRows),
           \A i \in 1..Len(rows') : rows'[i].started <= begun
    PROVE  UplinkTypes' /\ WireOwn' /\ WireOnce' /\ StartedBefore' /\ OpenThenClose'
<1>1. UplinkTypes'
    BY DEF RowsInv, UplinkTypes, IngestEvent
<1>2. WireOwn' /\ WireOnce' /\ StartedBefore'
    BY DEF RowsInv, WireOwn, WireOnce, StartedBefore, IngestEvent
<1>3. OpenThenClose'
    <2> SUFFICES ASSUME ~lossy, NEW l \in Logins, login[l].pc = "closed",
                        NEW j \in Unsaved(l, "open")'
                 PROVE  \E k \in Unsaved(l, "close")' : j < k
        BY DEF OpenThenClose, IngestEvent
    <2>0. done < sent /\ done' = done + 1 /\ wire' = wire /\ done \in Nat /\ j \in Nat
          /\ done + 1 < j
        BY DEF IngestEvent, RowsInv, UplinkTypes, Unsaved
    <2>1. j \in Unsaved(l, "open")
        BY <2>0, UnsavedAfter
    <2>2. PICK k \in Unsaved(l, "close") : j < k
        BY <2>1 DEF RowsInv, OpenThenClose
    <2>3. k # done + 1
        BY <2>0, <2>2
    <2>4. k \in Unsaved(l, "close")'
        BY <2>0, <2>2, <2>3, UnsavedAfter
    <2> QED
        BY <2>2, <2>4
<1> QED
    BY <1>1, <1>2, <1>3

(* OpenHostSession: the login's session becomes known with its row.        *)
LEMMA RowsIngestOpen ==
    ASSUME RowsInv, AuthInv', IngestEvent, wire[done + 1].phase = "open"
    PROVE  RowsInv'
<1> DEFINE ev == wire[done + 1]
           m == Len(rows)
           row == [user |-> ev.user, started |-> ev.started, ended |-> FALSE]
<1>0. done < sent /\ done' = done + 1 /\ UNCHANGED <<login, wire, lossy, begun>>
    BY DEF IngestEvent
<1>1. done + 1 \in 1..Len(wire) /\ rows \in Seq(SessionRows) /\ UplinkTypes
    BY <1>0 DEF RowsInv, UplinkTypes
<1>2. ev.user \in LocalUsers /\ ev.login \in Logins /\ ev.started \in Nat
    BY <1>1, WireElements
<1>l. PICK l \in Logins : l = ev.login
    BY <1>2
<1>3. row \in SessionRows /\ row.user = ev.user /\ row.started = ev.started /\ row.ended = FALSE
    BY <1>2 DEF SessionRows
<1>4. rows' = Append(rows, row)
    BY DEF IngestEvent, IngestSessionEvent, OpenHostSession
<1> HIDE DEF row
<1>5. /\ m \in Nat /\ rows' \in Seq(SessionRows) /\ Len(rows') = m + 1 /\ rows'[m + 1] = row
      /\ \A i \in 1..m : rows'[i] = rows[i]
    BY <1>1, <1>3, <1>4
<1> HIDE DEF m
<1>6. \A i \in 1..(m + 1) : i \in 1..m \/ i = m + 1
    BY <1>5
<1>7. \A i \in 1..Len(rows') : rows'[i].started <= begun
    BY <1>1, <1>3, <1>5, <1>6 DEF RowsInv, StartedBefore, m
<1>8. UplinkTypes' /\ WireOwn' /\ WireOnce' /\ StartedBefore' /\ OpenThenClose'
    BY <1>5, <1>7, IngestFrame
<1> HIDE DEF ev
<1>9. login[l].user = ev.user /\ login[l].pc \in {"open", "closed"}
    BY <1>1, <1>l DEF RowsInv, WireOwn, ev
<1>10. Unsaved(l, "open")' = {} /\ Unsaved(l, "open") = {done + 1}
       /\ Unsaved(l, "close")' = Unsaved(l, "close")
    BY <1>0, <1>2, <1>l, UnsavedAfter DEF ev
<1>11. \A k \in Logins \ {l} : /\ Unsaved(k, "open")' = Unsaved(k, "open")
                              /\ Unsaved(k, "close")' = Unsaved(k, "close")
    BY <1>0, <1>l, UnsavedAfter DEF ev
<1>12. ASSUME ~lossy, NEW u \in LocalUsers
       PROVE  Cardinality(ActiveRows(u))' = Cardinality(KnownLive(u))'
    <2>0. Cardinality(ActiveRows(u)) = Cardinality(KnownLive(u))
        BY <1>12 DEF RowsInv, LiveCounted
    <2>1. IsFiniteSet(ActiveRows(u)) /\ IsFiniteSet(KnownLive(u))
        BY <1>1, CountedFinite
    <2>2. \A k \in Logins \ {l} : k \in KnownLive(u)' <=> k \in KnownLive(u)
        BY <1>0, <1>11 DEF KnownLive
    <2>3. \A i \in 1..m : i \in ActiveRows(u)' <=> i \in ActiveRows(u)
        BY <1>5 DEF ActiveRows, m
    <2>4. ActiveRows(u) \subseteq 1..m /\ ActiveRows(u)' \subseteq 1..(m + 1) /\ m + 1 \notin 1..m
        BY <1>5 DEF ActiveRows, m
    <2>5. KnownLive(u) \subseteq Logins /\ KnownLive(u)' \subseteq Logins
        BY DEF KnownLive
    <2>6. CASE u = ev.user
        <3>1. l \in KnownLive(u)'
            <4>1. login[l].pc = "closed" => Unsaved(l, "close") # {}
                BY <1>2, <1>10, <1>12 DEF RowsInv, OpenThenClose
            <4> QED
                BY <1>0, <1>2, <1>9, <1>10, <2>6, <4>1 DEF KnownLive
        <3>2. l \notin KnownLive(u)
            BY <1>10 DEF KnownLive
        <3>3. KnownLive(u)' = KnownLive(u) \cup {l}
            BY <2>2, <2>5, <3>1
        <3>4. m + 1 \in ActiveRows(u)'
            BY <1>3, <1>5, <2>6 DEF ActiveRows
        <3>5. ActiveRows(u)' = ActiveRows(u) \cup {m + 1}
            BY <1>6, <2>3, <2>4, <3>4
        <3>6. Cardinality(KnownLive(u) \cup {l}) = Cardinality(KnownLive(u)) + 1
            BY <2>1, <3>2, FS_AddElement
        <3>7. Cardinality(ActiveRows(u) \cup {m + 1}) = Cardinality(ActiveRows(u)) + 1
            BY <2>1, <2>4, FS_AddElement
        <3> QED
            BY <2>0, <3>3, <3>5, <3>6, <3>7
    <2>7. CASE u # ev.user
        <3>1. l \notin KnownLive(u)' /\ l \notin KnownLive(u)
            BY <1>0, <1>9, <2>7 DEF KnownLive
        <3>2. KnownLive(u)' = KnownLive(u)
            BY <2>2, <2>5, <3>1
        <3>3. m + 1 \notin ActiveRows(u)'
            BY <1>3, <1>5, <2>7 DEF ActiveRows
        <3>4. ActiveRows(u)' = ActiveRows(u)
            BY <1>6, <2>3, <2>4, <3>3
        <3> QED
            BY <2>0, <3>2, <3>4
    <2> QED
        BY <2>6, <2>7
<1>13. LiveCounted'
    BY <1>0, <1>12 DEF LiveCounted
<1> QED
    BY <1>8, <1>13 DEF RowsInv

(* CloseHostSession: the login's session was known, so there is a row to   *)
(* end, perhaps that of another session of the account.                    *)
LEMMA RowsIngestClose ==
    ASSUME RowsInv, AuthInv', IngestEvent, wire[done + 1].phase = "close"
    PROVE  RowsInv'
<1> DEFINE ev == wire[done + 1]
           r == CloseHostSession(rows, ev)
<1>0. done < sent /\ done' = done + 1 /\ UNCHANGED <<login, wire, lossy, begun>>
    BY DEF IngestEvent
<1>1. done + 1 \in 1..Len(wire) /\ rows \in Seq(SessionRows) /\ UplinkTypes
      /\ done \in Nat /\ begun \in Nat
    BY <1>0 DEF RowsInv, UplinkTypes, AuthInv, AuthTypes
<1>2. ev \in TrailEvents /\ ev.user \in LocalUsers /\ ev.login \in Logins /\ ev.phase = "close"
    BY <1>1, WireElements
<1>l. PICK l \in Logins : l = ev.login
    BY <1>2
<1>4. rows' = r
    BY DEF IngestEvent, IngestSessionEvent
<1>5. Closable(rows, ev) = ActiveRows(ev.user)
    BY <1>1 DEF Closable, ActiveRows
<1>6. \A i \in 1..Len(rows) : rows[i].started <= begun
    BY DEF RowsInv, StartedBefore
<1>7. ASSUME Closable(rows, ev) = {} PROVE r = rows
    <2>1. r = [i \in DOMAIN rows |-> rows[i]]
        BY <1>7 DEF CloseHostSession
    <2> QED
        BY <1>1, <2>1
<1>8. ASSUME Closable(rows, ev) # {}
      PROVE  /\ r \in Seq(SessionRows) /\ Len(r) = Len(rows)
             /\ \E i \in Closable(rows, ev) : \A j \in 1..Len(rows) :
                    /\ r[j].user = rows[j].user /\ r[j].started = rows[j].started
                    /\ r[j].ended = (rows[j].ended \/ j = i)
    BY ONLY <1>1, <1>2, <1>6, <1>8, ClosesOne
<1> HIDE DEF ev, r
<1>9. /\ rows' \in Seq(SessionRows) /\ Len(rows') = Len(rows)
      /\ \A j \in 1..Len(rows) : rows'[j].started = rows[j].started
    BY <1>1, <1>4, <1>7, <1>8
<1>10. \A i \in 1..Len(rows') : rows'[i].started <= begun
    BY <1>6, <1>9
<1>11. UplinkTypes' /\ WireOwn' /\ WireOnce' /\ StartedBefore' /\ OpenThenClose'
    BY <1>9, <1>10, IngestFrame
<1>12. login[l].user = ev.user /\ login[l].pc = "closed"
    BY <1>1, <1>2, <1>l DEF RowsInv, WireOwn, ev
<1>13. Unsaved(l, "close")' = {} /\ Unsaved(l, "close") = {done + 1}
       /\ Unsaved(l, "open")' = Unsaved(l, "open")
    BY <1>0, <1>2, <1>l, UnsavedAfter DEF ev
<1>14. \A k \in Logins \ {l} : /\ Unsaved(k, "open")' = Unsaved(k, "open")
                              /\ Unsaved(k, "close")' = Unsaved(k, "close")
    BY <1>0, <1>l, UnsavedAfter DEF ev
<1>15. ASSUME ~lossy, NEW u \in LocalUsers
       PROVE  Cardinality(ActiveRows(u))' = Cardinality(KnownLive(u))'
    <2>0. Cardinality(ActiveRows(u)) = Cardinality(KnownLive(u))
        BY <1>15 DEF RowsInv, LiveCounted
    <2>1. IsFiniteSet(ActiveRows(u)) /\ IsFiniteSet(KnownLive(u))
        BY <1>1, CountedFinite
    <2>2. \A k \in Logins \ {l} : k \in KnownLive(u)' <=> k \in KnownLive(u)
        BY <1>0, <1>14 DEF KnownLive
    <2>3. KnownLive(u) \subseteq Logins /\ KnownLive(u)' \subseteq Logins
        BY DEF KnownLive
    <2>4. Unsaved(l, "open") = {}
        <3> SUFFICES ASSUME NEW j \in Unsaved(l, "open") PROVE FALSE
            OBVIOUS
        <3>1. \E k \in Unsaved(l, "close") : j < k
            BY <1>2, <1>12, <1>15 DEF RowsInv, OpenThenClose
        <3>2. j < done + 1
            BY <1>13, <3>1
        <3>3. j \in (done + 1)..Len(wire)
            BY DEF Unsaved
        <3> QED
            BY <1>1, <3>2, <3>3
    <2>5. l \in KnownLive(ev.user)
        BY <1>2, <1>12, <1>13, <2>4 DEF KnownLive
    <2>6. l \notin KnownLive(u)'
        BY <1>0, <1>12, <1>13 DEF KnownLive
    <2>7. ActiveRows(ev.user) # {}
        <3>1. IsFiniteSet(ActiveRows(ev.user)) /\ IsFiniteSet(KnownLive(ev.user))
            BY <1>1, CountedFinite
        <3>2. Cardinality(ActiveRows(ev.user)) = Cardinality(KnownLive(ev.user))
            BY <1>2, <1>15 DEF RowsInv, LiveCounted
        <3> QED
            BY <2>5, <3>1, <3>2, FS_EmptySet
    <2>8. PICK i \in ActiveRows(ev.user) : \A j \in 1..Len(rows) :
             rows'[j].user = rows[j].user /\ rows'[j].ended = (rows[j].ended \/ j = i)
        BY <1>4, <1>5, <1>8, <2>7
    <2>9. ActiveRows(u)' = ActiveRows(u) \ {i}
        BY <1>9, <2>8 DEF ActiveRows
    <2>10. KnownLive(u)' = KnownLive(u) \ {l}
        BY <2>2, <2>3, <2>6
    <2>11. CASE u = ev.user
        <3>1. Cardinality(ActiveRows(u) \ {i}) = Cardinality(ActiveRows(u)) - 1
            BY <2>1, <2>8, <2>11, FS_RemoveElement
        <3>2. Cardinality(KnownLive(u) \ {l}) = Cardinality(KnownLive(u)) - 1
            BY <2>1, <2>5, <2>11, FS_RemoveElement
        <3> QED
            BY <2>0, <2>9, <2>10, <3>1, <3>2
    <2>12. CASE u # ev.user
        <3>1. i \notin ActiveRows(u)
            BY <2>8, <2>12 DEF ActiveRows
        <3>2. l \notin KnownLive(u)
            BY <1>12, <2>12 DEF KnownLive
        <3> QED
            BY <2>0, <2>9, <2>10, <3>1, <3>2
    <2> QED
        BY <2>11, <2>12
<1>16. LiveCounted'
    BY <1>0, <1>15 DEF LiveCounted
<1> QED
    BY <1>11, <1>16 DEF RowsInv

(* The steps of a login before its session.                                *)
LEMMA RowsLogin ==
    ASSUME RowsInv, AuthInv', NEW l \in Logins,
           \/ \E u \in LocalUsers, s \in Serials \cup {0} : Ask(l, u, s)
           \/ LoginRefused(l) \/ PamOpen(l)
    PROVE  RowsInv'
<1>0. AuthTypes /\ login[l] \in LoginStates /\ begun \in Nat /\ ttime \in Nat
    BY DEF RowsInv, AuthInv, AuthTypes
<1>1. \A k \in Logins : login[k].started <= begun /\ login[k] \in LoginStates
                         /\ login[k].started \in Nat
    BY DEF RowsInv, StartedBefore, AuthInv, AuthTypes, LoginStates
<1>2. ASSUME NEW u \in LocalUsers, NEW s \in Serials \cup {0}, Ask(l, u, s)
      PROVE  RowsInv'
    <2>1. /\ login[l].pc \in {"away", "asked"}
          /\ login'[l] = [login[l] EXCEPT !.pc = "asked", !.user = u, !.cert = s,
                                         !.clear = login[l].clear /\ login[l].cert = s]
          /\ \A k \in Logins \ {l} : login'[k] = login[k]
        BY <1>0, <1>2 DEF Ask, AuthTypes
    <2>2. login'[l].pc = "asked" /\ login'[l].started = login[l].started
        <3> DEFINE x == login[l].clear /\ login[l].cert = s
        <3>1. ASSUME NEW y
              PROVE  LET e == [login[l] EXCEPT !.pc = "asked", !.user = u, !.cert = s, !.clear = y]
                     IN e.pc = "asked" /\ e.started = login[l].started
            BY ONLY <1>0 DEF LoginStates
        <3> HIDE DEF x
        <3>2. login'[l] = [login[l] EXCEPT !.pc = "asked", !.user = u, !.cert = s, !.clear = x]
            BY ONLY <2>1, Zenon DEF x
        <3> QED
            BY ONLY <3>1, <3>2, Zenon
    <2>3. UNCHANGED uplinkVars /\ lossy' = lossy /\ begun' = begun
        BY <1>2 DEF Ask
    <2>4. login[l].pc \notin {"open", "closed"} /\ \A k \in Logins \ {l} : login'[k] = login[k]
        BY <2>1
    <2>5. \A k \in Logins :
             /\ login[k].pc \in {"open", "closed"} \/ login'[k].pc \in {"open", "closed"} =>
                   login'[k].pc = login[k].pc /\ login'[k].user = login[k].user
             /\ login'[k].started <= begun'
        BY ONLY <1>1, <2>2, <2>3, <2>4, l \in Logins
    <2> QED
        BY <1>0, <2>3, <2>5, RowsQuiet
<1>4. ASSUME LoginRefused(l) PROVE RowsInv'
    <2>1. /\ login[l].pc = "asked" /\ login'[l] = [login[l] EXCEPT !.pc = "refused"]
          /\ \A k \in Logins \ {l} : login'[k] = login[k]
        BY <1>0, <1>4 DEF LoginRefused, AuthTypes
    <2>2. login'[l].pc = "refused" /\ login'[l].started = login[l].started
        BY <1>0, <2>1 DEF LoginStates
    <2>3. UNCHANGED uplinkVars /\ lossy' = lossy /\ begun' = begun
        BY <1>4 DEF LoginRefused
    <2>4. login[l].pc \notin {"open", "closed"} /\ \A k \in Logins \ {l} : login'[k] = login[k]
        BY <2>1
    <2>5. \A k \in Logins :
             /\ login[k].pc \in {"open", "closed"} \/ login'[k].pc \in {"open", "closed"} =>
                   login'[k].pc = login[k].pc /\ login'[k].user = login[k].user
             /\ login'[k].started <= begun'
        BY ONLY <1>1, <2>2, <2>3, <2>4, l \in Logins
    <2> QED
        BY <1>0, <2>3, <2>5, RowsQuiet
<1>5. ASSUME PamOpen(l) PROVE RowsInv'
    <2>1. /\ login[l].pc = "asked"
          /\ login'[l] = [login[l] EXCEPT !.pc = "opening", !.started = begun']
          /\ \A k \in Logins \ {l} : login'[k] = login[k]
        BY <1>0, <1>5 DEF PamOpen, AuthTypes
    <2>2. login'[l].pc = "opening" /\ login'[l].started = begun'
        BY <1>0, <2>1 DEF LoginStates
    <2>3. UNCHANGED uplinkVars /\ lossy' = lossy /\ begun' = begun + 1
        BY <1>5 DEF PamOpen
    <2>4. login[l].pc \notin {"open", "closed"} /\ \A k \in Logins \ {l} : login'[k] = login[k]
        BY <2>1
    <2>5. \A k \in Logins :
             /\ login[k].pc \in {"open", "closed"} \/ login'[k].pc \in {"open", "closed"} =>
                   login'[k].pc = login[k].pc /\ login'[k].user = login[k].user
             /\ login'[k].started <= begun'
        BY ONLY <1>0, <1>1, <2>2, <2>3, <2>4, l \in Logins
    <2> QED
        BY <1>0, <2>3, <2>5, RowsQuiet
<1> QED
    BY <1>2, <1>4, <1>5

(* A report comes in.                                                      *)
LEMMA RowsRecord ==
    ASSUME RowsInv, AuthInv', NEW p \in underway, RecordAuth(p)
    PROVE  RowsInv'
<1> DEFINE l == p.login
           d == Disturb(login[l].user, l)
           x == (p.serial = login[l].cert)
           F == IF login[l].pc \in {"asked", "opening"}
                THEN [login[l] EXCEPT !.reported = ttime, !.clear = x]
                ELSE login[l]
<1>0. AuthTypes /\ l \in Logins /\ login[l] \in LoginStates /\ begun \in Nat /\ ttime \in Nat
    BY DEF RowsInv, AuthInv, AuthTypes, Posts
<1>1. \A k \in Logins : login[k].started <= begun
    BY DEF RowsInv, StartedBefore
<1>2. d \in [Logins -> LoginStates] /\ d[l] = login[l]
      /\ \A k \in Logins : /\ d[k].pc = login[k].pc /\ d[k].user = login[k].user
                            /\ d[k].started = login[k].started
    <2>1. d \in [Logins -> LoginStates] /\ d[l] = login[l]
        BY <1>0, DisturbFields
    <2>2. ASSUME NEW k \in Logins
          PROVE  /\ d[k].pc = login[k].pc /\ d[k].user = login[k].user
                 /\ d[k].started = login[k].started
        BY <1>0, DisturbFields
    <2> QED
        BY <2>1, <2>2
<1>3. login' = [d EXCEPT ![l] = F]
    BY Zenon DEF RecordAuth
<1>4. F.pc = login[l].pc /\ F.user = login[l].user /\ F.started = login[l].started
    <2>1. x \in BOOLEAN
        OBVIOUS
    <2>2. ASSUME NEW y \in BOOLEAN
          PROVE  LET e == [login[l] EXCEPT !.reported = ttime, !.clear = y]
                 IN e.pc = login[l].pc /\ e.user = login[l].user /\ e.started = login[l].started
        BY ONLY <1>0, y \in BOOLEAN DEF LoginStates
    <2> HIDE DEF x
    <2>3. LET e == [login[l] EXCEPT !.reported = ttime, !.clear = x]
          IN e.pc = login[l].pc /\ e.user = login[l].user /\ e.started = login[l].started
        BY ONLY <2>1, <2>2, Zenon
    <2> QED
        BY <2>3
<1> HIDE DEF d, F, l
<1>5. \A k \in Logins : /\ login'[k].pc = login[k].pc /\ login'[k].user = login[k].user
                        /\ login'[k].started = login[k].started
    BY <1>0, <1>2, <1>3, <1>4
<1>6. UNCHANGED uplinkVars /\ lossy' = lossy /\ begun' = begun
    BY DEF RecordAuth
<1> QED
    BY <1>0, <1>1, <1>5, <1>6, RowsQuiet

(* A session begins or ends, with its event or without.                    *)
LEMMA RowsSession ==
    ASSUME RowsInv, AuthInv', NEW l \in Logins,
           SessionOpened(l) \/ SessionClosed(l) \/ EventLost(l)
    PROVE  RowsInv'
<1> DEFINE d == Disturb(login[l].user, l)
<1>0. AuthTypes /\ login[l] \in LoginStates /\ UplinkTypes
    BY DEF RowsInv, AuthInv, AuthTypes
<1>1. login[l].pc \in {"opening", "open"} /\ login[l].user \in LocalUsers
    BY DEF RowsInv, AuthInv, Vacant, SessionOpened, SessionClosed, EventLost
<1>2. d \in [Logins -> LoginStates] /\ d[l] = login[l]
      /\ \A k \in Logins : /\ d[k].pc = login[k].pc /\ d[k].user = login[k].user
                            /\ d[k].started = login[k].started
    <2>1. d \in [Logins -> LoginStates] /\ d[l] = login[l]
        BY <1>0, DisturbFields
    <2>2. ASSUME NEW k \in Logins
          PROVE  /\ d[k].pc = login[k].pc /\ d[k].user = login[k].user
                 /\ d[k].started = login[k].started
        BY <1>0, DisturbFields
    <2> QED
        BY <2>1, <2>2
<1>3. ASSUME SessionOpened(l) PROVE RowsInv'
    <2> DEFINE rec == NewestFresh(recent[login[l].user])
               n == IF rec = {} THEN 0 ELSE (CHOOSE a \in rec : TRUE).serial
               m == IF rec = {} THEN 0 ELSE (CHOOSE a \in rec : TRUE).number + 1
               st == \E a \in rec : ttime - a.at >= AuthWindow
               c == login[l].clear /\ ttime - login[l].reported < AuthWindow
    <2>1. login' = [d EXCEPT ![l] =
             [d[l] EXCEPT !.pc = "open", !.serial = n, !.from = m, !.stale = st,
                !.clear = c, !.reported = 0]]
        BY <1>3, Zenon DEF SessionOpened
    <2> HIDE DEF d, n, m, st, c
    <2>2. /\ login'[l] = [login[l] EXCEPT !.pc = "open", !.serial = n, !.from = m,
                                          !.stale = st, !.clear = c, !.reported = 0]
          /\ \A k \in Logins \ {l} : login'[k] = d[k]
        BY <1>2, <2>1
    <2>3. login'[l].pc = "open" /\ login'[l].user = login[l].user
          /\ login'[l].started = login[l].started
        BY <1>0, <2>2 DEF LoginStates
    <2>4. login[l].pc = "opening" /\ Spool(l, "open") /\ lossy' = lossy /\ begun' = begun
        BY <1>3 DEF SessionOpened
    <2>5. \A k \in Logins \ {l} : /\ login'[k].pc = login[k].pc
                                 /\ login'[k].user = login[k].user
                                 /\ login'[k].started = login[k].started
        BY <1>2, <2>2
    <2> QED
        BY <1>1, <2>3, <2>4, <2>5, RowsSpool
<1>4. ASSUME SessionClosed(l) PROVE RowsInv'
    <2>1. /\ login[l].pc = "open" /\ login'[l] = [login[l] EXCEPT !.pc = "closed"]
          /\ \A k \in Logins \ {l} : login'[k] = login[k]
        BY <1>0, <1>4 DEF SessionClosed, AuthTypes
    <2>2. login'[l].pc = "closed" /\ login'[l].user = login[l].user
          /\ login'[l].started = login[l].started
        BY <1>0, <2>1, EndFields
    <2>3. Spool(l, "close") /\ lossy' = lossy /\ begun' = begun
        BY <1>4 DEF SessionClosed
    <2> QED
        BY <1>1, <2>1, <2>2, <2>3, RowsSpool
<1>5. ASSUME EventLost(l) PROVE RowsInv'
    <2>0. lossy' = TRUE /\ UNCHANGED uplinkVars /\ begun' = begun
        BY <1>5 DEF EventLost
    <2>1. UplinkTypes'
        BY <1>0, <2>0 DEF UplinkTypes, uplinkVars
    <2>2. CASE /\ login[l].pc = "opening"
               /\ login' = [d EXCEPT ![l] = [d[l] EXCEPT !.pc = "open", !.clear = FALSE]]
        <3> HIDE DEF d
        <3>1. /\ login'[l] = [login[l] EXCEPT !.pc = "open", !.clear = FALSE]
              /\ \A k \in Logins \ {l} : login'[k] = d[k]
            BY <1>2, <2>2
        <3>2. login'[l].pc = "open" /\ login'[l].user = login[l].user
              /\ login'[l].started = login[l].started
            BY <1>0, <3>1, BeginLostFields
        <3> QED
            BY <1>2, <2>0, <2>1, <2>2, <3>1, <3>2, RowsLost DEF uplinkVars
    <2>3. CASE login[l].pc = "open" /\ login' = [login EXCEPT ![l].pc = "closed"]
        <3>1. /\ login'[l] = [login[l] EXCEPT !.pc = "closed"]
              /\ \A k \in Logins \ {l} : login'[k] = login[k]
            BY <1>0, <2>3 DEF AuthTypes
        <3>2. login'[l].pc = "closed" /\ login'[l].user = login[l].user
              /\ login'[l].started = login[l].started
            BY <1>0, <3>1, EndFields
        <3> QED
            BY <2>0, <2>1, <2>3, <3>1, <3>2, RowsLost DEF uplinkVars
    <2> QED
        BY <1>5, <2>2, <2>3 DEF EventLost
<1> QED
    BY <1>3, <1>4, <1>5

(* The steps of the uplink.                                                *)
LEMMA RowsUplink ==
    ASSUME RowsInv, AuthInv',
           \/ \E n \in (acked + 1)..Len(wire) : SendBatch(n)
           \/ IngestEvent \/ DiscardEvent \/ BatchAnswered \/ AnswerLost
    PROVE  RowsInv'
<1>0. UplinkTypes /\ acked \in Nat /\ done \in Nat /\ sent \in Nat /\ Len(wire) \in Nat
      /\ lossy \in BOOLEAN /\ acked <= done /\ done <= sent /\ sent <= Len(wire)
    BY DEF RowsInv, UplinkTypes
<1>1. ASSUME NEW n \in (acked + 1)..Len(wire), SendBatch(n) PROVE RowsInv'
    <2>1. done = acked /\ sent' = n /\ n \in Nat /\ done <= n /\ n <= Len(wire)
        BY <1>0, <1>1 DEF SendBatch
    <2>2. UplinkTypes'
        BY <1>0, <1>1, <2>1 DEF SendBatch, UplinkTypes
    <2> QED
        BY <1>1, <2>2, RowsMarks DEF SendBatch
<1>2. ASSUME IngestEvent PROVE RowsInv'
    <2>1. done + 1 \in 1..Len(wire)
        BY <1>0, <1>2 DEF IngestEvent
    <2>2. wire[done + 1].phase \in {"open", "close"}
        BY <1>0, <2>1, WireElements
    <2> QED
        BY <1>2, <2>2, RowsIngestOpen, RowsIngestClose
<1>3. ASSUME DiscardEvent PROVE RowsInv'
    <2>1. UplinkTypes'
        BY <1>0, <1>3 DEF DiscardEvent, UplinkTypes
    <2> QED
        BY <1>3, <2>1, RowsLost DEF DiscardEvent
<1>4. ASSUME BatchAnswered PROVE RowsInv'
    <2>1. UplinkTypes'
        BY <1>0, <1>4 DEF BatchAnswered, UplinkTypes
    <2> QED
        BY <1>4, <2>1, RowsMarks DEF BatchAnswered
<1>5. ASSUME AnswerLost PROVE RowsInv'
    <2>1. UplinkTypes'
        BY <1>0, <1>5 DEF AnswerLost, UplinkTypes
    <2>2. CASE lossy \/ acked < done
        BY <1>5, <2>1, <2>2, RowsLost DEF AnswerLost
    <2>3. CASE ~lossy /\ ~(acked < done)
        <3>1. done' = done /\ lossy' = lossy
            BY <1>0, <1>5, <2>3 DEF AnswerLost
        <3> QED
            BY <1>5, <2>1, <3>1, RowsMarks DEF AnswerLost
    <2> QED
        BY <2>2, <2>3
<1> QED
    BY <1>1, <1>2, <1>3, <1>4, <1>5

(* The agent restarts.                                                     *)
LEMMA RowsRestart ==
    ASSUME RowsInv, AuthInv', AgentRestarts
    PROVE  RowsInv'
<1>1. \A k \in Logins : login[k] \in LoginStates
    BY DEF RowsInv, AuthInv, AuthTypes
<1>2. ASSUME NEW k \in Logins
      PROVE  /\ login'[k].pc = login[k].pc /\ login'[k].user = login[k].user
             /\ login'[k].started = login[k].started
    <2>1. login'[k] = IF Waiting(k) THEN [login[k] EXCEPT !.clear = FALSE] ELSE login[k]
        BY DEF AgentRestarts, Waiting
    <2>2. LET e == [login[k] EXCEPT !.clear = FALSE]
          IN e.pc = login[k].pc /\ e.user = login[k].user /\ e.started = login[k].started
        BY <1>1 DEF LoginStates
    <2> QED
        BY ONLY <2>1, <2>2
<1>3. UNCHANGED uplinkVars /\ lossy' = lossy /\ begun' = begun /\ begun \in Nat
    BY DEF AgentRestarts, RowsInv, AuthInv, AuthTypes
<1>4. \A k \in Logins : login'[k].started <= begun'
    BY <1>2, <1>3 DEF RowsInv, StartedBefore
<1> QED
    BY <1>2, <1>3, <1>4, RowsQuiet

(* Every step keeps the invariant.                                         *)
LEMMA RowsNext == RowsInv /\ [TrailNext]_trailVars => RowsInv'
<1> SUFFICES ASSUME RowsInv, [TrailNext]_trailVars PROVE RowsInv'
    OBVIOUS
<1>0. AuthInv'
    BY AuthNext DEF RowsInv
<1>1. begun \in Nat
    BY DEF RowsInv, AuthInv, AuthTypes
<1>2. CASE TrailTick \/ UNCHANGED trailVars
    <2>1. UNCHANGED <<login, uplinkVars, begun, lossy>>
        BY <1>2 DEF TrailTick, trailVars
    <2>2. \A l \in Logins : login[l].started <= begun
        BY DEF RowsInv, StartedBefore
    <2> QED
        BY <1>0, <1>1, <2>1, <2>2, RowsQuiet
<1>3. CASE AgentRestarts
    BY <1>0, <1>3, RowsRestart
<1>4. ASSUME NEW l \in Logins,
             \/ \E u \in LocalUsers, s \in Serials \cup {0} : Ask(l, u, s)
             \/ LoginRefused(l) \/ PamOpen(l)
      PROVE  RowsInv'
    BY <1>0, <1>4, RowsLogin
<1>r. ASSUME NEW p \in underway, RecordAuth(p)
      PROVE  RowsInv'
    BY <1>0, <1>r, RowsRecord
<1>5. ASSUME NEW l \in Logins, SessionOpened(l) \/ SessionClosed(l) \/ EventLost(l)
      PROVE  RowsInv'
    BY <1>0, <1>5, RowsSession
<1>6. CASE \/ \E n \in (acked + 1)..Len(wire) : SendBatch(n)
           \/ IngestEvent \/ DiscardEvent \/ BatchAnswered \/ AnswerLost
    BY <1>0, <1>6, RowsUplink
<1> QED
    BY <1>2, <1>3, <1>4, <1>r, <1>5, <1>6 DEF TrailNext

(* OpenHostSession and CloseHostSession keep as many active rows of an     *)
(* account as it has sessions, for any number of logins and accounts and   *)
(* however the events are cut into batches, although a close ends the      *)
(* youngest row and not the session's own.                                 *)
THEOREM SessionsAlwaysActive == TrailSpec => []ActiveSessions
<1>1. RowsInv => ActiveSessions
    <2> SUFFICES ASSUME RowsInv, ~lossy, acked = Len(wire), NEW u \in LocalUsers
                 PROVE  Cardinality({i \in DOMAIN rows : rows[i].user = u /\ ~rows[i].ended})
                          = Cardinality({l \in Logins : login[l].user = u /\ login[l].pc = "open"})
        BY DEF ActiveSessions
    <2>1. rows \in Seq(SessionRows) /\ done = Len(wire) /\ done \in Nat
        BY DEF RowsInv, UplinkTypes
    <2>2. ActiveRows(u) = {i \in DOMAIN rows : rows[i].user = u /\ ~rows[i].ended}
        BY <2>1 DEF ActiveRows
    <2>3. \A l, phase : Unsaved(l, phase) = {}
        BY <2>1 DEF Unsaved
    <2>4. KnownLive(u) = {l \in Logins : login[l].user = u /\ login[l].pc = "open"}
        BY <2>3 DEF KnownLive
    <2>5. Cardinality(ActiveRows(u)) = Cardinality(KnownLive(u))
        BY DEF RowsInv, LiveCounted
    <2> QED
        BY <2>2, <2>4, <2>5
<1> QED
    BY <1>1, RowsInit, RowsNext, PTL DEF TrailSpec
=============================================================================
