------------------------------ MODULE UILogin ------------------------------
(***************************************************************************)
(* The login of the web UI (internal/api/ui_auth.go): /login mints a state *)
(* and a PKCE verifier and keeps them in a sealed cookie, the browser goes *)
(* to the identity provider and comes back to /callback, which trades the  *)
(* code for claims and sets the session cookie.  The server keeps nothing. *)
(*                                                                         *)
(* A browser has one state cookie for all its tabs, and takes the cookies  *)
(* of a response when it arrives: attempts in several tabs overwrite and   *)
(* clear each other's.  A callback may be opened in another browser and    *)
(* may be repeated.  A sealed cookie is the attempt it was minted for.     *)
(***************************************************************************)
EXTENDS Integers

CONSTANTS Attempts,       \* login attempts
          Browsers,
          NoAttempt,      \* no cookie
          StateTTL,       \* stateCookieTTL
          SessionTTL,     \* cfg.SessionTTL
          MaxExchange,    \* longest time the code exchange takes
          MaxStrays,      \* bound on callbacks repeated or opened elsewhere
          MaxLoginTime    \* bound on the clock

ASSUME LoginAssumption ==
    /\ NoAttempt \notin Attempts
    /\ {StateTTL, SessionTTL, MaxExchange, MaxStrays, MaxLoginTime} \subseteq Nat

VARIABLES now,          \* the clock
          attempt,      \* the attempts
          stateCookie,  \* gssh_auth_state, by browser
          session,      \* gssh_session, by browser
          clearing,     \* browsers with a response under way that ends the session
          strays        \* counter for the bound

loginVars == <<now, attempt, stateCookie, session, clearing, strays>>

NoCookie == [of |-> NoAttempt, until |-> 0]

(* A fresh attempt.  disturbed: another tab changed the state cookie while *)
(* the user was at the identity provider.                                  *)
NewAttempt(b) ==
    [pc |-> "idle", home |-> b, at |-> b, began |-> 0, since |-> 0,
     sent |-> NoAttempt, answer |-> "none", until |-> 0,
     codeUsed |-> FALSE, repeated |-> FALSE, disturbed |-> FALSE]

LoginInit ==
    /\ now = 0
    /\ attempt \in [Attempts -> {NewAttempt(b) : b \in Browsers}]
    /\ stateCookie = [b \in Browsers |-> NoCookie]
    /\ session = [b \in Browsers |-> NoCookie]
    /\ clearing = {} /\ strays = 0

LoginTick ==
    /\ now < MaxLoginTime
    /\ \A a \in Attempts : attempt[a].pc = "exchanging" => now - attempt[a].since < MaxExchange
    /\ now' = now + 1
    /\ UNCHANGED <<attempt, stateCookie, session, clearing, strays>>

(* The attempts of a browser, after a's response changed the state cookie. *)
Disturbed(f, a, b) ==
    [x \in Attempts |->
        IF x # a /\ f[x].home = b /\ f[x].pc = "at the provider"
        THEN [f[x] EXCEPT !.disturbed = TRUE] ELSE f[x]]

-----------------------------------------------------------------------------
(* handleLogin: the cookie is minted,                                      *)
Login(a) ==
    /\ attempt[a].pc = "idle"
    /\ attempt' = [attempt EXCEPT ![a] = [@ EXCEPT !.pc = "minted", !.began = now]]
    /\ UNCHANGED <<now, stateCookie, session, clearing, strays>>

(* and replaces the one of another tab when the redirect arrives.          *)
LoginArrives(a) ==
    LET b == attempt[a].home
    IN /\ attempt[a].pc = "minted"
       /\ attempt' = Disturbed([attempt EXCEPT ![a].pc = "at the provider"], a, b)
       /\ stateCookie' = [stateCookie EXCEPT ![b] = [of |-> a, until |-> now + StateTTL]]
       /\ UNCHANGED <<now, session, clearing, strays>>

(* The provider sends the browser back with an error: no cookie changes.   *)
ProviderError(a) ==
    /\ attempt[a].pc = "at the provider"
    /\ attempt' = [attempt EXCEPT ![a] = [@ EXCEPT !.pc = "done", !.answer = "provider error"]]
    /\ UNCHANGED <<now, stateCookie, session, clearing, strays>>

(* The callback leaves browser b with the state cookie it holds then.      *)
SendCallback(a, b) ==
    /\ \/ attempt[a].pc = "at the provider"
       \/ attempt[a].pc = "done" /\ attempt[a].answer # "provider error" /\ ~attempt[a].repeated
    /\ LET stray == attempt[a].pc = "done" \/ b # attempt[a].home
       IN /\ stray => strays < MaxStrays
          /\ strays' = IF stray THEN strays + 1 ELSE strays
    /\ attempt' = [attempt EXCEPT ![a] =
                     [@ EXCEPT !.pc = "calling", !.at = b, !.answer = "none",
                        !.repeated = (attempt[a].pc = "done"),
                        !.sent = IF now <= stateCookie[b].until
                                 THEN stateCookie[b].of ELSE NoAttempt]]
    /\ UNCHANGED <<now, stateCookie, session, clearing>>

(* A mutant: only the browser's own clock ends a login attempt.            *)
NeverExpires(c) == FALSE

StateExpired(c) == now > attempt[c].began + StateTTL

(* callbackState: the cookie is there, is not expired and matches.         *)
CallbackState(a) ==
    LET c == attempt[a].sent
    IN /\ attempt[a].pc = "calling"
       /\ attempt' = [attempt EXCEPT ![a] =
            IF c = NoAttempt
            THEN [@ EXCEPT !.pc = "answered", !.answer = "state missing", !.since = now]
            ELSE [@ EXCEPT !.since = now, !.sent = NoAttempt,
                     !.pc = IF StateExpired(c) \/ c # a THEN "answered" ELSE "exchanging",
                     !.answer = IF StateExpired(c) \/ c # a THEN "state refused"
                                ELSE attempt[a].answer]]
       /\ UNCHANGED <<now, stateCookie, session, clearing, strays>>

(* The rest of handleCallback: exchange, ID token, EnsureUser, roles.  The *)
(* provider takes a code once.                                             *)
Exchange(a) ==
    /\ attempt[a].pc = "exchanging"
    /\ \E outcome \in {"failed"} \cup (IF attempt[a].codeUsed THEN {}
                                       ELSE {"rejected", "no role", "session"}) :
         attempt' = [attempt EXCEPT ![a] =
                       [@ EXCEPT !.pc = "answered", !.answer = outcome,
                          !.codeUsed = attempt[a].codeUsed \/ outcome # "failed",
                          !.until = IF outcome = "session" THEN now + SessionTTL
                                    ELSE attempt[a].until]]
    /\ UNCHANGED <<now, stateCookie, session, clearing, strays>>

(* The response arrives.  All but the first answer clear the state cookie, *)
(* whichever attempt it belongs to by now; a login without a role ends the *)
(* session that was there.                                                 *)
CallbackArrives(a) ==
    LET b      == attempt[a].at
        answer == attempt[a].answer
        done   == [attempt EXCEPT ![a].pc = "done"]
    IN /\ attempt[a].pc = "answered"
       /\ IF answer = "state missing"
          THEN attempt' = done /\ UNCHANGED stateCookie
          ELSE /\ attempt' = Disturbed(done, a, b)
               /\ stateCookie' = [stateCookie EXCEPT ![b] = NoCookie]
       /\ session' = [session EXCEPT ![b] =
                        IF answer = "session" THEN [of |-> a, until |-> attempt[a].until]
                        ELSE IF answer = "no role" THEN NoCookie ELSE @]
       /\ UNCHANGED <<now, clearing, strays>>

(* sessionFromRequest.                                                     *)
LoggedIn(b) == session[b].of # NoAttempt /\ now <= session[b].until

(* handleLogout, or handleMe when EnsureUser finds the user disabled.      *)
EndSession(b) ==
    /\ clearing = {}
    /\ clearing' = {b}
    /\ UNCHANGED <<now, attempt, stateCookie, session, strays>>

ClearArrives(b) ==
    /\ b \in clearing
    /\ clearing' = clearing \ {b}
    /\ session' = [session EXCEPT ![b] = NoCookie]
    /\ UNCHANGED <<now, attempt, stateCookie, strays>>

LoginNext ==
    \/ LoginTick
    \/ \E a \in Attempts :
         \/ Login(a) \/ LoginArrives(a) \/ ProviderError(a)
         \/ \E b \in Browsers : SendCallback(a, b)
         \/ CallbackState(a) \/ Exchange(a) \/ CallbackArrives(a)
    \/ \E b \in Browsers : EndSession(b) \/ ClearArrives(b)

LoginSpec == LoginInit /\ [][LoginNext]_loginVars

-----------------------------------------------------------------------------
(* Whatever the tabs do: a session belongs to an attempt begun in the same *)
(* browser, and lasts no longer than SessionTTL after a login that took at *)
(* most stateCookieTTL.  An attempt is refused for its state only for a    *)
(* reason: it took longer, its callback was repeated or opened elsewhere,  *)
(* or another attempt's response came to the same browser meanwhile.       *)
LoginSound ==
    /\ \A b \in Browsers : LoggedIn(b) =>
          LET a == session[b].of
          IN /\ attempt[a].home = b
             /\ session[b].until <= attempt[a].began + StateTTL + MaxExchange + SessionTTL
    /\ \A a \in Attempts : attempt[a].answer \in {"state missing", "state refused"} =>
          \/ attempt[a].since > attempt[a].began + StateTTL
          \/ attempt[a].repeated \/ attempt[a].disturbed
          \/ attempt[a].at # attempt[a].home
=============================================================================
