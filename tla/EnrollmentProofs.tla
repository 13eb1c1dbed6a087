-------------------------- MODULE EnrollmentProofs --------------------------
(***************************************************************************)
(* Proofs about Enrollment, for any number of tokens, names, attempts and  *)
(* faults: what enroll reports is true of the files and of the running     *)
(* daemon, and an enrollment that fails leaves a configuration with which  *)
(* sshd starts.                                                            *)
(*                                                                         *)
(* The properties speak of the ends of an enrollment; the strengthening    *)
(* follows it through its steps: which files are already this attempt's,   *)
(* what is still in the place of the snippet and what the rollback would   *)
(* put there, whether a reload command is going to be stored, which        *)
(* attempt used a token up, and which snippets sshd can have loaded.       *)
(***************************************************************************)
EXTENDS Enrollment, SequenceTheorems, TLAPS

Recs == [tok : Tokens, name : Names, st : {"sent", "enrolled", "answered", "rejected"},
         won : BOOLEAN, good : BOOLEAN]

Places == {"rest", "posting", "writing", "pam", "validate", "activate", "probing", "done"}

EnrollTypes ==
    /\ token \in [Tokens -> {"unused", "used", "expired"}]
    /\ attempt \in Seq(Recs) /\ row \in [Names -> Nat]
    /\ pc \in Places /\ cur \in Nat /\ step \in 1..7 /\ opts \in Options
    /\ disk \in [Files -> Int] /\ old \in Int /\ running \in Int
    /\ cmd \in BOOLEAN /\ reloadCmd \in BOOLEAN /\ verified \in BOOLEAN
    /\ excused \in BOOLEAN /\ hadCmd \in BOOLEAN /\ cutOff \in BOOLEAN

(* Who has certificates has consumed a token and written the host's row.   *)
ServerSound ==
    \A a \in Attempts : attempt[a].st \in {"enrolled", "answered"} =>
        attempt[a].won /\ row[attempt[a].name] # 0

(* A token with which a host was enrolled is used up, by one attempt.      *)
TokensOnce ==
    /\ \A a \in Attempts : attempt[a].won => token[attempt[a].tok] = "used"
    /\ \A a, b \in Attempts : attempt[a].won /\ attempt[b].won
                                 /\ attempt[a].tok = attempt[b].tok => a = b

(* The files are all of this attempt.                                      *)
AllWritten == pc \in {"pam", "validate", "activate", "probing", "done"}

(* The agent writes only with an answer in its hands.                      *)
HasAnswer ==
    /\ pc # "rest" => cur \in Attempts /\ attempt[cur].name = MyName
    /\ pc = "writing" \/ AllWritten => attempt[cur].st = "answered"

(* The files before the next one are this attempt's.                       *)
FilesWritten ==
    /\ pc \in {"rest", "posting"} => step = 1
    /\ pc = "writing" => \A i \in 1..7 : i < step => disk[Order[i]] = cur
    /\ AllWritten => \A i \in 1..7 : disk[Order[i]] = cur

(* The old snippet has been read, and is in place until the new one is.    *)
OldRead == AllWritten \/ (pc = "writing" /\ step > 5)

OldInPlace == pc = "writing" /\ step > 5 => disk["snippet"] = old

(* Without an excuse, what sshd would read is acceptable, or the rollback  *)
(* is still to come and puts something acceptable there.                   *)
SnippetSafe ==
    ~ excused => /\ pc \notin {"pam", "validate"} => Accepted(disk["snippet"])
                 /\ OldRead => Accepted(old)

(* sshd has been asked, where there is one.                                *)
Asked == pc \in {"activate", "probing", "done"} /\ opts.sshd => attempt[cur].good

(* A stored reload command stays while config.yaml is whole, and there is  *)
(* one to write then.                                                      *)
CommandKept ==
    /\ hadCmd /\ ~ cutOff => cmd
    /\ pc = "writing" /\ hadCmd /\ ~ cutOff => reloadCmd
    /\ pc = "writing" /\ OwnCommand(opts) => reloadCmd

(* What sshd has loaded is a snippet that was not taken away again, and    *)
(* the new one if there was none before.                                   *)
LoadedSnippet ==
    /\ running > 0 => running \in Attempts /\ disk["snippet"] # 0
    /\ running > 0 /\ AllWritten /\ old = 0 => running = cur /\ attempt[cur].good

(* A certificate has been seen.                                            *)
SeenLoaded ==
    /\ pc # "done" => ~ verified
    /\ pc = "done" /\ verified => opts.sshd /\ running > 0

(* The inductive invariant.                                                *)
EnrollInv == /\ EnrollTypes /\ ServerSound /\ TokensOnce /\ HasAnswer /\ FilesWritten
             /\ OldInPlace /\ SnippetSafe /\ Asked /\ CommandKept /\ LoadedSnippet /\ SeenLoaded

-----------------------------------------------------------------------------
(* The files, and their places in the order of writing.                    *)
LEMMA OrderFacts ==
    /\ Len(Order) = 7 /\ DOMAIN Order = 1..7
    /\ Order[4] = "config" /\ Order[5] = "hostcert" /\ Order[7] = "snippet"
    /\ \A i \in 1..7 : Order[i] \in Files
    /\ \A i, j \in 1..7 : Order[i] = Order[j] => i = j
    /\ \A f \in Files : \E i \in 1..7 : f = Order[i]
<1>1. Len(Order) = 7 /\ DOMAIN Order = 1..7
    BY DEF Order
<1>2. Order[4] = "config" /\ Order[5] = "hostcert" /\ Order[7] = "snippet"
    BY DEF Order
<1>3. \A i, j \in 1..7 : Order[i] = Order[j] => i = j
    BY DEF Order
<1>4. Files = {Order[i] : i \in 1..7}
    BY <1>1 DEF Files
<1> QED
    BY <1>1, <1>2, <1>3, <1>4

(* The files the properties name.                                          *)
LEMMA NamedFiles ==
    /\ "config" \in Files /\ "hostcert" \in Files /\ "snippet" \in Files
    /\ \A i \in 1..7 : /\ Order[i] = "config" <=> i = 4
                       /\ Order[i] = "hostcert" <=> i = 5
                       /\ Order[i] = "snippet" <=> i = 7
BY OrderFacts

(* The machine has no attempt, no file and an sshd without snippet.        *)
LEMMA InitEnrollInv == EnrollInit => EnrollInv
<1> SUFFICES ASSUME EnrollInit PROVE EnrollInv
    OBVIOUS
<1>1. EnrollTypes
    <2>1. attempt \in Seq(Recs)
        BY DEF EnrollInit
    <2>2. /\ pc \in Places /\ cur \in Nat /\ step \in 1..7 /\ old \in Int /\ running \in Int
          /\ opts \in Options
        BY DEF EnrollInit, Places, NoOptions, Options
    <2>3. /\ row \in [Names -> Nat] /\ disk \in [Files -> Int]
          /\ token \in [Tokens -> {"unused", "used", "expired"}]
        BY DEF EnrollInit
    <2>4. /\ cmd \in BOOLEAN /\ reloadCmd \in BOOLEAN /\ verified \in BOOLEAN
          /\ excused \in BOOLEAN /\ hadCmd \in BOOLEAN /\ cutOff \in BOOLEAN
        BY DEF EnrollInit
    <2> QED
        BY <2>1, <2>2, <2>3, <2>4 DEF EnrollTypes
<1>2. /\ ServerSound /\ TokensOnce /\ HasAnswer /\ FilesWritten /\ OldInPlace /\ Asked
      /\ SeenLoaded
    BY DEF EnrollInit, ServerSound, TokensOnce, Attempts, HasAnswer, AllWritten, FilesWritten,
           OldInPlace, Asked, SeenLoaded
<1>3. SnippetSafe /\ CommandKept /\ LoadedSnippet
    BY NamedFiles DEF EnrollInit, SnippetSafe, OldRead, AllWritten, Accepted, CommandKept,
                      LoadedSnippet
<1> QED
    BY <1>1, <1>2, <1>3 DEF EnrollInv

-----------------------------------------------------------------------------
(* The server takes back no answer and changes nothing the agent sent.     *)
Grown == /\ Attempts \subseteq Attempts'
         /\ \A a \in Attempts : /\ attempt'[a].name = attempt[a].name
                                /\ attempt'[a].good = attempt[a].good
                                /\ attempt[a].st = "answered" => attempt'[a].st = "answered"

(* A request is added.                                                     *)
LEMMA Appended ==
    ASSUME attempt \in Seq(Recs), NEW r \in Recs, attempt' = Append(attempt, r)
    PROVE  /\ attempt' \in Seq(Recs) /\ Grown
           /\ Attempts' = Attempts \cup {Len(attempt) + 1}
           /\ \A a \in Attempts : attempt'[a] = attempt[a]
           /\ attempt'[Len(attempt) + 1] = r
<1>1. /\ attempt' \in Seq(Recs) /\ Len(attempt') = Len(attempt) + 1 /\ Len(attempt) \in Nat
      /\ \A a \in 1..Len(attempt) : attempt'[a] = attempt[a]
      /\ attempt'[Len(attempt) + 1] = r
    OBVIOUS
<1>2. Attempts = 1..Len(attempt) /\ Attempts' = 1..Len(attempt')
    BY <1>1 DEF Attempts
<1>3. Attempts' = Attempts \cup {Len(attempt) + 1}
    BY <1>1, <1>2
<1> QED
    BY <1>1, <1>2, <1>3 DEF Grown

(* A new request has enrolled nothing yet.                                 *)
LEMMA NewRequest ==
    ASSUME ServerSound, TokensOnce, token' = token, row' = row,
           NEW n, Attempts' = Attempts \cup {n}, attempt'[n].st = "sent",
           attempt'[n].won = FALSE, \A a \in Attempts : attempt'[a] = attempt[a]
    PROVE  ServerSound' /\ TokensOnce'
<1>1. ASSUME NEW a \in Attempts', attempt'[a].won
      PROVE  a \in Attempts /\ attempt'[a] = attempt[a] /\ attempt[a].won
    BY <1>1
<1>2. ASSUME NEW a \in Attempts', attempt'[a].st \in {"enrolled", "answered"}
      PROVE  a \in Attempts /\ attempt'[a] = attempt[a]
    BY <1>2
<1>3. ServerSound'
    BY <1>2 DEF ServerSound
<1>4. \A a \in Attempts' : attempt'[a].won => token'[attempt'[a].tok] = "used"
    BY <1>1 DEF TokensOnce
<1>5. \A a, b \in Attempts' : attempt'[a].won /\ attempt'[b].won
                                 /\ attempt'[a].tok = attempt'[b].tok => a = b
    BY <1>1 DEF TokensOnce
<1> QED
    BY <1>3, <1>4, <1>5 DEF TokensOnce

(* The handler of a request goes on.                                       *)
LEMMA Handled ==
    ASSUME attempt \in Seq(Recs), NEW a \in Attempts, attempt[a].st # "answered",
           NEW st \in {"enrolled", "answered", "rejected"}, NEW won \in BOOLEAN,
           attempt' = [attempt EXCEPT ![a] = [attempt[a] EXCEPT !.st = st, !.won = won]]
    PROVE  /\ attempt' \in Seq(Recs) /\ Attempts' = Attempts /\ Grown
           /\ \A x \in Attempts : x # a => attempt'[x] = attempt[x]
           /\ attempt'[a].st = st /\ attempt'[a].won = won
           /\ attempt'[a].name = attempt[a].name /\ attempt'[a].tok = attempt[a].tok
<1> DEFINE r == [attempt[a] EXCEPT !.st = st, !.won = won]
<1>1. a \in 1..Len(attempt) /\ Attempts = 1..Len(attempt) /\ attempt[a] \in Recs
    BY DEF Attempts
<1>2. /\ r \in Recs /\ r.st = st /\ r.won = won /\ r.name = attempt[a].name
      /\ r.good = attempt[a].good /\ r.tok = attempt[a].tok
    BY <1>1 DEF Recs
<1> HIDE DEF r
<1>3. attempt' = [attempt EXCEPT ![a] = r]
    BY DEF r
<1>4. attempt' \in Seq(Recs) /\ Len(attempt') = Len(attempt)
    BY <1>1, <1>2, <1>3, ExceptSeq
<1>5. Attempts' = Attempts
    BY <1>1, <1>4 DEF Attempts
<1>6. \A x \in Attempts : attempt'[x] = IF x = a THEN r ELSE attempt[x]
    BY <1>1, <1>3
<1> QED
    BY <1>2, <1>4, <1>5, <1>6 DEF Grown

(* What was acceptable stays acceptable.                                   *)
LEMMA StaysAccepted ==
    ASSUME Grown, NEW s, Accepted(s)
    PROVE  s = 0 \/ (s \in Attempts' /\ attempt'[s].good)
BY DEF Grown, Accepted

(* A step of the server.                                                   *)
LEMMA ServerStepKeeps ==
    ASSUME EnrollInv, Grown, attempt' \in Seq(Recs), row' \in [Names -> Nat], ServerSound',
           token' \in [Tokens -> {"unused", "used", "expired"}], TokensOnce',
           pc' = pc, cur' = cur, step' = step, disk' = disk, cmd' = cmd, opts' = opts,
           reloadCmd' = reloadCmd, old' = old, verified' = verified, running' = running,
           excused' = excused, hadCmd' = hadCmd, cutOff' = cutOff
    PROVE  EnrollInv'
<1>1. EnrollTypes'
    BY DEF EnrollInv, EnrollTypes
<1>2. HasAnswer' /\ FilesWritten' /\ OldInPlace' /\ CommandKept'
    BY DEF EnrollInv, HasAnswer, AllWritten, FilesWritten, OldInPlace, CommandKept, Grown,
           OwnCommand
<1>3. SnippetSafe'
    BY StaysAccepted DEF EnrollInv, SnippetSafe, OldRead, AllWritten, Accepted
<1>4. Asked' /\ LoadedSnippet' /\ SeenLoaded'
    BY DEF EnrollInv, Asked, LoadedSnippet, SeenLoaded, HasAnswer, AllWritten, Grown
<1> QED
    BY <1>1, <1>2, <1>3, <1>4 DEF EnrollInv

(* Tokens, requests of other machines, and the handler.                    *)
LEMMA ServerActions ==
    ASSUME EnrollInv,
           \/ \E t \in Tokens : Expire(t) \/ \E n \in Names : Elsewhere(t, n)
           \/ \E a \in 1..MaxAttempts : EnrollHost(a) \/ IssueCerts(a) \/ HandlerFails(a)
    PROVE  EnrollInv'
<1>1. /\ pc' = pc /\ cur' = cur /\ step' = step /\ disk' = disk /\ cmd' = cmd
      /\ opts' = opts /\ reloadCmd' = reloadCmd /\ old' = old /\ verified' = verified
      /\ running' = running /\ excused' = excused /\ hadCmd' = hadCmd /\ cutOff' = cutOff
    BY DEF Expire, Elsewhere, EnrollHost, IssueCerts, HandlerFails, agentVars, diskVars,
           sshdVars, history
<1>2. /\ attempt \in Seq(Recs) /\ row \in [Names -> Nat] /\ ServerSound /\ TokensOnce
      /\ token \in [Tokens -> {"unused", "used", "expired"}]
    BY DEF EnrollInv, EnrollTypes
<1> DEFINE TokenType == [Tokens -> {"unused", "used", "expired"}]
<1>3. CASE \E t \in Tokens : Expire(t)
    <2>1. PICK t \in Tokens : Expire(t)
        BY <1>3
    <2>2. /\ attempt' = attempt /\ row' = row
          /\ token[t] = "unused" /\ token' = [token EXCEPT ![t] = "expired"]
        BY <2>1 DEF Expire
    <2>3. token' \in TokenType /\ \A u \in Tokens : token[u] = "used" => token'[u] = "used"
        BY <1>2, <2>2
    <2>4. TokensOnce'
        <3>1. ASSUME NEW a \in Attempts PROVE attempt[a].tok \in Tokens
            <4>1. attempt[a] \in Recs
                BY <1>2 DEF Attempts
            <4> QED
                BY <4>1 DEF Recs
        <3> QED
            BY <1>2, <2>2, <2>3, <3>1 DEF TokensOnce, Attempts
    <2>5. Grown /\ ServerSound'
        BY <1>2, <2>2 DEF Grown, Attempts, ServerSound
    <2> QED
        BY <1>1, <1>2, <2>2, <2>3, <2>4, <2>5, ServerStepKeeps
<1>4. CASE \E t \in Tokens, n \in Names : Elsewhere(t, n)
    <2>1. PICK t \in Tokens, n \in Names : Elsewhere(t, n)
        BY <1>4
    <2> DEFINE r == [tok |-> t, name |-> n, st |-> "sent", won |-> FALSE, good |-> TRUE]
    <2>2. r \in Recs /\ r.st = "sent" /\ r.won = FALSE
        BY DEF Recs
    <2>3. attempt' = Append(attempt, r) /\ row' = row /\ token' = token
        BY <2>1 DEF Elsewhere
    <2> HIDE DEF r
    <2>4. /\ attempt' \in Seq(Recs) /\ Grown /\ Attempts' = Attempts \cup {Len(attempt) + 1}
          /\ \A a \in Attempts : attempt'[a] = attempt[a]
          /\ attempt'[Len(attempt) + 1] = r
        BY <1>2, <2>2, <2>3, Appended
    <2>5. ServerSound' /\ TokensOnce'
        BY <1>2, <2>2, <2>3, <2>4, NewRequest
    <2> QED
        BY <1>1, <1>2, <2>3, <2>4, <2>5, ServerStepKeeps
<1>5. CASE \E a \in 1..MaxAttempts : EnrollHost(a) \/ IssueCerts(a) \/ HandlerFails(a)
    <2>1. PICK a \in 1..MaxAttempts : EnrollHost(a) \/ IssueCerts(a) \/ HandlerFails(a)
        BY <1>5
    <2>2. a \in Attempts /\ attempt[a].st \in {"sent", "enrolled"}
        BY <2>1 DEF EnrollHost, IssueCerts, HandlerFails
    <2>3. attempt[a] \in Recs /\ a \in Nat \ {0} /\ Attempts = 1..Len(attempt)
        BY <1>2, <2>2 DEF Attempts
    <2>4. /\ attempt[a].name \in Names /\ attempt[a].won \in BOOLEAN
          /\ attempt[a].tok \in Tokens
          /\ attempt[a] = [attempt[a] EXCEPT !.won = attempt[a].won]
        BY <2>3 DEF Recs
    <2>5. ASSUME NEW st \in {"answered", "rejected"},
                 attempt' = [attempt EXCEPT ![a].st = st], row' = row, token' = token,
                 st = "answered" => attempt[a].st = "enrolled"
          PROVE  EnrollInv'
        <3>1. [attempt[a] EXCEPT !.st = st] =
                  [attempt[a] EXCEPT !.st = st, !.won = attempt[a].won]
            BY <2>3 DEF Recs
        <3>2. attempt' = [attempt EXCEPT ![a] = [attempt[a] EXCEPT !.st = st,
                                                    !.won = attempt[a].won]]
            BY <2>5, <3>1
        <3>3. /\ attempt' \in Seq(Recs) /\ Attempts' = Attempts /\ Grown
              /\ \A x \in Attempts : x # a => attempt'[x] = attempt[x]
              /\ attempt'[a].st = st /\ attempt'[a].won = attempt[a].won
              /\ attempt'[a].name = attempt[a].name /\ attempt'[a].tok = attempt[a].tok
            BY <1>2, <2>2, <2>4, <3>2, Handled
        <3>4. ServerSound' /\ TokensOnce'
            BY <1>2, <2>2, <2>5, <3>3 DEF ServerSound, TokensOnce
        <3> QED
            BY <1>1, <1>2, <2>5, <3>3, <3>4, ServerStepKeeps
    <2>6. CASE IssueCerts(a) \/ HandlerFails(a)
        BY <2>5, <2>6 DEF IssueCerts, HandlerFails
    <2>7. CASE /\ EnrollHost(a)
               /\ attempt' = [attempt EXCEPT ![a].st = "rejected"] /\ row' = row
               /\ token' = token
        BY <2>5, <2>7
    <2>8. CASE /\ Usable(attempt[a].tok)
               /\ token' = [token EXCEPT ![attempt[a].tok] = "used"]
               /\ row' = [row EXCEPT ![attempt[a].name] = a]
               /\ attempt' = [attempt EXCEPT ![a] = [attempt[a] EXCEPT !.st = "enrolled",
                                                                    !.won = TRUE]]
        <3>1. /\ attempt' \in Seq(Recs) /\ Attempts' = Attempts /\ Grown
              /\ \A x \in Attempts : x # a => attempt'[x] = attempt[x]
              /\ attempt'[a].st = "enrolled" /\ attempt'[a].won = TRUE
              /\ attempt'[a].name = attempt[a].name /\ attempt'[a].tok = attempt[a].tok
            BY <1>2, <2>2, <2>8, Handled
        <3>2. /\ row' \in [Names -> Nat] /\ row'[attempt[a].name] # 0
              /\ \A n \in Names : row[n] # 0 => row'[n] # 0
            BY <1>2, <2>3, <2>4, <2>8
        <3>3. ASSUME NEW x \in Attempts
              PROVE  attempt[x].name \in Names /\ attempt[x].tok \in Tokens
            <4>1. attempt[x] \in Recs
                BY <1>2, <2>3
            <4> QED
                BY <4>1 DEF Recs
        <3>4. ServerSound'
            BY <1>2, <2>2, <3>1, <3>2, <3>3 DEF ServerSound
        <3>5. /\ token' \in TokenType /\ token'[attempt[a].tok] = "used"
              /\ token[attempt[a].tok] = "unused"
              /\ \A u \in Tokens : token[u] = "used" => token'[u] = "used"
            BY <1>2, <2>4, <2>8 DEF Usable
        <3>6. TokensOnce'
            <4>1. ASSUME NEW x \in Attempts, attempt[x].won
                  PROVE  attempt[x].tok # attempt[a].tok /\ token'[attempt[x].tok] = "used"
                BY <1>2, <3>3, <3>5, <4>1 DEF TokensOnce
            <4>2. \A x \in Attempts : attempt'[x].tok = attempt[x].tok
                                      /\ (x # a => attempt'[x].won = attempt[x].won)
                BY <3>1
            <4>3. \A x \in Attempts : attempt'[x].won => token'[attempt'[x].tok] = "used"
                BY <3>5, <4>1, <4>2
            <4>4. ASSUME NEW x \in Attempts, NEW y \in Attempts, attempt'[x].won,
                         attempt'[y].won, attempt'[x].tok = attempt'[y].tok
                  PROVE  x = y
                <5>1. x # a /\ y # a => x = y
                    BY <1>2, <4>2, <4>4 DEF TokensOnce
                <5>2. x = a <=> y = a
                    BY <2>2, <4>1, <4>2, <4>4
                <5> QED
                    BY <5>1, <5>2
            <4> QED
                BY <3>1, <4>3, <4>4 DEF TokensOnce
        <3> QED
            BY <1>1, <3>1, <3>2, <3>4, <3>5, <3>6, ServerStepKeeps
    <2> QED
        BY <2>1, <2>6, <2>7, <2>8 DEF EnrollHost
<1> QED
    BY <1>3, <1>4, <1>5

-----------------------------------------------------------------------------
(* The files of an attempt that has written them all.                      *)
LEMMA AllFiles ==
    ASSUME EnrollInv, AllWritten
    PROVE  /\ \A f \in Files : disk[f] = cur
           /\ cur \in Attempts /\ cur \in Nat \ {0} /\ attempt[cur] \in Recs
<1>1. \A f \in Files : disk[f] = cur
    BY OrderFacts DEF EnrollInv, FilesWritten
<1>2. cur \in Attempts
    BY DEF EnrollInv, HasAnswer, AllWritten
<1> QED
    BY <1>1, <1>2 DEF EnrollInv, EnrollTypes, Attempts

(* Enroll ends without success, in whatever way.                           *)
LEMMA ComesToRest ==
    ASSUME EnrollInv, Ends, UNCHANGED <<token, attempt, row, running, hadCmd>>,
           disk' \in [Files -> Int], cmd' \in BOOLEAN, excused' \in BOOLEAN,
           cutOff' \in BOOLEAN,
           ~ excused' => Accepted(disk'["snippet"]),
           running > 0 => disk'["snippet"] # 0,
           hadCmd /\ ~ cutOff' => cmd'
    PROVE  EnrollInv'
<1> USE DEF Ends
<1>1. EnrollTypes'
    <2>1. NoOptions \in Options
        BY DEF NoOptions, Options
    <2>2. pc' \in Places
        BY DEF Places
    <2>3. cur' \in Nat /\ step' \in 1..7 /\ old' \in Int
        BY SMT
    <2>4. reloadCmd' \in BOOLEAN /\ verified' \in BOOLEAN
        BY Zenon
    <2>5. opts' \in Options
        BY <2>1, Zenon
    <2> QED
        BY <2>2, <2>3, <2>4, <2>5 DEF EnrollInv, EnrollTypes
<1>2. ServerSound' /\ TokensOnce'
    BY DEF EnrollInv, ServerSound, TokensOnce, Attempts
<1>3. HasAnswer' /\ FilesWritten' /\ OldInPlace' /\ Asked' /\ SeenLoaded'
    BY DEF HasAnswer, AllWritten, FilesWritten, OldInPlace, Asked, SeenLoaded
<1>4. SnippetSafe'
    BY DEF SnippetSafe, OldRead, AllWritten, Accepted, Attempts
<1>5. CommandKept'
    BY DEF EnrollInv, CommandKept
<1>6. LoadedSnippet'
    BY DEF EnrollInv, LoadedSnippet, AllWritten, Attempts
<1> QED
    BY <1>1, <1>2, <1>3, <1>4, <1>5, <1>6 DEF EnrollInv

(* Enroll begins.                                                          *)
LEMMA BeginKeeps ==
    ASSUME EnrollInv, NEW t \in Tokens, NEW good \in BOOLEAN, NEW o \in Options,
           Begin(t, good, o)
    PROVE  EnrollInv'
<1> DEFINE r == [tok |-> t, name |-> MyName, st |-> "sent", won |-> FALSE, good |-> good]
<1>1. r \in Recs /\ r.st = "sent" /\ r.name = MyName /\ r.won = FALSE
    BY EnrollAssumption DEF Recs
<1>2. /\ attempt' = Append(attempt, r) /\ pc = "rest"
      /\ pc' = "posting" /\ cur' = Len(attempt) + 1 /\ opts' = o
      /\ step' = step /\ verified' = verified /\ token' = token
      /\ row' = row /\ disk' = disk /\ cmd' = cmd /\ reloadCmd' = reloadCmd /\ old' = old
      /\ running' = running /\ excused' = excused /\ hadCmd' = hadCmd /\ cutOff' = cutOff
    BY DEF Begin, diskVars, sshdVars, history
<1> HIDE DEF r
<1>3. EnrollTypes /\ attempt \in Seq(Recs) /\ Len(attempt) \in Nat
    BY DEF EnrollInv, EnrollTypes
<1>4. /\ attempt' \in Seq(Recs) /\ Grown
      /\ Attempts' = Attempts \cup {cur'}
      /\ \A a \in Attempts : attempt'[a] = attempt[a]
      /\ attempt'[cur'] = r
    BY <1>1, <1>2, <1>3, Appended
<1>5. EnrollTypes'
    <2>1. pc' \in Places
        BY <1>2 DEF Places
    <2>2. cur' \in Nat /\ opts' \in Options
        BY <1>2, <1>3
    <2> QED
        BY <1>2, <1>3, <1>4, <2>1, <2>2 DEF EnrollTypes
<1>6. ServerSound' /\ TokensOnce'
    BY <1>1, <1>2, <1>4, NewRequest DEF EnrollInv
<1>7. HasAnswer'
    BY <1>1, <1>2, <1>4 DEF HasAnswer, AllWritten
<1>8. FilesWritten' /\ OldInPlace' /\ Asked' /\ SeenLoaded'
    BY <1>2 DEF EnrollInv, AllWritten, FilesWritten, OldInPlace, Asked, SeenLoaded
<1>9. SnippetSafe'
    BY <1>2, <1>4, StaysAccepted DEF EnrollInv, SnippetSafe, OldRead, AllWritten, Accepted
<1>10. CommandKept'
    BY <1>2 DEF EnrollInv, CommandKept
<1>11. LoadedSnippet'
    BY <1>2, <1>4 DEF EnrollInv, LoadedSnippet, AllWritten
<1> QED
    BY <1>5, <1>6, <1>7, <1>8, <1>9, <1>10, <1>11 DEF EnrollInv

(* The answer arrives: a reload command already stored is carried over.    *)
LEMMA ReceiveKeeps == ASSUME EnrollInv, Receive PROVE EnrollInv'
<1>1. /\ pc = "posting" /\ attempt[cur].st = "answered" /\ pc' = "writing"
      /\ reloadCmd' = ReloadCommand(opts) /\ token' = token /\ opts' = opts
      /\ attempt' = attempt /\ row' = row /\ cur' = cur /\ step' = step /\ disk' = disk
      /\ cmd' = cmd /\ old' = old /\ verified' = verified /\ running' = running
      /\ excused' = excused /\ hadCmd' = hadCmd /\ cutOff' = cutOff
    BY DEF Receive, serverVars, diskVars, sshdVars, history
<1>2. EnrollTypes /\ cur \in Attempts /\ attempt[cur] \in Recs
    BY <1>1 DEF EnrollInv, HasAnswer, EnrollTypes, Attempts
<1>3. /\ reloadCmd' \in BOOLEAN /\ (hadCmd /\ ~ cutOff => reloadCmd')
      /\ OwnCommand(opts) => reloadCmd'
    <2>1. reloadCmd' = (OwnCommand(opts) \/ cmd) /\ OwnCommand(opts) \in BOOLEAN
        BY <1>1 DEF ReloadCommand, OwnCommand
    <2> QED
        BY <1>2, <2>1 DEF EnrollInv, CommandKept, EnrollTypes
<1>4. EnrollTypes'
    BY <1>1, <1>2, <1>3 DEF EnrollTypes, Places
<1>5. ServerSound' /\ TokensOnce' /\ HasAnswer'
    BY <1>1, <1>2 DEF EnrollInv, ServerSound, TokensOnce, HasAnswer, Attempts, AllWritten
<1>6. FilesWritten' /\ OldInPlace' /\ Asked' /\ SeenLoaded'
    BY <1>1, <1>2 DEF EnrollInv, FilesWritten, OldInPlace, Asked, SeenLoaded, AllWritten,
                      EnrollTypes
<1>7. SnippetSafe'
    BY <1>1, <1>2 DEF EnrollInv, SnippetSafe, OldRead, AllWritten, Accepted, Attempts,
                      FilesWritten, EnrollTypes
<1>8. CommandKept' /\ LoadedSnippet'
    BY <1>1, <1>3 DEF EnrollInv, CommandKept, OwnCommand, LoadedSnippet, AllWritten,
                      Attempts
<1> QED
    BY <1>4, <1>5, <1>6, <1>7, <1>8 DEF EnrollInv

(* The next file is written.                                               *)
LEMMA WriteNextKeeps == ASSUME EnrollInv, WriteNext PROVE EnrollInv'
<1> DEFINE f == Order[step]
<1>1. /\ pc = "writing" /\ disk' = [disk EXCEPT ![f] = cur]
      /\ cmd' = IF f = "config" THEN reloadCmd ELSE cmd
      /\ cutOff' = IF f = "config" THEN cutOff /\ ~ OwnCommand(opts) ELSE cutOff
      /\ old' = IF f = "hostcert" THEN disk["snippet"] ELSE old
      /\ attempt' = attempt /\ row' = row /\ token' = token /\ cur' = cur /\ opts' = opts
      /\ reloadCmd' = reloadCmd /\ verified' = verified /\ running' = running
      /\ excused' = excused /\ hadCmd' = hadCmd
    BY DEF WriteNext, serverVars, sshdVars
<1>2. \/ step = 7 /\ pc' = "pam" /\ step' = 1
      \/ step # 7 /\ pc' = "writing" /\ step' = step + 1
    BY OrderFacts DEF WriteNext
<1>3. EnrollTypes /\ cur \in Attempts /\ cur \in Nat \ {0} /\ cur > 0
      /\ step \in 1..7 /\ disk \in [Files -> Int]
    BY <1>1 DEF EnrollInv, HasAnswer, EnrollTypes, Attempts
<1>4. /\ f \in Files /\ (f = "config" <=> step = 4) /\ (f = "hostcert" <=> step = 5)
      /\ (f = "snippet" <=> step = 7)
    BY <1>3, OrderFacts, NamedFiles
<1>5. /\ disk' \in [Files -> Int] /\ disk'[f] = cur
      /\ \A g \in Files : g # f => disk'[g] = disk[g]
    BY <1>1, <1>3, <1>4
<1>6. \A i \in 1..7 : i # step => disk'[Order[i]] = disk[Order[i]]
    BY <1>3, <1>5, OrderFacts
<1>7. disk'["snippet"] = IF step = 7 THEN cur ELSE disk["snippet"]
    BY <1>4, <1>5, NamedFiles
<1>8. /\ old' = IF step = 5 THEN disk["snippet"] ELSE old
      /\ cmd' = IF step = 4 THEN reloadCmd ELSE cmd
      /\ cutOff' = IF step = 4 THEN cutOff /\ ~ OwnCommand(opts) ELSE cutOff
    BY <1>1, <1>4
<1> HIDE DEF f
<1>9. EnrollTypes'
    <2>1. pc' \in Places /\ step' \in 1..7
        BY <1>2, <1>3 DEF Places
    <2>2. old' \in Int
        BY <1>3, <1>8, NamedFiles DEF EnrollTypes
    <2>3. cmd' \in BOOLEAN /\ cutOff' \in BOOLEAN
        BY <1>3, <1>8 DEF EnrollTypes
    <2> QED
        BY <1>1, <1>3, <1>5, <2>1, <2>2, <2>3 DEF EnrollTypes
<1>10. ServerSound' /\ TokensOnce' /\ HasAnswer'
    BY <1>1, <1>2 DEF EnrollInv, ServerSound, TokensOnce, HasAnswer, AllWritten, Attempts
<1>11. FilesWritten'
    <2>1. \A i \in 1..7 : i < step => disk[Order[i]] = cur
        BY <1>1 DEF EnrollInv, FilesWritten
    <2>2. \A i \in 1..7 : i <= step => disk'[Order[i]] = cur
        BY <1>3, <1>5, <1>6, <2>1 DEF f
    <2> QED
        BY <1>1, <1>2, <1>3, <2>2 DEF FilesWritten, AllWritten
<1>12. OldInPlace'
    BY <1>1, <1>2, <1>3, <1>7, <1>8 DEF EnrollInv, OldInPlace
<1>13. SnippetSafe'
    <2>1. ASSUME ~ excused PROVE Accepted(disk["snippet"]) /\ (step > 5 => Accepted(old))
        BY <1>1, <2>1 DEF EnrollInv, SnippetSafe, OldRead
    <2>2. ASSUME ~ excused, pc' = "writing" PROVE Accepted(disk'["snippet"])
        BY <1>2, <1>7, <2>1, <2>2
    <2>3. ASSUME ~ excused, OldRead' PROVE Accepted(old')
        <3>1. step > 4
            BY <1>2, <1>3, <2>3 DEF OldRead, AllWritten
        <3>2. step = 5 \/ step > 5
            BY <1>3, <3>1
        <3> QED
            BY <1>8, <2>1, <2>3, <3>2
    <2> QED
        BY <1>1, <1>2, <2>2, <2>3 DEF SnippetSafe, Accepted, Attempts
<1>14. Asked' /\ SeenLoaded'
    BY <1>1, <1>2 DEF EnrollInv, Asked, SeenLoaded
<1>15. CommandKept'
    <2>1. /\ hadCmd /\ ~ cutOff => cmd /\ reloadCmd
          /\ OwnCommand(opts) => reloadCmd
        BY <1>1 DEF EnrollInv, CommandKept
    <2>2. hadCmd /\ ~ cutOff' => cmd' /\ reloadCmd
        BY <1>3, <1>8, <2>1 DEF EnrollTypes
    <2>3. OwnCommand(opts)' => reloadCmd
        BY <1>1, <2>1 DEF OwnCommand
    <2> QED
        BY <1>1, <2>2, <2>3 DEF CommandKept
<1>16. LoadedSnippet'
    <2>1. ASSUME running > 0 PROVE running \in Attempts /\ disk["snippet"] # 0
        BY <2>1 DEF EnrollInv, LoadedSnippet
    <2>2. ASSUME running > 0 PROVE disk'["snippet"] # 0
        BY <1>3, <1>7, <2>1, <2>2
    <2>3. ASSUME running > 0, step = 7 PROVE old' # 0
        BY <1>1, <1>3, <1>8, <2>1, <2>3 DEF EnrollInv, OldInPlace
    <2> QED
        BY <1>1, <1>2, <2>1, <2>2, <2>3 DEF LoadedSnippet, AllWritten, Attempts
<1> QED
    BY <1>9, <1>10, <1>11, <1>12, <1>13, <1>14, <1>15, <1>16 DEF EnrollInv

(* A step between the places after the last file.                          *)
LEMMA MovesOn ==
    ASSUME EnrollInv, AllWritten, pc' \in Places, AllWritten',
           UNCHANGED <<token, attempt, row, cur, step, opts, disk, cmd, reloadCmd, old,
                       running, cutOff>>,
           excused' \in BOOLEAN, ~ excused' => ~ excused, hadCmd' \in BOOLEAN,
           hadCmd' /\ ~ cutOff => cmd, verified' \in BOOLEAN,
           ~ excused' /\ pc' \notin {"pam", "validate"} => Accepted(disk["snippet"]),
           pc' \in {"activate", "probing", "done"} /\ opts.sshd => attempt[cur].good,
           pc' # "done" => ~ verified',
           verified' => opts.sshd /\ running > 0
    PROVE  EnrollInv'
<1>1. EnrollTypes'
    BY DEF EnrollInv, EnrollTypes
<1>2. pc' \notin {"rest", "posting", "writing"} /\ pc # "rest"
    BY DEF AllWritten
<1>3. ServerSound' /\ TokensOnce' /\ HasAnswer'
    BY <1>2 DEF EnrollInv, ServerSound, TokensOnce, HasAnswer, Attempts
<1>4. FilesWritten' /\ OldInPlace'
    BY <1>2 DEF EnrollInv, FilesWritten, OldInPlace
<1>5. SnippetSafe'
    BY <1>2 DEF EnrollInv, SnippetSafe, OldRead, Accepted, Attempts
<1>6. Asked' /\ SeenLoaded'
    BY <1>2 DEF Asked, SeenLoaded
<1>7. CommandKept'
    BY <1>2 DEF CommandKept
<1>8. LoadedSnippet'
    BY DEF EnrollInv, LoadedSnippet, Attempts
<1> QED
    BY <1>1, <1>3, <1>4, <1>5, <1>6, <1>7, <1>8 DEF EnrollInv

(* The agent gives up, or a step fails, with the files as they are.        *)
LEMMA GivesUp ==
    ASSUME EnrollInv,
           NoAnswer \/ PAMFails \/ RestoreFails \/ ReloadFails \/ Again
    PROVE  EnrollInv'
<1>1. /\ Ends /\ token' = token /\ attempt' = attempt /\ row' = row /\ cmd' = cmd
      /\ running' = running /\ disk' = disk /\ hadCmd' = hadCmd /\ cutOff' = cutOff
    BY DEF NoAnswer, PAMFails, RestoreFails, ReloadFails, Again, serverVars, diskVars,
           sshdVars, history
<1>2. \/ excused' = TRUE
      \/ excused' = excused /\ pc \notin {"pam", "validate"}
    BY DEF NoAnswer, PAMFails, RestoreFails, ReloadFails, Again, history
<1>3. /\ disk \in [Files -> Int] /\ cmd \in BOOLEAN /\ cutOff \in BOOLEAN
      /\ excused' \in BOOLEAN
      /\ running > 0 => disk["snippet"] # 0
      /\ hadCmd /\ ~ cutOff => cmd
    BY <1>2 DEF EnrollInv, EnrollTypes, LoadedSnippet, CommandKept
<1>4. ~ excused' => Accepted(disk["snippet"])
    BY <1>2 DEF EnrollInv, SnippetSafe
<1> QED
    BY <1>1, <1>3, <1>4, ComesToRest

(* A write fails, or the agent is killed while it writes: the file is cut  *)
(* off or as it was.                                                       *)
LEMMA BreaksOff ==
    ASSUME EnrollInv, WriteFails \/ Killed PROVE EnrollInv'
<1>1. Ends /\ token' = token /\ attempt' = attempt /\ row' = row /\ running' = running
    BY DEF WriteFails, Killed, serverVars, sshdVars
<1>2. /\ EnrollTypes /\ Order[step] \in Files
      /\ Order[step] = "snippet" <=> step = 7
      /\ running > 0 => disk["snippet"] # 0
      /\ hadCmd /\ ~ cutOff => cmd
    BY OrderFacts, NamedFiles DEF EnrollInv, EnrollTypes, LoadedSnippet, CommandKept
<1>3. CASE pc = "writing" /\ CutOff
    <2> DEFINE f == Order[step]
    <2>1. /\ disk' = [disk EXCEPT ![f] = Torn] /\ hadCmd' = hadCmd
          /\ excused' = (excused \/ f = "snippet")
          /\ \/ cmd' \in {FALSE, reloadCmd} /\ cutOff' = TRUE
             \/ cmd' = cmd /\ cutOff' = cutOff
        BY <1>3 DEF CutOff
    <2>2. f \in Files
        BY <1>2
    <2> HIDE DEF f
    <2>3. /\ disk' \in [Files -> Int]
          /\ disk'["snippet"] = IF f = "snippet" THEN -1 ELSE disk["snippet"]
        BY <1>2, <2>1, <2>2, NamedFiles DEF EnrollTypes, Torn
    <2>4. cmd' \in BOOLEAN /\ cutOff' \in BOOLEAN /\ (hadCmd /\ ~ cutOff' => cmd')
        BY <1>2, <2>1 DEF EnrollTypes
    <2>5. excused' \in BOOLEAN /\ (~ excused' => ~ excused /\ f # "snippet")
        BY <1>2, <2>1 DEF EnrollTypes
    <2>6. ~ excused' => Accepted(disk'["snippet"])
        BY <1>3, <2>3, <2>5 DEF EnrollInv, SnippetSafe
    <2>7. running > 0 => disk'["snippet"] # 0
        BY <1>2, <2>3
    <2> QED
        BY <1>1, <2>1, <2>3, <2>4, <2>5, <2>6, <2>7, ComesToRest
<1>4. CASE /\ disk' = disk /\ cmd' = cmd /\ hadCmd' = hadCmd /\ cutOff' = cutOff
           /\ \/ pc = "writing" /\ excused' = excused
              \/ excused' = (excused \/ ~ Accepted(disk["snippet"]))
    <2>1. excused' \in BOOLEAN
        BY <1>2, <1>4 DEF EnrollTypes
    <2>2. ~ excused' => Accepted(disk["snippet"])
        BY <1>4 DEF EnrollInv, SnippetSafe
    <2> QED
        BY <1>1, <1>2, <1>4, <2>1, <2>2, ComesToRest DEF EnrollTypes
<1> QED
    BY <1>3, <1>4 DEF WriteFails, Killed, diskVars, history

(* sshd is asked; a snippet it refuses is replaced by the old one.         *)
LEMMA ValidateKeeps == ASSUME EnrollInv, Validate PROVE EnrollInv'
<1>1. /\ pc = "validate" /\ token' = token /\ attempt' = attempt /\ row' = row
      /\ cmd' = cmd /\ running' = running /\ hadCmd' = hadCmd /\ cutOff' = cutOff
    BY DEF Validate, serverVars, sshdVars
<1>2. AllWritten /\ EnrollTypes
    BY <1>1 DEF AllWritten, EnrollInv
<1>3. /\ disk["snippet"] = cur /\ cur \in Attempts /\ cur \in Nat \ {0}
      /\ attempt[cur] \in Recs
    BY <1>2, AllFiles, NamedFiles
<1>4. Accepted(disk["snippet"]) <=> attempt[cur].good
    BY <1>3 DEF Accepted
<1>5. CASE opts.sshd /\ ~ Accepted(disk["snippet"])
    <2>1. disk' = [disk EXCEPT !["snippet"] = old] /\ Ends /\ excused' = excused
        BY <1>5 DEF Validate, Restored
    <2>2. disk' \in [Files -> Int] /\ disk'["snippet"] = old
        BY <1>2, <2>1, NamedFiles DEF EnrollTypes
    <2>3. ~ excused => Accepted(old)
        BY <1>2 DEF EnrollInv, SnippetSafe, OldRead
    <2>4. running > 0 => old # 0
        BY <1>2, <1>4, <1>5 DEF EnrollInv, LoadedSnippet
    <2>5. hadCmd /\ ~ cutOff => cmd
        BY DEF EnrollInv, CommandKept
    <2> QED
        BY <1>1, <1>2, <2>1, <2>2, <2>3, <2>4, <2>5, ComesToRest DEF EnrollTypes
<1>6. CASE ~ (opts.sshd /\ ~ Accepted(disk["snippet"]))
    <2>1. /\ pc' = "activate" /\ disk' = disk
          /\ excused' = (excused \/ ~ opts.sshd)
          /\ cur' = cur /\ step' = step /\ opts' = opts /\ reloadCmd' = reloadCmd
          /\ old' = old /\ verified' = verified
        BY <1>6 DEF Validate, agentVars
    <2>2. excused' \in BOOLEAN /\ (~ excused' => ~ excused /\ opts.sshd)
        BY <1>2, <2>1 DEF EnrollTypes, Options
    <2>3. ~ verified
        BY <1>1 DEF EnrollInv, SeenLoaded
    <2>4. pc' \in Places /\ AllWritten'
        BY <2>1 DEF Places, AllWritten
    <2>5. (hadCmd /\ ~ cutOff => cmd) /\ hadCmd \in BOOLEAN /\ verified \in BOOLEAN
        BY DEF EnrollInv, CommandKept, EnrollTypes
    <2> QED
        BY <1>1, <1>2, <1>4, <1>6, <2>1, <2>2, <2>3, <2>4, <2>5, MovesOn
<1> QED
    BY <1>5, <1>6

(* The steps from the last file to the end.                                *)
LEMMA FinishKeeps ==
    ASSUME EnrollInv, WritePAM \/ Activate \/ ProbeCertificate \/ ProbeEnds \/ ProbeUnanswered
    PROVE  EnrollInv'
<1>1. /\ token' = token /\ attempt' = attempt /\ row' = row /\ disk' = disk /\ cmd' = cmd
      /\ running' = running /\ excused' = excused /\ cutOff' = cutOff
    BY DEF WritePAM, Activate, ProbeCertificate, ProbeEnds, ProbeUnanswered, serverVars,
           diskVars, sshdVars, history
<1>2. pc \in {"pam", "activate", "probing"} /\ AllWritten
    BY DEF WritePAM, Activate, ProbeCertificate, ProbeEnds, ProbeUnanswered, AllWritten
<1>3. /\ excused \in BOOLEAN /\ hadCmd \in BOOLEAN /\ cmd \in BOOLEAN
      /\ cutOff \in BOOLEAN
      /\ (hadCmd /\ ~ cutOff => cmd) /\ ~ verified /\ verified \in BOOLEAN
      /\ running \in Int
      /\ running > 0 => disk["snippet"] # 0
      /\ disk \in [Files -> Int]
    BY <1>2 DEF EnrollInv, EnrollTypes, CommandKept, SeenLoaded, LoadedSnippet
<1>4. ~ excused /\ pc # "pam" => Accepted(disk["snippet"])
    BY <1>2 DEF EnrollInv, SnippetSafe
<1>5. pc # "pam" /\ opts.sshd => attempt[cur].good
    BY <1>2 DEF EnrollInv, Asked
<1>6. CASE WritePAM
    <2>1. /\ pc' = "validate" /\ hadCmd' = hadCmd /\ verified' = verified
          /\ cur' = cur /\ step' = step /\ opts' = opts /\ reloadCmd' = reloadCmd
          /\ old' = old
        BY <1>6 DEF WritePAM, agentVars, history
    <2>2. pc' \in Places /\ AllWritten'
        BY <2>1 DEF Places, AllWritten
    <2> QED
        BY <1>1, <1>2, <1>3, <2>1, <2>2, MovesOn
<1>7. CASE Activate
    <2>1. /\ pc = "activate" /\ pc' = "probing" /\ hadCmd' = hadCmd /\ verified' = verified
          /\ cur' = cur /\ step' = step /\ opts' = opts /\ reloadCmd' = reloadCmd
          /\ old' = old
        BY <1>7 DEF Activate, history
    <2>2. pc' \in Places /\ AllWritten'
        BY <2>1 DEF Places, AllWritten
    <2> QED
        BY <1>1, <1>2, <1>3, <1>4, <1>5, <2>1, <2>2, MovesOn
<1>8. CASE ProbeCertificate
    <2>1. /\ pc = "probing" /\ pc' = "done" /\ hadCmd' = (hadCmd \/ cmd) /\ verified' = TRUE
          /\ opts.sshd /\ running > 0
          /\ cur' = cur /\ step' = step /\ opts' = opts /\ reloadCmd' = reloadCmd
          /\ old' = old
        BY <1>8 DEF ProbeCertificate, Succeeds, ServesCertificate
    <2>2. pc' \in Places /\ AllWritten'
        BY <2>1 DEF Places, AllWritten
    <2>3. hadCmd' \in BOOLEAN /\ (hadCmd' /\ ~ cutOff => cmd) /\ verified' \in BOOLEAN
        BY <1>3, <2>1
    <2> QED
        BY <1>1, <1>2, <1>3, <1>4, <1>5, <2>1, <2>2, <2>3, MovesOn
<1>9. CASE Ends /\ hadCmd' = hadCmd /\ pc = "probing"
    BY <1>1, <1>3, <1>4, <1>9, ComesToRest
<1>10. CASE pc = "probing" /\ Succeeds /\ UNCHANGED agentVars
    <2>1. pc' = "done" /\ hadCmd' = (hadCmd \/ cmd) /\ verified' = verified
        BY <1>10 DEF Succeeds, agentVars
    <2>2. pc' \in Places /\ AllWritten'
        BY <2>1 DEF Places, AllWritten
    <2>3. hadCmd' \in BOOLEAN /\ (hadCmd' /\ ~ cutOff => cmd)
        BY <1>3, <2>1
    <2>4. cur' = cur /\ step' = step /\ opts' = opts /\ reloadCmd' = reloadCmd /\ old' = old
        BY <1>10 DEF agentVars
    <2> QED
        BY <1>1, <1>2, <1>3, <1>4, <1>5, <1>10, <2>1, <2>2, <2>3, <2>4, MovesOn
<1> QED
    BY <1>6, <1>7, <1>8, <1>9, <1>10 DEF ProbeEnds, ProbeUnanswered

(* sshd reads its configuration, at any moment.                            *)
LEMMA RereadKeeps == ASSUME EnrollInv, Reread PROVE EnrollInv'
<1>1. /\ running' = IF Accepted(disk["snippet"]) THEN disk["snippet"] ELSE Down
      /\ pc' = pc /\ attempt' = attempt /\ row' = row /\ cur' = cur /\ token' = token
      /\ step' = step /\ disk' = disk /\ cmd' = cmd /\ reloadCmd' = reloadCmd /\ old' = old
      /\ verified' = verified /\ excused' = excused /\ hadCmd' = hadCmd
      /\ opts' = opts /\ cutOff' = cutOff
    BY DEF Reread, serverVars, agentVars, diskVars, history
<1>2. EnrollTypes /\ disk["snippet"] \in Int
    BY NamedFiles DEF EnrollInv, EnrollTypes
<1>3. running' \in Int
    BY <1>1, <1>2 DEF Down
<1>4. EnrollTypes'
    BY <1>1, <1>2, <1>3 DEF EnrollTypes
<1>5. /\ ServerSound' /\ TokensOnce' /\ HasAnswer' /\ FilesWritten' /\ OldInPlace' /\ Asked'
      /\ CommandKept'
    BY <1>1 DEF EnrollInv, ServerSound, TokensOnce, OwnCommand, HasAnswer, FilesWritten, OldInPlace, Asked,
                CommandKept, AllWritten, Attempts
<1>6. SnippetSafe'
    BY <1>1 DEF EnrollInv, SnippetSafe, OldRead, AllWritten, Accepted, Attempts
<1>7. ASSUME running' > 0
      PROVE  /\ Accepted(disk["snippet"]) /\ running' = disk["snippet"]
             /\ disk["snippet"] # 0 /\ running' \in Attempts /\ attempt[running'].good
    BY <1>1, <1>2, <1>7 DEF Accepted, Down
<1>8. AllWritten => disk["snippet"] = cur
    BY AllFiles, NamedFiles
<1>9. LoadedSnippet'
    BY <1>1, <1>7, <1>8 DEF LoadedSnippet, AllWritten, Attempts
<1>10. SeenLoaded'
    <2>1. ASSUME pc = "done", verified PROVE opts.sshd /\ running' > 0
        <3>1. opts.sshd /\ attempt[cur].good
            BY <2>1 DEF EnrollInv, SeenLoaded, Asked
        <3>2. AllWritten
            BY <2>1 DEF AllWritten
        <3>3. disk["snippet"] = cur /\ cur \in Attempts /\ cur \in Nat \ {0}
            BY <1>8, <3>2, AllFiles
        <3>4. running' = cur
            BY <1>1, <3>1, <3>3 DEF Accepted
        <3> QED
            BY <3>1, <3>3, <3>4
    <2> QED
        BY <1>1, <2>1 DEF EnrollInv, SeenLoaded
<1> QED
    BY <1>4, <1>5, <1>6, <1>9, <1>10 DEF EnrollInv

-----------------------------------------------------------------------------
(* Every step keeps the invariant.                                         *)
LEMMA NextEnrollInv == EnrollInv /\ [EnrollNext]_enrollVars => EnrollInv'
<1> SUFFICES ASSUME EnrollInv, [EnrollNext]_enrollVars PROVE EnrollInv'
    OBVIOUS
<1>1. CASE UNCHANGED enrollVars
    BY <1>1 DEF enrollVars, serverVars, agentVars, diskVars, sshdVars, history, EnrollInv,
                EnrollTypes, ServerSound, TokensOnce, OwnCommand, HasAnswer, FilesWritten, OldInPlace, SnippetSafe, Asked,
                CommandKept, LoadedSnippet, SeenLoaded, OldRead, AllWritten, Accepted,
                Attempts
<1>2. CASE EnrollNext
    BY <1>2, ServerActions, BeginKeeps, ReceiveKeeps, WriteNextKeeps, ValidateKeeps,
       FinishKeeps, GivesUp, BreaksOff, RereadKeeps
       DEF EnrollNext, AgentStep, SshdReload, SshdRestart
<1> QED
    BY <1>1, <1>2

(* The invariant holds throughout.                                         *)
THEOREM EnrollInvHolds == EnrollSpec => []EnrollInv
<1>1. EnrollInit => EnrollInv
    BY InitEnrollInv
<1>2. EnrollInv /\ [EnrollNext]_enrollVars => EnrollInv'
    BY NextEnrollInv
<1> QED
    BY <1>1, <1>2, PTL DEF EnrollSpec

(* An enrollment that ends leaves a snippet with which sshd starts, unless *)
(* a fault kept it from asking sshd or from rolling back.                  *)
THEOREM RestsValidAlways == EnrollSpec => []RestsValid
<1>1. EnrollInv => RestsValid
    BY DEF EnrollInv, SnippetSafe, RestsValid
<1> QED
    BY <1>1, EnrollInvHolds, PTL

(* When enroll reports success the files are all of this attempt, the      *)
(* server has the host, the token has enrolled no other attempt, and a     *)
(* stored reload command is still there unless config.yaml was cut off,    *)
(* for any number of attempts that failed or were killed in between.       *)
THEOREM SuccessIsConsistent == EnrollSpec => []DoneIsConsistent
<1>1. EnrollInv => DoneIsConsistent
    <2> SUFFICES ASSUME EnrollInv, pc = "done" PROVE DoneIsConsistent
        BY DEF DoneIsConsistent
    <2>1. AllWritten
        BY DEF AllWritten
    <2>2. cur \in Attempts /\ attempt[cur].name = MyName /\ attempt[cur].st = "answered"
        BY <2>1 DEF EnrollInv, HasAnswer
    <2>3. attempt[cur].won /\ row[MyName] # 0
        BY <2>2 DEF EnrollInv, ServerSound
    <2>4. \A b \in Attempts : attempt[b].won /\ attempt[b].tok = attempt[cur].tok => b = cur
        BY <2>2, <2>3 DEF EnrollInv, TokensOnce
    <2>5. hadCmd /\ ~ cutOff => cmd
        BY DEF EnrollInv, CommandKept
    <2> QED
        BY <2>1, <2>3, <2>4, <2>5, AllFiles DEF DoneIsConsistent
<1> QED
    BY <1>1, EnrollInvHolds, PTL

(* When enroll reports a certificate, the running daemon has loaded a      *)
(* snippet of guided-ssh, on a first enrollment the one just written.      *)
THEOREM ReportedIsLoaded == EnrollSpec => []VerifiedIsLoaded
<1>1. EnrollInv => VerifiedIsLoaded
    BY DEF EnrollInv, LoadedSnippet, SeenLoaded, AllWritten, VerifiedIsLoaded
<1> QED
    BY <1>1, EnrollInvHolds, PTL
=============================================================================
