----------------------------- MODULE Enrollment -----------------------------
(***************************************************************************)
(* Enrollment of a host, from the token to the running sshd: the server's  *)
(* handler (internal/api/enroll.go over internal/store/enrollment.go) and  *)
(* `gssh-agentd enroll` (internal/agentd/enroll.go, sshd.go).              *)
(*                                                                         *)
(* The agent of one machine is followed step by step; other machines only  *)
(* compete for the tokens and host names.  Attempts are numbered, and a    *)
(* file holds the number of the attempt that wrote it, 0 if it is absent.  *)
(* An answer may be lost or late, a write may fail halfway, the agent may  *)
(* be killed anywhere, and sshd may be restarted at any time.              *)
(***************************************************************************)
EXTENDS Integers, Sequences, FiniteSets

CONSTANTS Tokens,       \* enrollment tokens
          Names,        \* host names
          Bound,        \* the name a token is bound to, or Unbound
          Unbound,
          MyName,       \* the name of the machine that is followed
          MaxAttempts,  \* bound on the enrollment attempts
          MaxFaults     \* bound on the failures

ASSUME EnrollAssumption == /\ Bound \in [Tokens -> Names \cup {Unbound}]
                           /\ MyName \in Names /\ Unbound \notin Names
                           /\ {MaxAttempts, MaxFaults} \subseteq Nat

VARIABLES token,     \* by token: used_at and expires_at
          row,       \* by name: the attempt that wrote the row of hosts
          attempt,   \* the requests made so far, and where the handler is
          faults,    \* counter for the bound
          pc,        \* where the agent is
          cur,       \* its attempt
          step,      \* the next file it writes
          disk,      \* the files
          cmd,       \* config.yaml, if it can be parsed, has a reload_command
          opts,      \* its options, and what it finds on the machine
          reloadCmd, \* it uses and stores a reload command
          old,       \* the snippet readSnippet found
          running,   \* the snippet sshd has loaded, or Down
          hup,       \* sshd has been told to reload and has not yet
          reloaded,  \* this attempt has reloaded
          verified,  \* this attempt has reported a host certificate
          excused,   \* history: a fault, or having no sshd to ask, may have
                     \* left a bad snippet
          hadCmd,    \* history: a successful enrollment stored a command
          cutOff     \* history: config.yaml was cut off, and no command found
                     \* anew has been written to it since

serverVars == <<token, row, attempt>>
agentVars == <<cur, step, opts, reloadCmd, old, reloaded, verified>>
diskVars == <<disk, cmd>>
sshdVars == <<running, hup>>
history == <<excused, hadCmd, cutOff>>
enrollVars == <<serverVars, faults, pc, agentVars, diskVars, sshdVars, history>>

(* Markers next to the attempt numbers.                                    *)
Torn == -1
Down == -2

(* The files in the order writeState and writeSSHDFiles write them.        *)
Order == <<"key", "cert", "ca", "config", "hostcert", "bundle", "snippet">>

Files == {Order[i] : i \in DOMAIN Order}

Attempts == DOMAIN attempt

(* sshd: whether resolveSSHD finds the binary; command: --reload-command is*)
(* given, or detectReloadCommand finds one; noReload: --no-reload.         *)
Options == [sshd : BOOLEAN, command : {"given", "detected", "none"}, noReload : BOOLEAN]

NoOptions == [sshd |-> FALSE, command |-> "none", noReload |-> FALSE]

(* Would sshd -t accept this snippet?                                      *)
Accepted(s) == s = 0 \/ (s \in Attempts /\ attempt[s].good)

(* The process ends, in whatever way: nothing of it is left in memory.     *)
Ends == /\ pc' = "rest" /\ cur' = 0 /\ step' = 1 /\ opts' = NoOptions
        /\ reloadCmd' = FALSE /\ old' = 0 /\ reloaded' = FALSE /\ verified' = FALSE

EnrollInit ==
    /\ token = [t \in Tokens |-> "unused"]
    /\ row = [n \in Names |-> 0]
    /\ attempt = <<>> /\ faults = 0
    /\ pc = "rest" /\ cur = 0 /\ step = 1 /\ opts = NoOptions
    /\ reloadCmd = FALSE /\ old = 0 /\ reloaded = FALSE /\ verified = FALSE
    /\ disk = [f \in Files |-> 0] /\ cmd = FALSE
    /\ running = 0 /\ hup = FALSE
    /\ excused = FALSE /\ hadCmd = FALSE /\ cutOff = FALSE

Fault == faults < MaxFaults /\ faults' = faults + 1

-----------------------------------------------------------------------------
(* The server.                                                             *)

Expire(t) ==
    /\ token[t] = "unused"
    /\ token' = [token EXCEPT ![t] = "expired"]
    /\ UNCHANGED <<row, attempt, faults, pc, agentVars, diskVars, sshdVars, history>>

(* Another machine sends a request.                                        *)
Elsewhere(t, n) ==
    /\ Len(attempt) < MaxAttempts
    /\ attempt' = Append(attempt, [tok |-> t, name |-> n, st |-> "sent", won |-> FALSE,
                                   good |-> TRUE])
    /\ UNCHANGED <<token, row, faults, pc, agentVars, diskVars, sshdVars, history>>

(* The WHERE clause of the UPDATE that consumes the token.                 *)
Usable(t) == token[t] = "unused"

(* EnrollHost, one transaction; ErrNotFound and ErrTokenHostMismatch roll  *)
(* it back.                                                                *)
EnrollHost(a) ==
    LET r == attempt[a]
    IN /\ a \in Attempts /\ r.st = "sent"
       /\ IF Usable(r.tok) /\ Bound[r.tok] \in {Unbound, r.name}
          THEN /\ token' = [token EXCEPT ![r.tok] = "used"]
               /\ row' = [row EXCEPT ![r.name] = a]
               /\ attempt' = [attempt EXCEPT ![a] = [r EXCEPT !.st = "enrolled", !.won = TRUE]]
          ELSE /\ attempt' = [attempt EXCEPT ![a].st = "rejected"]
               /\ UNCHANGED <<token, row>>
       /\ UNCHANGED <<faults, pc, agentVars, diskVars, sshdVars, history>>

(* The host certificate, the mTLS certificate, the bundles, the answer.    *)
IssueCerts(a) ==
    /\ a \in Attempts /\ attempt[a].st = "enrolled"
    /\ attempt' = [attempt EXCEPT ![a].st = "answered"]
    /\ UNCHANGED <<token, row, faults, pc, agentVars, diskVars, sshdVars, history>>

(* The database fails, before the token is consumed or after it.           *)
HandlerFails(a) ==
    /\ a \in Attempts /\ attempt[a].st \in {"sent", "enrolled"}
    /\ Fault
    /\ attempt' = [attempt EXCEPT ![a].st = "rejected"]
    /\ UNCHANGED <<token, row, pc, agentVars, diskVars, sshdVars, history>>

-----------------------------------------------------------------------------
(* The agent.                                                              *)

(* Enroll up to the request.  good: whether sshd accepts the snippet of    *)
(* this attempt.                                                           *)
Begin(t, good, o) ==
    /\ pc = "rest" /\ Len(attempt) < MaxAttempts
    /\ attempt' = Append(attempt, [tok |-> t, name |-> MyName, st |-> "sent", won |-> FALSE,
                                   good |-> good])
    /\ pc' = "posting" /\ cur' = Len(attempt) + 1 /\ opts' = o
    /\ UNCHANGED <<token, row, faults, step, reloadCmd, old, reloaded, verified, diskVars,
                   sshdVars, history>>

(* postEnroll: an error answer, or the client's timeout while the server   *)
(* goes on.                                                                *)
NoAnswer ==
    /\ pc = "posting"
    /\ Ends
    /\ UNCHANGED <<serverVars, faults, diskVars, sshdVars, history>>

(* A command of this attempt's own: a given one is taken whatever          *)
(* --no-reload says, and only without --no-reload is one looked for.       *)
OwnCommand(o) == o.command = "given" \/ (o.command = "detected" /\ ~o.noReload)

(* A mutant: the command of an earlier enrollment is not carried over.     *)
ForgetCommand(o) == OwnCommand(o)

(* Without one, what config.yaml has (previousReloadCommand).              *)
ReloadCommand(o) == OwnCommand(o) \/ cmd

Receive ==
    /\ pc = "posting" /\ attempt[cur].st = "answered"
    /\ pc' = "writing"
    /\ reloadCmd' = ReloadCommand(opts)
    /\ UNCHANGED <<serverVars, faults, cur, step, opts, old, reloaded, verified, diskVars,
                   sshdVars, history>>

(* writeState and writeSSHDFiles, file by file; the old snippet is read    *)
(* between the two.                                                        *)
WriteNext ==
    LET f == Order[step]
    IN /\ pc = "writing"
       /\ disk' = [disk EXCEPT ![f] = cur]
       /\ IF f = "config" THEN cmd' = reloadCmd /\ cutOff' = (cutOff /\ ~OwnCommand(opts))
                          ELSE UNCHANGED <<cmd, cutOff>>
       /\ old' = IF f = "hostcert" THEN disk["snippet"] ELSE old
       /\ IF step = Len(Order) THEN pc' = "pam" /\ step' = 1
                               ELSE pc' = pc /\ step' = step + 1
       /\ UNCHANGED <<serverVars, faults, cur, opts, reloadCmd, reloaded, verified,
                      sshdVars, excused, hadCmd>>

(* The file being written is cut off: os.WriteFile empties it first.  The  *)
(* reload command is in the part of config.yaml that is left, or is not.   *)
CutOff ==
    LET f == Order[step]
    IN /\ disk' = [disk EXCEPT ![f] = Torn]
       /\ excused' = (excused \/ f = "snippet")
       /\ IF f = "config" THEN cmd' \in {FALSE, reloadCmd} /\ cutOff' = TRUE
                          ELSE UNCHANGED <<cmd, cutOff>>
       /\ UNCHANGED hadCmd

(* A write fails: the file is as it was, or cut off; nothing is undone.    *)
WriteFails ==
    /\ pc = "writing" /\ Fault
    /\ CutOff \/ UNCHANGED <<diskVars, history>>
    /\ Ends
    /\ UNCHANGED <<serverVars, sshdVars>>

(* writePAMFiles, last: a failure returns before the snippet is validated. *)
WritePAM ==
    /\ pc = "pam"
    /\ pc' = "validate"
    /\ UNCHANGED <<serverVars, faults, agentVars, diskVars, sshdVars, history>>

PAMFails ==
    /\ pc = "pam" /\ Fault
    /\ Ends
    /\ excused' = TRUE
    /\ UNCHANGED <<serverVars, diskVars, sshdVars, hadCmd, cutOff>>

(* A mutant: the snippet that was refused stays.                           *)
KeepSnippet == disk["snippet"]

(* restoreSnippet: the old one, or none if there was none.                 *)
Restored == old

(* validateSSHDConfig, and the rollback when sshd refuses.                 *)
Validate ==
    /\ pc = "validate"
    /\ IF opts.sshd /\ ~Accepted(disk["snippet"])
       THEN /\ disk' = [disk EXCEPT !["snippet"] = Restored]
            /\ Ends
            /\ UNCHANGED excused
       ELSE /\ pc' = "activate"
            /\ excused' = (excused \/ ~opts.sshd)
            /\ UNCHANGED <<disk, agentVars>>
    /\ UNCHANGED <<serverVars, faults, cmd, sshdVars, hadCmd, cutOff>>

(* The rollback is best effort.                                            *)
RestoreFails ==
    /\ pc = "validate" /\ opts.sshd /\ ~Accepted(disk["snippet"])
    /\ Fault
    /\ Ends
    /\ excused' = TRUE
    /\ UNCHANGED <<serverVars, diskVars, sshdVars, hadCmd, cutOff>>

(* activateSSHD: the command only sends a signal.                          *)
Activate ==
    LET reload == reloadCmd /\ ~opts.noReload
    IN /\ pc = "activate"
       /\ pc' = "probing"
       /\ reloaded' = reload
       /\ hup' = (hup \/ (reload /\ running # Down))
       /\ UNCHANGED <<serverVars, faults, cur, step, opts, reloadCmd, old, verified,
                      diskVars, running, history>>

ReloadFails ==
    /\ pc = "activate" /\ reloadCmd /\ ~opts.noReload
    /\ Fault
    /\ Ends
    /\ UNCHANGED <<serverVars, diskVars, sshdVars, history>>

Succeeds == pc' = "done" /\ hadCmd' = (hadCmd \/ cmd)

(* A mutant: the files are probed, as sshd -T would.                       *)
ServesOnDisk == disk["snippet"] > 0

(* The answer of the running daemon to a probe.                            *)
ServesCertificate == running > 0

(* probeRunningSSHD: a certificate ends it well,                           *)
ProbeCertificate ==
    /\ pc = "probing" /\ opts.sshd
    /\ ServesCertificate
    /\ verified' = TRUE
    /\ Succeeds
    /\ UNCHANGED <<serverVars, faults, cur, step, opts, reloadCmd, old, reloaded, diskVars,
                   sshdVars, excused, cutOff>>

(* A mutant: after a reload the probe goes on until there is a certificate.*)
ProbeForever ==
    /\ pc = "probing" /\ ~reloaded /\ (opts.sshd => ~ServesCertificate)
    /\ Succeeds
    /\ UNCHANGED <<serverVars, faults, agentVars, diskVars, sshdVars, excused, cutOff>>

(* the deadline ends it - at once when nothing was reloaded - with an      *)
(* error if a reloaded daemon answers with a plain key.  Not reaching it   *)
(* is inconclusive, and so is having no binary.                            *)
ProbeEnds ==
    /\ pc = "probing" /\ (opts.sshd => ~ServesCertificate)
    /\ IF opts.sshd /\ reloaded /\ running = 0
       THEN Ends /\ UNCHANGED hadCmd
       ELSE Succeeds /\ UNCHANGED agentVars
    /\ UNCHANGED <<serverVars, faults, diskVars, sshdVars, excused, cutOff>>

(* A daemon that runs but listens elsewhere or behind a firewall.          *)
ProbeUnanswered ==
    /\ pc = "probing" /\ opts.sshd
    /\ Succeeds
    /\ UNCHANGED <<serverVars, faults, agentVars, diskVars, sshdVars, excused, cutOff>>

(* The command has ended; the next one may begin.                          *)
Again ==
    /\ pc = "done"
    /\ Ends
    /\ UNCHANGED <<serverVars, faults, diskVars, sshdVars, history>>

(* The agent is killed; a file it was writing may be cut off.              *)
Killed ==
    /\ pc \notin {"rest", "done"} /\ Fault
    /\ \/ pc = "writing" /\ CutOff
       \/ /\ excused' = (excused \/ ~Accepted(disk["snippet"]))
          /\ UNCHANGED <<diskVars, hadCmd, cutOff>>
    /\ Ends
    /\ UNCHANGED <<serverVars, sshdVars>>

-----------------------------------------------------------------------------
(* sshd.                                                                   *)

(* It reads its configuration: after the signal, or because it is          *)
(* restarted.  A bad configuration ends it.                                *)
Reread ==
    /\ running' = IF Accepted(disk["snippet"]) THEN disk["snippet"] ELSE Down
    /\ hup' = FALSE
    /\ UNCHANGED <<serverVars, pc, agentVars, diskVars, history>>

SshdReload == hup /\ Reread /\ UNCHANGED faults

SshdRestart == Fault /\ Reread

AgentStep == \/ NoAnswer \/ Receive \/ WriteNext \/ WritePAM \/ Validate
             \/ Activate \/ ProbeCertificate \/ ProbeEnds

EnrollNext ==
    \/ \E t \in Tokens : \/ Expire(t)
                         \/ \E n \in Names : Elsewhere(t, n)
                         \/ \E good \in BOOLEAN, o \in Options : Begin(t, good, o)
    \/ \E a \in 1..MaxAttempts : EnrollHost(a) \/ IssueCerts(a) \/ HandlerFails(a)
    \/ AgentStep \/ ProbeUnanswered \/ Again
    \/ WriteFails \/ PAMFails \/ RestoreFails \/ ReloadFails \/ Killed
    \/ SshdReload \/ SshdRestart

(* The agent runs, the client's timeout and the probe's deadline included; *)
(* sshd -t and the reload command are taken to return.                     *)
EnrollSpec == EnrollInit /\ [][EnrollNext]_enrollVars /\ WF_enrollVars(AgentStep)

-----------------------------------------------------------------------------
(* An enrollment that does not succeed leaves no snippet behind that would *)
(* take sshd down on its next restart; only a fault can, or a machine      *)
(* where there is no sshd to ask.                                          *)
RestsValid == pc \in {"rest", "done"} /\ ~excused => Accepted(disk["snippet"])

(* When enroll reports success, key, certificates, CA, configuration and   *)
(* snippet are all of this attempt, the server has the host, no other      *)
(* attempt, on any machine, has enrolled with the same token, and a reload *)
(* command that an earlier enrollment stored is still there, whatever the  *)
(* attempts that failed or were killed in between left behind - with one   *)
(* exception: "An existing reload_command from a previous enrollment is    *)
(* never dropped" (docs/enrollment-guide.md:167, enroll.go:139), but       *)
(* config.yaml holds the only copy of it, and os.WriteFile empties the     *)
(* file before it writes.  An attempt that breaks off there loses the      *)
(* command, and the next one that finds none of its own stores none.       *)
DoneIsConsistent == pc = "done" =>
    /\ \A f \in Files : disk[f] = cur
    /\ attempt[cur].won /\ row[MyName] # 0
    /\ \A b \in Attempts : attempt[b].won /\ attempt[b].tok = attempt[cur].tok => b = cur
    /\ hadCmd /\ ~cutOff => cmd

(* When enroll reports the certificate as served, the running daemon has   *)
(* loaded a snippet of guided-ssh - on a first enrollment the one just     *)
(* written - although the reload is only a signal and the probe races it.  *)
(* The probe takes any host certificate for ours (sshd.go:258): the        *)
(* machine is taken to have no HostCertificate of another origin.          *)
VerifiedIsLoaded == pc = "done" /\ verified =>
    /\ running \in Attempts
    /\ old = 0 => running = cur

(* Enroll returns: waiting for the server and for sshd is bounded.         *)
EnrollEnds == (pc = "posting") ~> (pc \in {"rest", "done"})
=============================================================================
