# Verification of guided-ssh

TLA+ specifications of the parts of guided-ssh in which several actors, a
network or a crash meet shared state, TLC configurations that check them on
small instances, and TLAPS proofs of the results that matter most for every
value of the constants.

guided-ssh issues short-lived SSH certificates. A server (several replicas on
one PostgreSQL database) maps identity-provider users and groups to access
rules and signs certificates; an agent on every host (`gssh-agentd`) keeps the
host's certificates and trusted CA keys current and tells sshd which
principals may log in; the CLIs and a web UI are clients of the server.

## Inventory

| Component | State it keeps | Operations | What is hard | What makes it correct |
|---|---|---|---|---|
| Agent: principals path (`agentd/daemon.go`, `principals.go`) | cache in memory, cache file | socket lookup, API call, persist, load at start | concurrent lookups, answers out of order, deadlines, file written outside the lock, restarts | an answer is never staler than a known bound; every lookup ends |
| Agent: maintenance loop (`agentd/daemon.go`, `client.go`) | mTLS key and certificate files, the loaded pair, host certificate file and the one sshd serves, CA bundle file, tickers | bundle refresh, host renewal and reload, mTLS rotation, heartbeat | two files replaced one after the other, crash between, the channel depends on what it renews | the agent never locks itself out; certificates and bundle stay current |
| Agent: session audit (`agentd/session.go`, `pam.go`) | spool file, recent login serials | append, flush, requeue | handlers against the flush loop, lost answers, limits that must fit together | events are kept in order, none vanishes without a fault, the backlog drains |
| Agent: enrollment (`agentd/enroll.go`, `sshd.go`) | state directory, sshd snippet | enroll, validate, roll back, reload, probe | several files, partial failure | a failed enrollment leaves sshd usable |
| Server: identity (`auth/mapper.go`, `auth/sync.go`, `store/users.go`) | tables users, groups, user_groups | EnsureUser at every request, group sync per replica | read-modify-write across statements, overlapping transactions | offboarding and group changes take effect; nobody gains a group the IdP never gave |
| Server: CA keys (`ca/ca.go`, `store/ca_keys.go`) | table ca_keys, signer cache per replica | bootstrap, Rotate, RetireKey, Issue, adopt external keys | replicas without coordination, operations that break off | always a key to sign with; an operation takes effect where it ran |
| Server: signing and policy (`api/sign.go`, `sign_ci.go`, `ca/policy.go`) | certificates, audit events | sign user, sign CI, sign host | boundaries of validity intervals | a certificate never outlives policy and grants |
| Server: access rules (`store/grants.go`, `ci_grants.go`, `rulesync`) | grant tables | create, update, delete, apply a rule file | replicas apply the same file at once | the tables end up as the file says |
| Server: enrollment (`api/enroll.go`, `store/enrollment.go`, `ca/mtls.go`) | enrollment tokens, hosts, host_tags | mint, consume, re-enroll, issue agent certificate | single use against partial failure; replicas pin the mTLS CA at start | a token enrols at most one host |
| Server: edge (`api/ratelimit.go`, `api/pinprovider.go`, `proxytrust`, `auditstream`) | token buckets, cached pin, resolved addresses, stream cursor | limit, dial, resolve, drain | check and debit apart, dials and resolutions that overlap, ids committed out of order | budgets hold, the pin never goes back, the trusted set follows the DNS, no event streamed twice or skipped |
| Web UI login (`api/ui_auth.go`, `auth/flow.go`) | state and session cookies | login, callback, logout, me | one state cookie for all tabs, responses out of order, twelve-hour sessions against group changes | a session comes from an attempt of the same browser that matched in time; a login fails for its state only for a reason |

How they interact: the agent calls the server over mTLS (principals, bundle,
renew, renew-mtls, sessions, heartbeat); sshd calls the agent through the
helper and pam; requests and the group sync share the identity tables;
`ListAuthorizedPrincipals` turns identity tables and grants into what the
agent caches; the CA's bundle is what the agent writes to
`TrustedUserCAKeys`.

`PROJECT.json` lists every component with its status and, under `hazards`,
the lines where the difficulties bite and the properties that watch them.

## Modules

A module models one component, and the `MC` modules with their cfg files hold
the instances TLC checks. Proofs are in modules of their own: `<Module>Proofs`
for one component, `ServerPartsProofs` for `PinProvider`, `UILogin`,
`ProxyTrust`, `AuditStream` and `SessionTrail`, `SigningPathProofs` for
`Signing`, `SelfManagedCA`, `RateLimit` and `AccessRules`. Definitions called
"a mutant" are deliberate errors that no specification uses; replacing the
definition after them by the mutant must break the property named in
`PROJECT.json`.

| Module | Models | Instance |
|---|---|---|
| `PrincipalsCache` | principals lookups of the agent | `MCPrincipalsCache` |
| `Identity` | user mapping, group sync, UI sessions as tokens | `MCIdentity` |
| `CAKeys` | CA keys in managed mode | `MCSigning`, `MCCAKeys` |
| `SelfManagedCA` | CA keys mounted as files | `MCSigning` |
| `RateLimit` | limiter in front of the unauthenticated endpoints | `MCSigning` |
| `Signing`, `CIMatching` | signing endpoints and policy; grant matching | `MCSigning` |
| `AccessRules` | rule file, rule sync, admin API, grant tables | `MCAccessRules` |
| `Enrollment` | token, host row, the agent's files, sshd | `MCEnrollment` |
| `AgentMaintenance` | the agent's loop after enrollment | `MCAgentMaintenance` |
| `SessionSpool` | session events from host to server | `MCSessionSpool` |
| `SessionTrail` | which certificate a session has, session rows | `MCServerParts` |
| `PinProvider`, `PinRegister` | public pin, and what it promises | `MCServerParts` |
| `AuditStream` | audit log as a stream | `MCServerParts` |
| `ProxyTrust` | trusted PROXY peers | `MCServerParts` |
| `UILogin` | cookies of the web login | `MCServerParts` |

`MCSigning` and `MCServerParts` hold several modules that share no state that
changes. A variable `focus` chooses in the initial state which of them a
behaviour follows, so their state spaces add up and do not multiply; every
invariant is evaluated in all of them. `MCEnrollment` uses it to follow one
module under two heads, and `MCServerParts` does so for `SessionTrail`.

### PrincipalsCache

`cache` is `d.cache`, `disk` the cache file (an unreadable file loads as an
empty cache), `lookup[l]` the goroutine of one socket request with its local
variables, `acl` what the server would answer now. `StartCall`,
`ServerReads`, `ReceiveAnswer` split `Daemon.principals` at the lock and at
the network: the answer is computed at one instant and arrives at another.
`ServeFallback` and `Deny` are the two ends of a failed call, `Marshal`,
`Truncate`, `Fill` and `WriteFails` are `persistCache`, `Restart` is a crash
and `loadCache`. Two history variables carry the properties: `lastHeld[u][p]`,
when the server last held list `p` for `u`, and `served`, how old the last
answer was and which path gave it. Age is measured where the daemon decides;
the write of the cache file, which precedes the reply, has no deadline in the
code and is not counted.

Checked: `RevocationReachesHost` (an answer lags the server by less than
`ApiTimeout + max(CacheTTL, MinFresh)`), `OnlineLag` (less than
`MinFresh + ApiTimeout` unless it came from the fallback), `CacheHonest` (no
entry in memory, on disk, in a snapshot or in hand is stamped later than
`ApiTimeout` after the server last held its list), `LookupsEnd`.

Bounds: one user (users do not interact except in the snapshot that is
written), two lists, two concurrent lookups, time up to 3 with
`MinFresh = ApiTimeout = 1`, `CacheTTL = 2`: enough for an entry to be fetched
late, age past each of the limits, be written, reloaded and served. Fairness:
a goroutine keeps running and its call ends with its context's deadline; the
server need never answer.

### Identity

`row` and `groups` are the tables, `req[r]` a request in `EnsureUser`, `sync[s]`
a pass of `SyncOnce`, `tx[p]` an open `SetUserGroups` transaction with the
memberships its DELETE can see (READ COMMITTED: what commits later survives
the DELETE, and inserting a survivor again fails on the primary key). The
identity provider is external: it edits accounts and issues tokens, and UI
sessions are tokens that live long. A sync whose statement fails ends its pass
(`SyncConflict`, `SyncFault`); the next tick starts another.

Checked: `NoEscalation`, `OffboardingConverges`, `GroupsConverge`. The last two
say that once the identity provider's account stays as it is and no older
token or session is left, the tables settle on it - whatever happened before.
The run `identity_reactivation` refutes the comment of `EnsureUser` that a
login never reactivates a user: `UpdateUser` writes the active flag it read
before the sync changed it. The convergence property shows how far that goes:
the next pass repairs it.

Bounds: one subject with four account states (a member of the granted group,
renamed and moved, disabled, without groups), two changes, one request and one
sync pass at a time, one failed sync, one valid token at a time. With one
request the failing branch of `CreateUser` (two first logins) is not taken; it
is with `Requests = {r1, r2}`. Fairness: requests run to their end or fail, and
the ticker of `Syncer.Run` keeps starting passes.

### CAKeys

One purpose in managed mode. `state[k]` is the column `ca_keys.state`, keys
are numbered in order of creation; `boot`, `op` and `issue` are the program
counters of `EnsureCAKeys`, of the lifecycle operation and of an `Issue` call
on each replica; `mu` and `signer` are `ca.mu` and `ca.signers`. `done` is a
history of the keys a replica has rotated away from or retired by operations
that returned no error. `RetireFrom` is the operator's discipline: `RetireKey`
itself accepts any key; `{"retiring"}` is the order the operations manual
gives (rotate, then retire).

`settled` is a history of the keys that were retired while no rotation had
listed them.

Checked: `NeverUnsignable`, `OwnOperationTakesEffect`, `RetirementHolds`. The
code's comment and the operations manual call retirement permanent
(`ca.go:277`, `docs/operations-manual.md:196`). `Rotate` updates by id alone
what it listed before (`ca.go:269`), so a key that is retired while a rotation
is under way can come back as a retiring key, and into the bundle. The property
states that this is the only way back, and that no way leads back to an active
key. The run `ca_keys_bootstrap` refutes the comment in migration 0005 that its
unique index closes the bootstrap race: fresh key pairs never collide.

Bounds: two replicas, three keys, two lifecycle operations, which may overlap,
and two faults: a key can live through its whole
life while two others succeed it, with a crash or failed statement before and
after. Deadlock is off because the keys are bounded.

### SessionSpool

`file` is the spool as a sequence of events, `torn` whether it ends in a line
cut short, `flush` the local variables of `flushSpool` and `requeueSpool`,
`server[c]` what the handler of call `c` has still to ingest, `log` what the
server stored. A call that broke off may go on at the server while the agent
already sends again. `lost` records what a fault cost: a crash between clearing
the file and the acknowledgement, a write cut off by a full disk, an event the
database refused.

Checked: `Accounted`, `PendingOrdered`, `DuplicatesNeedRetries`, `Drains`. The
run `session_spool_blocked` refutes "A single bad event must not permanently
block the whole batch": the batch is bounded in events, the server's body
limit is in bytes, and a batch above it comes back for ever. (The branch of
`Send` that answers 400 is taken only there; the other run has a body limit
that every batch fits into.)

Bounds: four events of two sizes, a spool that fills with two, batches of two,
two faults. Deadlock is off: nothing happens once all events are stored.
Fairness: the flush ticker fires and handlers run; faults are bounded, so an
outage ends.

### AgentMaintenance

`pc` is where the loop of `Run` stands. `keyFile`, `certFile` and `loaded` are
the key pair each file and the API client belong to; `age` is the age of a
pair's certificate, `hostAge` and `served` that of the host certificate on disk
and in sshd's memory. `os.WriteFile` is two steps (it empties the file first),
`writeFileAtomic` one. `NewDaemon` starts only with a matching pair. Time
passes while the loop waits (calls take seconds, intervals minutes) and while
no process runs, for as long as it likes: downtime is what the documentation
names first when certificates have expired (`docs/troubleshooting.md:193` and
`:258`, `docs/enrollment-guide.md:257`). `strikes` and `outage` count the
faults and the time down since the loop last waited with everything in order
(`AllInOrder`). The heartbeat is left out: it changes nothing on the host.

Checked: `ChannelSurvives`, `ServedCertValid` (both as long as faults and
downtime leave one attempt in the last third of a lifetime, `Tolerates`),
`BundleArrives` (within an interval, one more per fault, and the downtime),
`HalfWrittenPairIsDue`, `HealsWhileUp`. `ServedCertValid` also excepts reloads
that were missed: the code logs them and tries again only with the next
renewal. The run `agent_maintenance_crash` refutes the comment that an inconsistent pair is
healed by the next rotation run: after a crash there is no next run, the
daemon cannot load the pair.

Bounds: lifetimes of six renew intervals, so the last third holds two attempts:
with two faults, or one and some downtime, one is tolerated and more lets the
certificate expire. Fairness: the loop is scheduled, systemd restarts the service
(`Restart=on-failure`), time passes.

### AccessRules

One domain, host rules or CI rules: their tables are written by the same
pattern of code and share no rows. `published` is the file in the ConfigMap,
`file[r]` the copy a replica has mounted, `table` the set of rows, `older` the
order in which `ORDER BY created_at, id` returns them, `tx` the open
transactions. `SyncRules` is a pass of `Syncer.Sync`; `Apply` reads the table
once and plans its writes (`SpecOps` for every entry of the file, numbered by
entry and step, and `Undeclared`), `TxStep` executes them one by one in that
order and commits. A commit chooses where its new rows stand in `older`: after
every row the transaction has read, on either side of rows that were committed
meanwhile, because `created_at` is the time it began. READ COMMITTED is in
`WaitsFor` (a row another transaction has written is waited for), in the
not-found that ends a transaction whose row was deleted meanwhile, and in
`Deadlock`. Administrators create, update, delete and apply beside it, behind
`GateCRUD` and `GateApply`.

Checked: `OnlyDeclared`, `RuleKept`, `FileConverges`. Two replicas can create a
rule twice; the property says that this goes away and that removing the
duplicates never removes the rule.

Bounds: two replicas, two administrators' requests, two rules in one group,
four contents of a file (one unreadable, one with an invalid entry after a
valid one), one change of the file, one fault, an empty table or one with
duplicates; the two valid files name the rule they share in different places,
so that transactions can deadlock. Fairness: the kubelet propagates the file,
the ticker of `Syncer.Run` fires, and transactions proceed, strongly: PostgreSQL
hands a row to the statement that waits for it, so a transaction that is waiting
is not shut out by one that is aborted and started again and again.

### Enrollment

`token`, `row` and `attempt` are the server's side: `EnrollHost` consumes the
token and writes the host row in one transaction, `IssueCerts` comes after the
commit. `disk` holds for every file the attempt that wrote it, `Torn` if a
write broke off; `running` and `hup` are sshd: the snippet it has loaded and a
reload it has been told of. `opts` are the options of the command and what it
finds on the machine; it and the other variables of the process are gone when
it ends (`Ends`). The agent writes, validates with `sshd -t`, rolls the snippet
back, reloads and probes in the order of `writeAndActivate`; `Killed`,
`WriteFails`, `NoAnswer` and `RestoreFails` interrupt it anywhere, `Again`
repeats the command with what is left. A given reload command is taken, and
stored, also with `--no-reload`; one is looked for only without; failing both,
the one in `config.yaml` is kept (`OwnCommand`, `ReloadCommand`).

Checked: `RestsValid`, `DoneIsConsistent`, `VerifiedIsLoaded`, `EnrollEnds`.
`DoneIsConsistent` includes that the token has enrolled no other attempt, on
this machine or elsewhere. It also shows how far "An existing `reload_command`
from a previous enrollment is never dropped" (`docs/enrollment-guide.md:167`,
`enroll.go:139`) goes: `config.yaml` has the only copy, `os.WriteFile` empties
the file first, and an attempt that breaks off there loses the command - or
leaves the beginning of it - for the next attempt that finds none of its own.
The history `cutOff` marks that case, and only that case is excepted.

Bounds, in two heads of `MCEnrollment`: "race", two attempts of this or another
machine with two tokens (one bound to a name), used twice or expired; "again",
three attempts of this machine with three tokens, so that a command is stored,
an attempt breaks off and one succeeds. One fault, two names. Fairness: the
agent's own steps; calls and probes have deadlines. `sshd -t` and the reload
command have none (`sshd.go:164`, `:212`) and are taken to return. The probe
accepts any host certificate (`sshd.go:258`); the machine is taken to have none
of another origin. A daemon the probe cannot reach is `ProbeUnanswered`.

### RateLimit

`clients` is `l.clients` with two buckets each, `req[r]` a request goroutine:
it reads the clock, later takes the lock (`Allow`), runs the handler, and takes
the lock again after a 401 or 403 (`RecordFailure`). `evict` drops idle entries
or, if that makes no room, any entry. `since`, `granted` and `failed` account
what a client got; a client dropped while active starts over, which is the
loss the code accepts. `RateAssumption` is what the comment on `clientIdleTTL`
("an idle entry is fully refilled") means for the rates: the time an entry
stays idle refills both buckets even when two stamps are behind by the longest
wait for the lock, and a full failure bucket is worth a token in the eyes of a
request whose stamp is that old. Without this a dropped client could get more
than its budget; the defaults satisfy it by minutes.

Checked: `BudgetsHold`. The failure budget is exceeded by concurrent requests;
the property states by how much at most. Bounds: two clients in a map of one,
two requests at a time, four ticks, which is past `clientIdleTTL`; a burst of
five requests, so that the failure budget of two can be exceeded and used up.

### Signing and CIMatching

`Signing`: a request reads grants, account and clock one after the other while
`EditGrants` and `SetActive` change them. Durations are seconds times `Second`
modulo `Modulus`, small stand-ins for nanoseconds and 2^64 that wrap for the
values in `Wanted` and in the grants. Checked: `CertWithinLimits`, `KillSwitch`.
`CIMatching` has no behaviour: every initial state is one pair of pattern and
value up to length four, and `MatchingAgrees` compares the code's matching with
its definition.

### SelfManagedCA

A version is a key (and certificate) that can be in the mounted secret. A
replica loads the files one after the other (`LoadKeyFile`, `LoadCertFile`),
then runs `AdoptCAKey`: `AdoptInsert` waits for a concurrent insert of the same
key, `DemoteBegin` and `DemoteRows` are the UPDATE that sees the rows committed
when it began and waits for locked ones, `AdoptCommit` ends it and
`AuditAdoption` writes the event. The keys of the running replicas are not
invalidated, which is what `invalidateSigner` says for this mode.

Checked: `AdoptionSound`. Two replicas with different keys can leave two active
rows; the property is about what matters to the hosts: every key that signs is
in the bundle. Bounds: two replicas, three versions, two changes of the secret
(back to an old version included), two faults or retirements.

### PinProvider and PinRegister

`Callers` are requests and `Loop` the goroutine of `Run`; `dialMu`, `checked`
and `pin` are the provider's. A dial takes time in which the endpoint's
certificate may rotate. `PinRegister` is the abstract specification: a register
that follows the certificates, is never emptied and never goes back. The
property `PinForward` is `PinRegister`'s specification under
`current <- leaf, known <- pin`: the provider implements it. `PinLag` bounds
how old a pin behind an open gate can be.

### AuditStream

Events draw ids when inserted and become visible when their transaction
commits. `ListAuditEventsAfter` states the batch the query returns: ascending,
past the cursor, at most `BatchSize` long, leaving out only events newer than
its last. `List`, `LogEvent`, `Post` are `drain` and `emit`, `RestartStream` a
new process whose cursor starts at the newest event. Checked: `StreamFaithful`,
with the ids that an open transaction hides from the cursor as the exception
the code has. Bounds: five events, batches of two, one restart.

### ProxyTrust

`round[g]` is a resolution by the ticker or by an unknown peer; it looks up one
name after the other and stores the whole result. Checked: `TrustTracksDNS`.
Bounds: two names, three addresses (one fixed), two changes of the DNS, two
forced resolutions next to the ticker, five units of time with a refresh
interval of two.

### SessionTrail

sshd runs the principals helper, once or several times for a login and perhaps
for several certificates, and each run reports its serial (`Ask`,
`RecordAuth`); one certificate may serve many logins. sshd may refuse the login
afterwards. PAM opens a session under the local user's name, and `takeSerial`
picks the newest report in the window
(reports are numbered as they arrive). The spool is a queue here
(`SessionSpool` justifies it): `wire` holds the events, `acked`, `done` and
`sent` say how far they are acknowledged, ingested and in flight. A batch is
ingested event by event, each in its own transaction, while new events are
spooled; an event that cannot be stored is discarded, and a batch whose answer
is lost is sent again, however far the handler came.
Checked: `SerialAttribution`, which states what the correlation does guarantee:
the serial of a session was shown for its account, its report is within the
window and was used once, and a login with no other report or session between
its report and its session carries its own certificate. That a session never
carries the certificate of another login is not true of the code: a second
report of one login stays behind for the next session of the account that has
none. And `ActiveSessions`. Bounds: two logins to two accounts, two
certificates, three runs of the helper, a window of one, one fault; reports and
events are followed apart, since they meet only in the serial of the event.

### UILogin

The server keeps nothing: `stateCookie` and `session` are the browsers'. A
request carries the cookie held when it is sent, a response changes it when it
arrives, so attempts in two tabs replace and clear each other's
(`Disturbed`). A callback may be repeated or opened in another browser; the
provider takes a code once. Checked: `LoginSound`. Bounds: two attempts, two
browsers, one stray callback, two units of time with a cookie of one. Claims
and roles are outcomes of `Exchange`; what they mean later is `Identity`.

## Runs

| Run | Expectation | Shows |
|---|---|---|
| `principals_cache` | pass | staleness bounds, honest time stamps, lookups end |
| `identity` | pass | no membership from nowhere; tables converge to the IdP |
| `identity_reactivation` | violation | a login can reactivate a user the sync just disabled |
| `signing_path` | pass | limiter budgets, limits of certificates, matching; always a key to sign with, own operations take effect, retirement holds; adopted keys are in the bundle |
| `ca_keys_bootstrap` | violation | two replicas create two active keys |
| `session_spool` | pass | events neither lost, reordered nor repeated without a fault; backlog drains |
| `session_spool_blocked` | violation | a batch over the body limit blocks the spool for ever |
| `agent_maintenance` | pass | channel, certificate and bundle stay current through failures and downtime; a half written pair is repaired while up |
| `agent_maintenance_crash` | violation | a crash between the two files needs a new enrollment |
| `access_rules` | pass | replicas end with exactly the file; no declared rule is ever gone, no other appears |
| `enrollment` | pass | sshd stays usable, success means complete and a token is used once, the probe tells the truth, enroll ends |
| `server_parts` | pass | pin register, audit stream, trust list, session correlation, web login |

Deadlock checking is off where counters bound the behaviour. The type
invariant of `PrincipalsCache` is checked by its run and proved; the other
modules' are proved as parts of the inductive invariants below.

    tlc -workers 2 -config MCPrincipalsCache.cfg MCPrincipalsCache
    tlapm PrincipalsCacheProofs.tla

## Proofs

The theorems hold for every value of the constants: any number of replicas,
requests, tokens, keys or events, all intervals and lifetimes. What is assumed
of the constants is named in an `ASSUME` of the module that declares them, and
TLC evaluates it on every instance: times and bounds are natural numbers (zero
only where the code allows it), "none" values are not members of the sets they
stand beside, `Replicas` is finite, every policy has a natural maximum, the
list of proxy names is a non-empty sequence. One hypothesis restricts the
environment and stands in the theorems of `CAKeysProofs` themselves:
`RetiresReplaced` (operators retire only keys that were rotated away from).

Every invariant was first checked by TLC on the module's instance. None of the
properties is inductive by itself; what each needs is the interesting part.

* `PrincipalsCacheProofs`: `RevocationBound`, `OnlineLagBound`,
  `CacheHonestAlways`, `TypeCorrect`, from `IInv`. A fallback needs that the
  entry in hand is honest (`CacheHonest`), an entry is honest when stored
  because the answer on its way was the server's list after the call began and
  the call is within its deadline (`CallsOK`), and both need that the server's
  present list is held now (`HeldOK`). Time stamps in `lastHeld` only grow
  (`HeldMonotone`), so honesty survives every step that leaves an entry alone.
* `CAKeysProofs`: `SignableAlways` and `KeysTypeCorrect` from `KeyInv`: the
  newest key is active (`NewestActive`), a rotation demotes only keys older
  than the one it created (`DemotesOlder`), a replica that is up saw or created
  a key (`UpHasKey`). `OwnOperationSeen` from `EffectInv`: what a replica is
  done with is older than the newest key (`DoneIsOld`), and what it caches, or
  has read on the way to caching it under `ca.mu`, is not among that
  (`CacheIsNew`). `RetirementAlwaysHolds` is the
  action property, for any number of operations at once: no rotation in
  progress lists a key that was retired unlisted (`SettledGone`), and what it
  lists it can only set to retiring.
* `IdentityProofs`: `EscalationNever`, `IdentityTypeCorrect`. `NoEscalation` is
  about the tables, but memberships come from claims and directory answers read
  earlier: `Said` follows each of these copies (tokens, requests, sync passes)
  to something the identity provider said, and `OpenTx` ties an open
  transaction to the user its owner is working on.
* `SigningPathProofs`: `CertificatesWithinLimits` and `KillSwitchHolds` from
  `SignInv`, which states the limits at the moment the duration is decided,
  before and after the arithmetic wraps around, and that a request which came
  after the account was disabled does not get past the account's row
  (`SwitchHeeded`). `AdoptionSoundAlways` from `AdoptInv`: one insert of a key
  at a time (`InsertsAlone`), locks are held only by transactions that are open
  (`LocksLive`), a serving replica's key was registered (`SignsRegistered`),
  and every row has its audit event or exactly one replica that is about to
  write it (`AuditCounts`). `BudgetsAlwaysHold` from `LimitInv`: what a client
  was granted and what its bucket holds are together at most burst plus refill
  (`GrantOK`). For failures the bucket alone says too little, since a request
  in flight may be rejected when the bucket is empty and then debits nothing:
  what was debited has to account for the rejected answers recorded and for
  those whose record will debit nothing (`Charged`, `Exposed`), for each token
  at most as many as requests run at once (`FailOK`). A client that was dropped
  idle has got no more than what time has refilled (`DroppedOK`).
  `RulesAlwaysDeclared` and `RulesAlwaysKept` (an action property) from
  `RulesInv`, which is about the plan of every open transaction: the rows it
  removes, those it changes, the rules it adds, done or still to do. A plan
  adds declared rules only (`PlanDeclared`); a replica's plan reaches every row
  whose rule is not declared, the rows others commit meanwhile included, since
  those are declared (`PlanComplete`); it touches rows that were there when it
  read the table and leaves them their keys (`PlanOld`, `PlanKeys`); and it
  spares the oldest row of a rule that every file declares (`OldestSafe`). The
  last one is why concurrent clean-ups cannot remove all duplicates, and it
  survives a commit because new rows get ids no plan knows and the oldest row
  is only ever replaced by a new one (`RowsOrdered`, `OrderExtended`). A
  transaction whose file has an invalid entry is exempt (`Doomed`): its plan
  may be anything, because it cannot commit.
* `EnrollmentProofs`: `RestsValidAlways`, `SuccessIsConsistent`,
  `ReportedIsLoaded` from `EnrollInv`. Which files the current attempt has
  written is a prefix of the order of writing (`FilesWritten`); until `sshd -t`
  accepts the new snippet an acceptable old one is kept to be put back
  (`OldInPlace`, `SnippetSafe`); where there was no snippet before, the one
  sshd has loaded is the current one (`LoadedSnippet`), which is why a
  certificate seen by the probe proves the new one is loaded. A token that has
  enrolled is used and has one winner (`TokensOnce`); while `config.yaml` is
  whole, a stored reload command is in it and is going to be written again
  (`CommandKept`).
* `AgentMaintenanceProofs`: `HalfWrittenPairRepairable` from `PairInv` (a
  rotation in progress has a new pair, and the certificate it replaces stays
  due because certificates only grow older). `ChannelStaysOpen`,
  `ServedStaysValid`, `BundleArrivesInTime` and `MaintenanceTypeCorrect` from
  `TimeInv`, a budget: the age of what is in use is at most two thirds of its
  lifetime, plus one interval, plus one interval for every fault and the time
  down since all was last in order (for the bundle, without the two thirds). The bound counts the time until the next
  tick too, otherwise a tick that comes late would not follow from it.
* `SessionSpoolProofs`: `EventsAccounted` and `OrderKept` from `SpoolInv`. The
  spool file, the batch in hand, the rest of the file and the events written
  meanwhile are one sequence `Pending`, and the flush only moves events within
  it (`FlushState`); what was sent is with a handler, stored, or given up by
  the server (`SentCovered`). `DuplicatesBounded` from `RetryInv`: for each
  event, the copies stored, the copies handlers still carry and the copy that
  is still due are together at most one more than the calls that broke off
  (`Counted`), and each such call is a fault (`CallsAreFaults`).
* `ServerPartsProofs`: `PinLagBound` and the refinement `PinImplementsRegister`
  from `PinInv`: who dials holds `dialMu` and is within the timeout
  (`DialLocked`), so between a handshake and its result nobody else stores, and
  the certificate a dial saw is not older than the pin (`HandshakeRecent`).
  Every action of the provider is then a step of `PinRegister` or a stutter.
  `LoginSoundAlways` from `LoginInv`: for every stage of an attempt, who can
  hold its cookie and since when (`AttemptOnTrack`, `CookiesAtHome`).
  `TrustTracksAlways` from `TrustInv`: what a resolution has gathered so far is
  recent and contains every steady address of the names it is through with
  (`GotRecent`, `GotSteady`), which is what the stored list then inherits
  (`StoredRecent`), and a resolution stores within its deadline (`TrustClock`).
  `StreamAlwaysFaithful` from `StreamInv`: what the sinks have is behind the
  cursor or the part of the batch that is through, the batch is ahead of the
  cursor (`CursorAhead`), and every id up to the cursor, or to the end of the
  batch, that may still become visible is logged, in the batch or excused
  (`PassedLogged`); ids are drawn in order, so none appears behind the cursor
  unseen (`DrawnInOrder`). `SerialsAlwaysAttributed` from `AuthInv`: what is
  on its way or waiting was shown for its account (`PostsOwn`, `ReportsOwn`),
  reports are told apart by their numbers and a taken one is gone
  (`ReportsDistinct`, `SerialsOwn`); while a login is undisturbed a report of
  its certificate is there and the newest of its account (`ClearIsNewest`), so
  that its session takes it (`ClearCarries`). `SessionsAlwaysActive`
  from `RowsInv`, which compares the active rows with the sessions as far as
  the server has heard of them (`LiveCounted`): every event is on the wire once
  (`WireOnce`), the open before the close (`OpenThenClose`), so a close always
  finds a row to end. That it may end another session's row does not matter for
  the number.

Only model-checked:

* Liveness (`LookupsEnd`, `OffboardingConverges`, `GroupsConverge`, `Drains`,
  `HealsWhileUp`, `FileConverges`, `EnrollEnds`): it rests on fairness, which the
  prover does not handle.
* `MatchingAgrees`: what the recursive matching computes for every pattern
  and value takes induction over sequences, which the prover's library cannot
  instantiate. TLC compares it with its definition for all short strings.

Two models were restated declaratively for the proofs:
`ListAuditEventsAfter` describes the batch and does not compute it with
`SelectSeq`, and `AccessRules` keeps its rows as a set with an order beside it.
Two became more precise: `SessionTrail` ingests a batch event by event, and
the proof of the budgets found the two clauses that `RateAssumption` needed.

## Not modelled

* Cryptography, OIDC and key formats: a verified claim, a sealed cookie or a
  key is a value.
* The mTLS CA: its bootstrap has the race that `ca_keys_bootstrap` shows for the
  SSH keys; issuing reads the newest row and keeps nothing.
* Heartbeats, read-only listings, installers, static content, metrics, CLIs,
  the web frontend, migrations, deployment files: no state of their own that
  several actors share.

`PROJECT.json` gives the reason per component.

## Plan

Every invariant and action property of the passing runs has its theorem, except
`MatchingAgrees`. What a next step could add:

1. The mTLS CA, in the way `CAKeys` models the SSH keys: a replica pins the CA
   and its server certificate at start while `IssueAgentCert` uses the newest.
2. The token and host endpoints of the admin API, as further writers of the
   tables in `Enrollment`.
3. Composition: `ListAuthorizedPrincipals` over `Identity` and `AccessRules` as
   the `acl` of `PrincipalsCache`.
