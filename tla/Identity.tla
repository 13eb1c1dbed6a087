------------------------------ MODULE Identity ------------------------------
(***************************************************************************)
(* Who is who: the users table and the group memberships, written by       *)
(* every authenticated request (internal/auth/mapper.go, called by         *)
(* sign/user, the admin API and the web UI) and by the group sync          *)
(* (internal/auth/sync.go) of every server replica.                        *)
(*                                                                         *)
(* Neither writer runs in one transaction: each statement below is its own *)
(* step, and they interleave.  SetUserGroups is one READ COMMITTED         *)
(* transaction, a DELETE followed by an INSERT: the DELETE does not see    *)
(* rows that another such transaction commits after it started.            *)
(*                                                                         *)
(* Claims and directory entries are snapshots of the identity provider:    *)
(* [active, name, groups].  A name stands for the profile fields.          *)
(***************************************************************************)
EXTENDS Naturals, FiniteSets

CONSTANTS Users,       \* subjects of the issuer the sync manages
          Names,       \* profile data: username and email
          Groups,      \* IdP groups
          Granted,     \* the groups that an access grant names
          Accounts,    \* the states of an account at the identity provider
          Requests,    \* concurrent authenticated requests
          Syncers,     \* one group sync per replica
          MaxChanges,  \* bound: changes made at the identity provider
          MaxFaults,   \* bound: database errors and crashes during a sync
          MaxTokens,   \* bound: tokens and sessions valid at a time
          None

ASSUME IdentityAssumption == /\ Granted \subseteq Groups
                             /\ Accounts \subseteq [active : BOOLEAN, name : Names,
                                                    groups : SUBSET Groups]
                             /\ MaxChanges \in Nat
                             /\ MaxFaults \in Nat
                             /\ MaxTokens \in Nat
                             /\ None \notin Users
                             /\ Requests \cap Syncers = {}

VARIABLES idp,      \* external: the identity provider's accounts
          tokens,   \* valid ID tokens and UI session cookies: [user, claims]
          row,      \* table users
          groups,   \* table user_groups
          tx,       \* the open SetUserGroups transaction of each process
          req,      \* the requests
          sync,     \* the sync passes
          issued,   \* history: the users a certificate was issued to
          asserted, \* history: the group sets the IdP ever gave a user
          changes, faults

vars == <<idp, tokens, row, groups, tx, req, sync, issued, asserted, changes, faults>>

-----------------------------------------------------------------------------
Rows == [active : BOOLEAN, name : Names]

NoRow == [active |-> FALSE, name |-> None]

NoTx == [user |-> None, sees |-> {}]

IdleReq == [pc |-> "idle", user |-> None, claims |-> None, copy |-> NoRow]

IdleSync == [pc |-> "idle", dir |-> None, rows |-> None, todo |-> {},
             user |-> None]

Procs == Requests \cup Syncers

Init == /\ idp \in [Users -> {a \in Accounts : a.active}]
        /\ tokens = {}
        /\ row = [u \in Users |-> NoRow]
        /\ groups = [u \in Users |-> {}]
        /\ tx = [p \in Procs |-> NoTx]
        /\ req = [r \in Requests |-> IdleReq]
        /\ sync = [s \in Syncers |-> IdleSync]
        /\ issued = {}
        /\ asserted = [u \in Users |-> {{}, idp[u].groups}]
        /\ changes = 0
        /\ faults = 0

-----------------------------------------------------------------------------
(* External: the identity provider edits an account, issues a token for an *)
(* active one, and a token or session expires.                             *)
ChangeAccount(u, a) ==
    /\ changes < MaxChanges
    /\ a # idp[u]
    /\ idp' = [idp EXCEPT ![u] = a]
    /\ asserted' = [asserted EXCEPT ![u] = @ \cup {a.groups}]
    /\ changes' = changes + 1
    /\ UNCHANGED <<tokens, row, groups, tx, req, sync, issued, faults>>

ObtainToken(u) ==
    /\ idp[u].active
    /\ Cardinality(tokens) < MaxTokens
    /\ tokens' = tokens \cup {[user |-> u, claims |-> idp[u]]}
    /\ UNCHANGED <<idp, row, groups, tx, req, sync, issued, asserted, changes, faults>>

Expire(t) ==
    /\ tokens' = tokens \ {t}
    /\ UNCHANGED <<idp, row, groups, tx, req, sync, issued, asserted, changes, faults>>

-----------------------------------------------------------------------------
(* SetUserGroups, first half: BEGIN, and the memberships the DELETE sees.  *)
BeginSet(p, u) == tx' = [tx EXCEPT ![p] = [user |-> u, sees |-> groups[u]]]

(* Memberships committed since the DELETE started survive it.              *)
Survivors(p) == groups[tx[p].user] \ tx[p].sees

(* Inserting a survivor again violates the primary key.                    *)
CannotSet(p, want) == Survivors(p) \cap want # {}

(* A mutant: the DELETE is missing.                                        *)
MergeSet(p, want) ==
    LET u == tx[p].user
    IN  /\ groups' = [groups EXCEPT ![u] = @ \cup want]
        /\ tx' = [tx EXCEPT ![p] = NoTx]

(* SetUserGroups, second half: the INSERT and COMMIT.  What it inserts are *)
(* new rows, which no transaction already under way sees.                  *)
CommitSet(p, want) ==
    LET u == tx[p].user
    IN  /\ ~ CannotSet(p, want)
        /\ groups' = [groups EXCEPT ![u] = Survivors(p) \cup want]
        /\ tx' = [q \in Procs |->
                    IF q = p THEN NoTx
                    ELSE IF tx[q].user = u THEN [tx[q] EXCEPT !.sees = @ \ want]
                    ELSE tx[q]]

Rollback(p) == tx' = [tx EXCEPT ![p] = NoTx] /\ UNCHANGED groups

-----------------------------------------------------------------------------
(* A request arrives with a valid token or session.                        *)
Arrive(r, t) ==
    /\ req[r].pc = "idle"
    /\ req' = [req EXCEPT ![r] = [IdleReq EXCEPT !.pc = "lookup",
                                    !.user = t.user, !.claims = t.claims]]
    /\ UNCHANGED <<idp, tokens, row, groups, tx, sync, issued, asserted, changes, faults>>

(* EnsureUser: GetUserBySubject, and the switch on what it found.          *)
Lookup(r) ==
    LET found == row[req[r].user]
    IN  /\ req[r].pc = "lookup"
        /\ req' = [req EXCEPT ![r] =
             IF found = NoRow THEN [@ EXCEPT !.pc = "create"]
             ELSE IF ~ found.active THEN IdleReq           \* ErrUserInactive
             ELSE IF found.name # @.claims.name
                  THEN [@ EXCEPT !.pc = "update", !.copy = found]
             ELSE [@ EXCEPT !.pc = "groups"]]
        /\ UNCHANGED <<idp, tokens, row, groups, tx, sync, issued, asserted, changes, faults>>

(* EnsureUser: CreateUser; a concurrent first login makes it fail.         *)
CreateUser(r) ==
    /\ req[r].pc = "create"
    /\ IF row[req[r].user] = NoRow
       THEN /\ row' = [row EXCEPT ![req[r].user] =
                         [active |-> TRUE, name |-> req[r].claims.name]]
            /\ req' = [req EXCEPT ![r].pc = "groups"]
       ELSE /\ req' = [req EXCEPT ![r] = IdleReq]
            /\ UNCHANGED row
    /\ UNCHANGED <<idp, tokens, groups, tx, sync, issued, asserted, changes, faults>>

(* EnsureUser: UpdateUser writes every mutable field from the copy read    *)
(* before, the active flag included.                                       *)
UpdateUser(r) ==
    /\ req[r].pc = "update"
    /\ row' = [row EXCEPT ![req[r].user] =
                 [req[r].copy EXCEPT !.name = req[r].claims.name]]
    /\ req' = [req EXCEPT ![r].pc = "groups", ![r].copy = NoRow]
    /\ UNCHANGED <<idp, tokens, groups, tx, sync, issued, asserted, changes, faults>>

(* EnsureUser: SetUserGroups with the groups of the token.                 *)
BeginSetGroups(r) ==
    /\ req[r].pc = "groups"
    /\ BeginSet(r, req[r].user)
    /\ req' = [req EXCEPT ![r].pc = "commit"]
    /\ UNCHANGED <<idp, tokens, row, groups, sync, issued, asserted, changes, faults>>

CommitSetGroups(r) ==
    /\ req[r].pc = "commit"
    /\ CommitSet(r, req[r].claims.groups)
    /\ req' = [req EXCEPT ![r].pc = "grants"]
    /\ UNCHANGED <<idp, tokens, row, sync, issued, asserted, changes, faults>>

(* The grants of the groups the database lists for the user now.           *)
ListGrantsForUser(u) == groups[u] \cap Granted

(* A mutant: the certificate does not depend on the grants.                *)
SignAnyone(r) ==
    /\ req[r].pc = "grants"
    /\ issued' = issued \cup {req[r].user}
    /\ req' = [req EXCEPT ![r] = IdleReq]
    /\ UNCHANGED <<idp, tokens, row, groups, tx, sync, asserted, changes, faults>>

(* sign/user: no grants, no certificate.  An admin or UI request stops     *)
(* after EnsureUser and goes on with the roles in its claims.              *)
Sign(r) ==
    /\ req[r].pc = "grants"
    /\ issued' = IF ListGrantsForUser(req[r].user) # {}
                 THEN issued \cup {req[r].user} ELSE issued
    /\ req' = [req EXCEPT ![r] = IdleReq]
    /\ UNCHANGED <<idp, tokens, row, groups, tx, sync, asserted, changes, faults>>

FinishUnsigned(r) ==
    /\ req[r].pc = "grants"
    /\ req' = [req EXCEPT ![r] = IdleReq]
    /\ UNCHANGED <<idp, tokens, row, groups, tx, sync, issued, asserted, changes, faults>>

(* A statement fails (a cancelled request, a lost connection, a group or   *)
(* membership inserted concurrently): 500, and what was written stays.     *)
FailRequest(r) ==
    /\ req[r].pc # "idle"
    /\ Rollback(r)
    /\ req' = [req EXCEPT ![r] = IdleReq]
    /\ UNCHANGED <<idp, tokens, row, sync, issued, asserted, changes, faults>>

-----------------------------------------------------------------------------
(* SyncOnce: source.Users, then ListUsers.                                 *)
LoadDirectory(s) ==
    /\ sync[s].pc = "idle"
    /\ sync' = [sync EXCEPT ![s] = [IdleSync EXCEPT !.pc = "list", !.dir = idp]]
    /\ UNCHANGED <<idp, tokens, row, groups, tx, req, issued, asserted, changes, faults>>

ListUsers(s) ==
    /\ sync[s].pc = "list"
    /\ sync' = [sync EXCEPT ![s].pc = "next", ![s].rows = row,
                            ![s].todo = {u \in Users : row[u] # NoRow}]
    /\ UNCHANGED <<idp, tokens, row, groups, tx, req, issued, asserted, changes, faults>>

(* SyncOnce: the loop over the users read at the start of the pass.        *)
NextUser(s, u) ==
    LET du == sync[s].dir[u]
        old == sync[s].rows[u]
    IN  /\ sync[s].pc = "next"
        /\ u \in sync[s].todo
        /\ sync' = [sync EXCEPT
             ![s].todo = @ \ {u},
             ![s].user = IF du.active \/ old.active THEN u ELSE None,
             ![s].pc = IF ~ du.active THEN IF old.active THEN "update" ELSE "next"
                       ELSE IF ~ old.active \/ old.name # du.name THEN "update"
                       ELSE "groups"]
        /\ UNCHANGED <<idp, tokens, row, groups, tx, req, issued, asserted, changes, faults>>

SyncDone(s) ==
    /\ sync[s].pc = "next"
    /\ sync[s].todo = {}
    /\ sync' = [sync EXCEPT ![s] = IdleSync]
    /\ UNCHANGED <<idp, tokens, row, groups, tx, req, issued, asserted, changes, faults>>

(* A mutant: an account that is gone leaves the row's active flag alone.   *)
SyncedRowKeepsActive(s) == [active |-> TRUE, name |-> sync[s].dir[sync[s].user].name]

(* The row deactivate or reconcile writes: the profile of the directory    *)
(* where the account is active, the one in hand where it is not.           *)
SyncedRow(s) ==
    LET du == sync[s].dir[sync[s].user]
    IN  IF du.active THEN [active |-> TRUE, name |-> du.name]
        ELSE [sync[s].rows[sync[s].user] EXCEPT !.active = FALSE]

SyncUpdateUser(s) ==
    /\ sync[s].pc = "update"
    /\ row' = [row EXCEPT ![sync[s].user] = SyncedRow(s)]
    /\ sync' = [sync EXCEPT ![s].pc = "groups"]
    /\ UNCHANGED <<idp, tokens, groups, tx, req, issued, asserted, changes, faults>>

SyncBeginSet(s) ==
    /\ sync[s].pc = "groups"
    /\ BeginSet(s, sync[s].user)
    /\ sync' = [sync EXCEPT ![s].pc = "commit"]
    /\ UNCHANGED <<idp, tokens, row, groups, req, issued, asserted, changes, faults>>

SyncedGroups(s) == LET du == sync[s].dir[sync[s].user]
                   IN  IF du.active THEN du.groups ELSE {}

(* The membership set, and the audit event of a (de)activation.            *)
SyncCommitSet(s) ==
    /\ sync[s].pc = "commit"
    /\ CommitSet(s, SyncedGroups(s))
    /\ sync' = [sync EXCEPT ![s].pc = "next", ![s].user = None]
    /\ UNCHANGED <<idp, tokens, row, req, issued, asserted, changes, faults>>

(* The pass ends with the first error; the next tick starts a new one.     *)
SyncConflict(s) ==
    /\ sync[s].pc = "commit"
    /\ CannotSet(s, SyncedGroups(s))
    /\ Rollback(s)
    /\ sync' = [sync EXCEPT ![s] = IdleSync]
    /\ UNCHANGED <<idp, tokens, row, req, issued, asserted, changes, faults>>

SyncFault(s) ==
    /\ sync[s].pc # "idle"
    /\ faults < MaxFaults
    /\ faults' = faults + 1
    /\ Rollback(s)
    /\ sync' = [sync EXCEPT ![s] = IdleSync]
    /\ UNCHANGED <<idp, tokens, row, req, issued, asserted, changes>>

-----------------------------------------------------------------------------
RequestStep(r) == \/ Lookup(r)
                  \/ CreateUser(r)
                  \/ UpdateUser(r)
                  \/ BeginSetGroups(r)
                  \/ CommitSetGroups(r)
                  \/ Sign(r)
                  \/ FinishUnsigned(r)
                  \/ FailRequest(r)

SyncStep(s) == \/ LoadDirectory(s)
               \/ ListUsers(s)
               \/ \E u \in Users : NextUser(s, u)
               \/ SyncDone(s)
               \/ SyncUpdateUser(s)
               \/ SyncBeginSet(s)
               \/ SyncCommitSet(s)
               \/ SyncConflict(s)

Next == \/ \E u \in Users, a \in Accounts : ChangeAccount(u, a)
        \/ \E u \in Users : ObtainToken(u)
        \/ \E t \in tokens : Expire(t)
        \/ \E r \in Requests, t \in tokens : Arrive(r, t)
        \/ \E r \in Requests : RequestStep(r)
        \/ \E s \in Syncers : SyncStep(s) \/ SyncFault(s)

Spec == Init /\ [][Next]_vars

(* Requests run to their end, and every replica's sync loop keeps running. *)
FairSpec == /\ Spec
            /\ \A r \in Requests : WF_vars(RequestStep(r))
            /\ \A s \in Syncers : WF_vars(SyncStep(s))

-----------------------------------------------------------------------------
(* The types of the variables.                                             *)
TypeOK ==
    /\ idp \in [Users -> Accounts]
    /\ tokens \subseteq [user : Users, claims : Accounts]
    /\ row \in [Users -> Rows \cup {NoRow}]
    /\ groups \in [Users -> SUBSET Groups]
    /\ tx \in [Procs -> [user : Users \cup {None}, sees : SUBSET Groups]]
    /\ \A r \in Requests :
          /\ req[r].pc \in {"idle", "lookup", "create", "update", "groups",
                            "commit", "grants"}
          /\ req[r].pc # "idle" =>
                /\ req[r].user \in Users
                /\ req[r].claims \in Accounts
    /\ \A s \in Syncers : sync[s].pc \in {"idle", "list", "next", "update",
                                          "groups", "commit"}
    /\ issued \subseteq Users
    /\ asserted \in [Users -> SUBSET SUBSET Groups]

(* ListAuthorizedPrincipals lists the user on the hosts of a grant.        *)
Authorized(u) == row[u].active /\ groups[u] \cap Granted # {}

(* No token, session or request carries claims about u that the identity   *)
(* provider has since changed.                                             *)
Quiet(u) == /\ \A t \in tokens : t.user = u => t.claims = idp[u]
            /\ \A r \in Requests : req[r].user = u => req[r].claims = idp[u]

(* Whatever logins and syncs did before, and even if a late request        *)
(* resurrected the row: once the account stays disabled at the identity    *)
(* provider and its old tokens are gone, the user's row is inactive for    *)
(* good and no host lists them.                                            *)
OffboardingConverges ==
    \A u \in Users :
        (<>[](~ idp[u].active /\ Quiet(u) /\ row[u] # NoRow)) =>
            <>[](~ row[u].active /\ ~ Authorized(u))

(* Once the account of a known user stays as it is and no claims older     *)
(* than that remain, the database holds exactly the directory's groups:    *)
(* overlapping SetUserGroups transactions leave no trace.                  *)
GroupsConverge ==
    \A u \in Users, a \in Accounts :
        (<>[](idp[u] = a /\ a.active /\ Quiet(u) /\ row[u] # NoRow)) =>
            <>[](row[u].active /\ groups[u] = a.groups)

(* No certificate and no membership comes from nowhere: whoever got a      *)
(* certificate was at some time in a granted group at the identity         *)
(* provider, and every membership in the database was the provider's word. *)
NoEscalation ==
    \A u \in Users : /\ groups[u] \subseteq UNION asserted[u]
                     /\ u \in issued => Granted \cap UNION asserted[u] # {}

-----------------------------------------------------------------------------
(* mapper.go: "Deactivated users are rejected (ErrUserInactive) and not    *)
(* reactivated - reactivation is decided by the group sync or an admin."   *)
(* A row becomes active again in a step of the group sync only.            *)
ReactivatedBySyncOnly ==
    [][\A u \in Users :
          (row[u] # NoRow /\ ~ row[u].active /\ row'[u].active) =>
              \E s \in Syncers : sync'[s] # sync[s]]_vars
=============================================================================
