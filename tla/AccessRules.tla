---------------------------- MODULE AccessRules ----------------------------
(***************************************************************************)
(* The access rules of one domain - host rules or CI rules - and everybody *)
(* who writes them: every replica reconciles the rules file                *)
(* (internal/rulesync over internal/rulespec), administrators apply or     *)
(* edit through the admin API (internal/api/admin*.go); all end in         *)
(* transactions of internal/store/grants.go and ci_grants.go.              *)
(*                                                                         *)
(* The two domains share no rows, and Sync attempts both whatever happens  *)
(* to one, so a behaviour follows one domain.  Transactions run READ       *)
(* COMMITTED: ApplyGrants reads the table once and then writes row by row; *)
(* a row another transaction has written is waited for, a row it has       *)
(* deleted is not found, and a cycle of waiting is broken by the database. *)
(***************************************************************************)
EXTENDS Integers, FiniteSets, SequencesExt

CONSTANTS Replicas,     \* server processes, each with a copy of the rules file
          Admins,       \* requests to the admin API that run at the same time
          Keys,         \* grantKey or ciGrantKey: what identifies a rule
          Vals,         \* principals, sudo, maximal validity
          Invalid,      \* the value of an entry validateGrantSpec refuses
          Groups,       \* IdP groups of host rules, projects of CI rules
          GroupOf,      \* the group or project in a key
          Contents,     \* what a rules file can say
          FirstTables,  \* what earlier writers may have left, oldest row first
          RuleIds,      \* row ids
          MaxPublish,   \* bound on the versions of the file
          MaxEdits,     \* bound on the requests to the admin API
          MaxFaults     \* bound on crashes and database errors

ASSUME RulesAssumption ==
    /\ Replicas \cap Admins = {} /\ Invalid \notin Vals
    /\ GroupOf \in [Keys -> Groups]
    /\ \A c \in Contents : /\ c.ok \in BOOLEAN
                           /\ c.specs \in Seq([key : Keys, val : Vals \cup {Invalid}])
    /\ RuleIds \subseteq Nat /\ IsFiniteSet(RuleIds)
    /\ \A t \in FirstTables :
          /\ t \in Seq([id : RuleIds, key : Keys, val : Vals])
          /\ \A i, j \in DOMAIN t : t[i].id = t[j].id => i = j
    /\ {MaxPublish, MaxEdits, MaxFaults} \subseteq Nat

VARIABLES domain,     \* "host" or "ci"
          owner,      \* fileOwned: "file" or "api"
          manual,     \* ManualRules
          published,  \* the rules file in the ConfigMap
          file,       \* the copy each replica has mounted
          up,         \* "starting": before the initial sync; then "serving"
          table,      \* access_grants or ci_grants
          older,      \* ORDER BY created_at, id: pairs of ids
          groups,     \* groups
          tx,         \* the open transactions
          versions, edits, faults,  \* counters for the bounds
          declared,   \* history: the rules of all valid files and applies
          inherited   \* history: the rules found in the table, until a
                      \* replica has applied its file

ruleVars == <<domain, owner, manual, published, file, up, table, older, groups, tx,
              versions, edits, faults, declared, inherited>>

Writers == Replicas \cup Admins

Ids(rows) == {row.id : row \in rows}

Rule(row) == [key |-> row.key, val |-> row.val]

Rules(rows) == {Rule(row) : row \in rows}

(* validateGrantSpec, validateCIGrantSpec.                                 *)
Complete(spec) == spec.val # Invalid

(* LoadHostRules, LoadCIRules and the checks of ApplyGrants: the file can  *)
(* be read and decoded with its own top-level key only, every entry is     *)
(* complete and no key occurs twice.                                       *)
Valid(c) == /\ c.ok
            /\ \A i \in DOMAIN c.specs : Complete(c.specs[i])
            /\ \A i, j \in DOMAIN c.specs : c.specs[i].key = c.specs[j].key => i = j

(* A transaction: what it has read (base) and still has to do (todo, in    *)
(* the order of entry and step; then rest), what it has written.           *)
NoTx == [open |-> FALSE, todo |-> {}, rest |-> {}, group |-> FALSE,
         base |-> {}, ins |-> {}, upd |-> {}, del |-> {}, grp |-> {}]

RulesInit ==
    /\ domain \in {"host", "ci"} /\ owner \in {"file", "api"} /\ manual \in BOOLEAN
    /\ published \in {c \in Contents : Valid(c)}
    /\ file = [r \in Replicas |-> published]
    /\ up = [r \in Replicas |-> "starting"]
    /\ \E t \in FirstTables :
          /\ table = ToSet(t)
          /\ older = {o \in Ids(table) \X Ids(table) :
                        \E i, j \in DOMAIN t : i < j /\ o = <<t[i].id, t[j].id>>}
    /\ groups = {GroupOf[row.key] : row \in table}
    /\ tx = [w \in Writers |-> NoTx]
    /\ versions = 0 /\ edits = 0 /\ faults = 0
    /\ declared = Rules(ToSet(published.specs)) /\ inherited = Rules(table)

-----------------------------------------------------------------------------
(* A new version of the ConfigMap, and its way to the replicas.            *)
Publish(c) ==
    /\ owner = "file" /\ versions < MaxPublish /\ c # published
    /\ published' = c
    /\ versions' = versions + 1
    /\ declared' = IF Valid(c) THEN declared \cup Rules(ToSet(c.specs)) ELSE declared
    /\ UNCHANGED <<domain, owner, manual, file, up, table, older, groups, tx,
                   edits, faults, inherited>>

Propagate(r) ==
    /\ file[r] # published
    /\ file' = [file EXCEPT ![r] = published]
    /\ UNCHANGED <<domain, owner, manual, published, up, table, older, groups, tx,
                   versions, edits, faults, declared, inherited>>

-----------------------------------------------------------------------------
(* A mutant: the SELECT has no ORDER BY.                                   *)
AnyOrder == {{<<p[o[1]], p[o[2]]>> : o \in older} : p \in Permutations(Ids(table))}

(* The orders in which ApplyGrants may read the rows: ORDER BY created_at, *)
(* id.                                                                     *)
Existing == {older}

(* The rows of a key; the oldest is kept, the others are duplicates.       *)
Candidates(k) == {row \in table : row.key = k}

OlderThan(order, row) == {c \in Candidates(row.key) : <<c.id, row.id>> \in order}

Duplicates(order, k) == {row \in Candidates(k) : OlderThan(order, row) # {}}

(* applySpecTx, applyCISpecTx: what one entry asks for, given the rows     *)
(* read.  One that is incomplete, or the second for its key, fails the     *)
(* whole transaction; without rows it is inserted; otherwise duplicates    *)
(* are deleted, oldest first, and the row kept is brought up to date.      *)
SpecOps(order, specs, i) ==
    LET spec == specs[i]
        k    == spec.key
    IN IF ~Complete(spec) \/ \E j \in 1..(i - 1) : specs[j].key = k
       THEN {[do |-> "fail", entry |-> i, step |-> 0]}
       ELSE IF Candidates(k) = {}
       THEN {[do |-> "insert", entry |-> i, step |-> 0, key |-> k, val |-> spec.val]}
       ELSE {[do |-> "delete", entry |-> i, step |-> Cardinality(OlderThan(order, row)),
              id |-> row.id] : row \in Duplicates(order, k)}
            \cup
            {[do |-> "update", entry |-> i, step |-> Cardinality(Candidates(k)),
              id |-> row.id, key |-> k, val |-> spec.val] :
                row \in {c \in Candidates(k) \ Duplicates(order, k) : c.val # spec.val}}

(* The rows of keys that are not declared any more.                        *)
Undeclared(specs) ==
    Ids({row \in table : \A j \in DOMAIN specs : specs[j].key # row.key})

(* ApplyGrants, ApplyCIGrants up to the first write.                       *)
Apply(w, specs) ==
    \E order \in Existing :
        tx' = [tx EXCEPT ![w] =
                 [NoTx EXCEPT !.open = TRUE, !.base = Ids(table),
                    !.todo = UNION {SpecOps(order, specs, i) : i \in DOMAIN specs},
                    !.rest = Undeclared(specs)]]

(* A mutant: the file is read at start only.                               *)
SyncAtStart(r) ==
    /\ owner = "file" /\ ~tx[r].open /\ up[r] = "starting"
    /\ file[r].ok
    /\ Apply(r, file[r].specs)
    /\ UNCHANGED <<domain, owner, manual, published, file, up, table, older, groups,
                   versions, edits, faults, declared, inherited>>

(* Sync, at start or on the ticker.  A file that cannot be loaded leaves   *)
(* everything as it is: the replica logs it, or exits and starts again.    *)
SyncRules(r) ==
    /\ owner = "file" /\ ~tx[r].open
    /\ file[r].ok
    /\ Apply(r, file[r].specs)
    /\ UNCHANGED <<domain, owner, manual, published, file, up, table, older, groups,
                   versions, edits, faults, declared, inherited>>

(* gateApply lets the apply endpoints through where no file owns the rules.*)
GateApply == owner = "api"

(* A mutant: the manual switch is not looked at.                           *)
GateCRUDOnlyFile == owner = "api"

(* gateCRUD: single rules only where in-app editing is on as well.         *)
GateCRUD == owner = "api" /\ manual

(* handleApplyGrants, handleApplyCIGrants.                                 *)
AdminApply(a, c) ==
    /\ GateApply /\ ~tx[a].open /\ edits < MaxEdits
    /\ c.ok
    /\ edits' = edits + 1
    /\ Apply(a, c.specs)
    /\ declared' = IF Valid(c) THEN declared \cup Rules(ToSet(c.specs)) ELSE declared
    /\ UNCHANGED <<domain, owner, manual, published, file, up, table, older, groups,
                   versions, faults, inherited>>

(* The transaction of one CRUD request.                                    *)
Edit(a, op) ==
    /\ GateCRUD /\ ~tx[a].open /\ edits < MaxEdits
    /\ edits' = edits + 1
    /\ tx' = [tx EXCEPT ![a] = [NoTx EXCEPT !.open = TRUE, !.base = Ids(table),
                                            !.todo = {op}]]
    /\ UNCHANGED <<domain, owner, manual, published, file, up, table, older,
                   versions, faults, declared, inherited>>

(* handleCreateGrant: the group is ensured before the transaction (the     *)
(* request fails when another one is inserting it).                        *)
AdminCreate(a, k, v) ==
    /\ Edit(a, [do |-> "insert", entry |-> 1, step |-> 0, key |-> k, val |-> v])
    /\ IF domain = "host"
       THEN /\ \A w \in Writers : GroupOf[k] \notin tx[w].grp
            /\ groups' = groups \cup {GroupOf[k]}
       ELSE UNCHANGED groups

(* handleUpdateGrant reads the row and writes all of it back: the value    *)
(* of the request, the tag selector of the request or of the row read.     *)
AdminUpdate(a, row, k, v) ==
    /\ GroupOf[k] = GroupOf[row.key]
    /\ Edit(a, [do |-> "update", entry |-> 1, step |-> 0, id |-> row.id, key |-> k, val |-> v])
    /\ UNCHANGED groups

AdminDelete(a, row) ==
    /\ Edit(a, [do |-> "delete", entry |-> 1, step |-> 0, id |-> row.id])
    /\ UNCHANGED groups

-----------------------------------------------------------------------------
(* Rows and groups that w has written and not yet committed.               *)
Locked(w) == {u.id : u \in tx[w].upd} \cup tx[w].del

Others(w) == {x \in Writers \ {w} : tx[x].open}

(* The statement w has to do next, as a set of at most one.                *)
NextOps(w) ==
    {op \in tx[w].todo : \A p \in tx[w].todo :
        op.entry < p.entry \/ (op.entry = p.entry /\ op.step <= p.step)}

(* The rows w needs next: of its list, then of the leftovers, in any order.*)
NextRows(w) ==
    IF tx[w].todo = {} THEN tx[w].rest
    ELSE {op.id : op \in {o \in NextOps(w) : o.do \in {"update", "delete"}}}

WaitsFor(w, x) ==
    /\ tx[w].open /\ x \in Others(w)
    /\ \/ NextRows(w) # {} /\ NextRows(w) \subseteq Locked(x)
       \/ tx[w].group /\ \E op \in NextOps(w) : GroupOf[op.key] \in tx[x].grp

Rollback(w) ==
    /\ tx' = [tx EXCEPT ![w] = NoTx]
    /\ UNCHANGED <<domain, owner, manual, published, file, up, table, older, groups,
                   versions, edits, declared, inherited>>

Write(w, t) ==
    /\ tx' = [tx EXCEPT ![w] = t]
    /\ UNCHANGED <<domain, owner, manual, published, file, up, table, older, groups,
                   versions, edits, faults, declared, inherited>>

Popped(w, op) == [tx[w] EXCEPT !.todo = @ \ {op}, !.group = FALSE]

(* createGrantTx, and before it ensureGroupTx: a host rule whose group is  *)
(* missing inserts it in a statement of its own.                           *)
InsertRule(w) == \E op \in NextOps(w) :
    /\ tx[w].open /\ op.do = "insert" /\ ~tx[w].group
    /\ IF domain = "host" /\ GroupOf[op.key] \notin groups \cup tx[w].grp
       THEN Write(w, [tx[w] EXCEPT !.group = TRUE])
       ELSE Write(w, [Popped(w, op) EXCEPT !.ins = @ \cup {op}])

(* The unique index on groups lets one transaction through.                *)
InsertGroup(w) == \E op \in NextOps(w) :
    LET g == GroupOf[op.key]
    IN /\ tx[w].open /\ tx[w].group /\ op.do = "insert"
       /\ \A x \in Others(w) : g \notin tx[x].grp
       /\ IF g \in groups
          THEN Rollback(w) /\ UNCHANGED faults
          ELSE Write(w, [Popped(w, op) EXCEPT !.grp = @ \cup {g}, !.ins = @ \cup {op}])

(* updateGrantTx: a row that is gone is ErrNotFound.                       *)
UpdateRule(w) == \E op \in NextOps(w) :
    /\ tx[w].open /\ op.do = "update"
    /\ \A x \in Others(w) : op.id \notin Locked(x)
    /\ IF op.id \notin Ids(table)
       THEN Rollback(w) /\ UNCHANGED faults
       ELSE Write(w, [Popped(w, op) EXCEPT !.upd = @ \cup
                        {[id |-> op.id, key |-> op.key, val |-> op.val]}])

(* deleteGrantTx, of a duplicate or of a rule that is not declared.        *)
DeleteRule(w, id) ==
    /\ tx[w].open /\ id \in NextRows(w)
    /\ \A op \in NextOps(w) : op.do = "delete"
    /\ \A x \in Others(w) : id \notin Locked(x)
    /\ IF id \notin Ids(table)
       THEN Rollback(w) /\ UNCHANGED faults
       ELSE Write(w, [tx[w] EXCEPT !.todo = @ \ {op \in NextOps(w) : op.id = id},
                                   !.rest = @ \ {id}, !.del = @ \cup {id}])

Refuse(w) ==
    /\ tx[w].open /\ \E op \in NextOps(w) : op.do = "fail"
    /\ Rollback(w) /\ UNCHANGED faults

(* The database breaks a cycle of waiting by aborting a member.            *)
Deadlock(w) ==
    /\ \E S \in SUBSET Writers : w \in S /\ \A x \in S : \E y \in S : WaitsFor(x, y)
    /\ Rollback(w) /\ UNCHANGED faults

(* A statement fails or the request is cut off.                            *)
DatabaseError(w) ==
    /\ tx[w].open /\ faults < MaxFaults
    /\ faults' = faults + 1
    /\ Rollback(w)

(* The replica dies; the database rolls back.                              *)
Crash(r) ==
    /\ owner = "file" /\ up[r] = "serving" /\ faults < MaxFaults
    /\ faults' = faults + 1
    /\ tx' = [tx EXCEPT ![r] = NoTx]
    /\ up' = [up EXCEPT ![r] = "starting"]
    /\ UNCHANGED <<domain, owner, manual, published, file, table, older, groups,
                   versions, edits, declared, inherited>>

(* The rows of the table as a transaction leaves them.                     *)
Written(w) == {row \in table : row.id \notin Locked(w)} \cup
              {u \in tx[w].upd : u.id \in Ids(table) \ tx[w].del}

(* Ids that no row and no open transaction holds, and how w may give them  *)
(* to the rows it inserts.                                                 *)
FreeIds == RuleIds \ (Ids(table) \cup
             UNION {tx[w].base : w \in {x \in Writers : tx[x].open}})

Numberings(w) == {f \in [tx[w].ins -> FreeIds] :
                    \A a, b \in tx[w].ins : f[a] = f[b] => a = b}

(* Commit.  created_at is the time the transaction began, so new rows are  *)
(* younger than the rows it read, but rows of transactions that ran at the *)
(* same time may be on either side; before are the rows older than the new *)
(* ones.                                                                   *)
CommitRules(w) ==
    /\ tx[w].open /\ tx[w].todo = {} /\ tx[w].rest = {}
    /\ Numberings(w) # {}
    /\ LET number == CHOOSE f \in Numberings(w) : TRUE
           new    == {number[op] : op \in tx[w].ins}
           kept   == Ids(Written(w))
       IN \E before \in SUBSET kept :
            /\ kept \cap tx[w].base \subseteq before
            /\ \A i \in kept \ before, j \in before : <<i, j>> \notin older
            /\ tx[w].ins = {} => before = kept
            /\ table' = Written(w) \cup
                 {[id |-> number[op], key |-> op.key, val |-> op.val] : op \in tx[w].ins}
            /\ older' = (older \cap (kept \X kept)) \cup (before \X new)
                 \cup (new \X (kept \ before)) \cup {o \in new \X new : o[1] < o[2]}
    /\ groups' = groups \cup tx[w].grp
    /\ tx' = [tx EXCEPT ![w] = NoTx]
    /\ up' = IF w \in Replicas THEN [up EXCEPT ![w] = "serving"] ELSE up
    /\ inherited' = IF w \in Replicas THEN {} ELSE inherited
    /\ UNCHANGED <<domain, owner, manual, published, file, versions, edits, faults, declared>>

TxStep(w) == \/ InsertRule(w) \/ InsertGroup(w) \/ UpdateRule(w)
             \/ \E id \in RuleIds : DeleteRule(w, id)
             \/ Refuse(w) \/ Deadlock(w) \/ CommitRules(w)

RulesNext ==
    \/ \E c \in Contents : Publish(c)
    \/ \E r \in Replicas : Propagate(r) \/ SyncRules(r) \/ Crash(r)
    \/ \E a \in Admins :
         \/ \E c \in Contents : AdminApply(a, c)
         \/ \E k \in Keys, v \in Vals : \/ AdminCreate(a, k, v)
                                        \/ \E row \in table : AdminUpdate(a, row, k, v)
         \/ \E row \in table : AdminDelete(a, row)
    \/ \E w \in Writers : TxStep(w) \/ DatabaseError(w)

(* The kubelet refreshes the mounted file and the ticker fires again and   *)
(* again.  The database serves every statement that need not wait, and one *)
(* that waits for a row is next when the row becomes free: a transaction   *)
(* that keeps being waited for and aborted cannot shut it out.             *)
RulesFairness == \A r \in Replicas : /\ WF_ruleVars(Propagate(r))
                                     /\ WF_ruleVars(SyncRules(r))
                                     /\ SF_ruleVars(TxStep(r))

RulesSpec == RulesInit /\ [][RulesNext]_ruleVars /\ RulesFairness

-----------------------------------------------------------------------------
(* Where a file owns the rules, or where in-app editing is off, no rule    *)
(* exists that was not declared: not an edit, no part of a file that is    *)
(* broken or incomplete, and nothing older than the first replica that     *)
(* serves, whichever replicas and requests interleave.                     *)
OnlyDeclared == owner = "file" \/ ~manual
                  => Rules(table) \subseteq declared \cup inherited

(* A rule that all versions of the file agree on is never gone, not even   *)
(* for a moment: replicas that remove its duplicates at the same time, from *)
(* different snapshots, keep one of them.                                  *)
DeclaredInAll(k) == \A c \in Contents : Valid(c) =>
                        \E i \in DOMAIN c.specs : c.specs[i].key = k

RuleKept ==
    [][\A k \in Keys :
         owner = "file" /\ DeclaredInAll(k) /\ (\E r \in Rules(table) : r.key = k)
           => \E r \in Rules(table') : r.key = k]_ruleVars

(* The table is the file: the same rules, each of them once.               *)
Reconciled == /\ Rules(table) = Rules(ToSet(published.specs))
              /\ Cardinality(table) = Len(published.specs)

(* Once the published file is valid and stays, the table becomes the file  *)
(* and stays so: collisions of the replicas (a missing row, a lost race    *)
(* for a group, a deadlock, a failed start) delay it and leave nothing     *)
(* behind, neither duplicates nor mixtures of versions.                    *)
FileConverges == owner = "file" /\ <>[]Valid(published) => <>[]Reconciled
=============================================================================
