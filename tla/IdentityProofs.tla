--------------------------- MODULE IdentityProofs ---------------------------
(***************************************************************************)
(* Proofs about Identity, for any number of users, groups, requests and    *)
(* replicas: no interleaving of logins and group syncs, no overlapping     *)
(* SetUserGroups transactions and no failure between two statements gives  *)
(* a user a membership, or a certificate, that the identity provider never *)
(* vouched for.                                                            *)
(*                                                                         *)
(* The property speaks of the tables; the strengthening follows the        *)
(* provider's word to them: into tokens, the claims of a request and the   *)
(* directory a sync pass has read, and it says whose memberships an open   *)
(* transaction replaces.                                                   *)
(***************************************************************************)
EXTENDS Identity, TLAPS

ReqStates == [pc : {"idle", "lookup", "create", "update", "groups", "commit", "grants"},
              user : Users \cup {None}, claims : Accounts \cup {None},
              copy : Rows \cup {NoRow}]

SyncStates == [pc : {"idle", "list", "next", "update", "groups", "commit"},
               dir : [Users -> Accounts] \cup {None},
               rows : [Users -> Rows \cup {NoRow}] \cup {None},
               todo : SUBSET Users, user : Users \cup {None}]

TxStates == [user : Users \cup {None}, sees : SUBSET Groups]

IdTypes == /\ idp \in [Users -> Accounts]
           /\ tokens \subseteq [user : Users, claims : Accounts]
           /\ row \in [Users -> Rows \cup {NoRow}]
           /\ groups \in [Users -> SUBSET Groups]
           /\ tx \in [Procs -> TxStates]
           /\ req \in [Requests -> ReqStates]
           /\ sync \in [Syncers -> SyncStates]
           /\ issued \subseteq Users
           /\ asserted \in [Users -> SUBSET SUBSET Groups]

(* A request carries claims the provider made about its user.              *)
ReqSound(q) ==
    /\ q.pc # "idle" => /\ q.user \in Users
                        /\ q.claims \in Accounts
                        /\ q.claims.groups \in asserted[q.user]
    /\ q.pc = "update" => q.copy \in Rows

(* A sync pass works with what the directory said when the pass began.     *)
SyncSound(z) ==
    /\ z.pc # "idle" => /\ z.dir \in [Users -> Accounts]
                        /\ \A u \in Users : z.dir[u].groups \in asserted[u]
    /\ z.pc \in {"next", "update", "groups", "commit"} =>
            z.rows \in [Users -> Rows \cup {NoRow}]
    /\ z.pc \in {"update", "groups", "commit"} => z.user \in Users

(* The provider's word, wherever it is on its way to the tables.           *)
Said == /\ \A u \in Users : idp[u].groups \in asserted[u]
        /\ \A t \in tokens : t.claims.groups \in asserted[t.user]
        /\ \A r \in Requests : ReqSound(req[r])
        /\ \A s \in Syncers : SyncSound(sync[s])

(* An open transaction replaces the memberships of the user at hand.       *)
OpenTx == /\ \A r \in Requests : req[r].pc = "commit" => tx[r].user = req[r].user
          /\ \A s \in Syncers : sync[s].pc = "commit" => tx[s].user = sync[s].user

(* The inductive invariant.                                                *)
IdInv == IdTypes /\ Said /\ OpenTx /\ NoEscalation

-----------------------------------------------------------------------------
(* Nobody is None, and an account's groups are groups.                     *)
LEMMA AccountFields ==
    ASSUME NEW a \in Accounts
    PROVE  a.active \in BOOLEAN /\ a.name \in Names /\ a.groups \in SUBSET Groups
BY IdentityAssumption

(* A row has an active flag, and is a row without it.                      *)
LEMMA RowFields ==
    ASSUME NEW x \in Rows \cup {NoRow}
    PROVE  x.active \in BOOLEAN /\ [x EXCEPT !.active = FALSE] \in Rows \cup {NoRow}
<1>1. CASE x \in Rows
    BY <1>1 DEF Rows
<1>2. CASE x = NoRow
    <2> DEFINE y == [NoRow EXCEPT !.active = FALSE]
    <2>1. NoRow \in [active : BOOLEAN, name : {None}] /\ NoRow.active = FALSE
        BY DEF NoRow
    <2>2. y \in [active : BOOLEAN, name : {None}]
        BY <2>1
    <2>3. y.active = FALSE
        BY <2>1
    <2>4. y.name = NoRow.name
        BY <2>1
    <2> HIDE DEF y
    <2>5. y = NoRow
        BY <2>1, <2>2, <2>3, <2>4
    <2> QED
        BY <1>2, <2>1, <2>5 DEF y
<1> QED
    BY <1>1, <1>2

(* The idle states are states.                                             *)
LEMMA IdleStates == /\ NoTx \in TxStates
                    /\ IdleReq \in ReqStates /\ IdleReq.pc = "idle"
                    /\ IdleSync \in SyncStates /\ IdleSync.pc = "idle"
BY DEF NoTx, TxStates, IdleReq, ReqStates, IdleSync, SyncStates, NoRow

(* Initially nobody is a member of anything.                               *)
LEMMA InitIdInv == Init => IdInv
<1> SUFFICES ASSUME Init PROVE IdInv
    OBVIOUS
<1>1. idp \in [Users -> Accounts]
    BY DEF Init
<1>2. /\ tokens = {} /\ issued = {}
      /\ row = [u \in Users |-> NoRow] /\ groups = [u \in Users |-> {}]
      /\ tx = [p \in Procs |-> NoTx]
      /\ req = [r \in Requests |-> IdleReq] /\ sync = [s \in Syncers |-> IdleSync]
      /\ asserted = [u \in Users |-> {{}, idp[u].groups}]
    BY DEF Init
<1>3. \A u \in Users : idp[u].groups \in SUBSET Groups
    BY <1>1, AccountFields
<1>4. IdTypes
    <2>1. asserted \in [Users -> SUBSET SUBSET Groups]
        BY <1>2, <1>3
    <2>2. /\ tx \in [Procs -> TxStates] /\ req \in [Requests -> ReqStates]
          /\ sync \in [Syncers -> SyncStates]
        BY <1>2, IdleStates
    <2> QED
        BY <1>1, <1>2, <2>1, <2>2 DEF IdTypes
<1>5. Said
    BY <1>1, <1>2, IdleStates DEF Said, ReqSound, SyncSound
<1>6. OpenTx
    BY <1>2, IdleStates DEF OpenTx
<1>7. NoEscalation
    BY <1>2 DEF NoEscalation
<1> QED
    BY <1>4, <1>5, <1>6, <1>7 DEF IdInv

-----------------------------------------------------------------------------
(* Tables that hold what the provider said, the transactions besides p's   *)
(* being whose they were.                                                  *)
TablesKept(p) ==
    /\ row' \in [Users -> Rows \cup {NoRow}]
    /\ groups' \in [Users -> SUBSET Groups]
    /\ \A u \in Users : groups'[u] \subseteq UNION asserted[u]
    /\ tx' \in [Procs -> TxStates]
    /\ \A q \in Procs \ {p} : tx'[q].user = tx[q].user

(* Steps that leave memberships and transactions alone.                    *)
LEMMA TablesIdle ==
    ASSUME IdInv, NEW p \in Procs, row' \in [Users -> Rows \cup {NoRow}],
           groups' = groups, tx' = tx
    PROVE  TablesKept(p)
BY DEF IdInv, IdTypes, NoEscalation, TablesKept

(* A transaction begins.                                                   *)
LEMMA TablesBegin ==
    ASSUME IdInv, NEW p \in Procs, NEW u \in Users, BeginSet(p, u),
           row' = row, groups' = groups
    PROVE  TablesKept(p) /\ tx'[p].user = u
<1>1. [user |-> u, sees |-> groups[u]] \in TxStates
    BY DEF IdInv, IdTypes, TxStates
<1>2. tx' = [tx EXCEPT ![p] = [user |-> u, sees |-> groups[u]]]
    BY DEF BeginSet
<1> QED
    BY <1>1, <1>2 DEF IdInv, IdTypes, NoEscalation, TablesKept

(* It is rolled back.                                                      *)
LEMMA TablesRollback ==
    ASSUME IdInv, NEW p \in Procs, Rollback(p), row' = row
    PROVE  TablesKept(p)
BY IdleStates DEF IdInv, IdTypes, NoEscalation, TablesKept, Rollback

(* It commits: survivors of overlapping transactions and the new           *)
(* memberships alike are the provider's word.                              *)
LEMMA TablesCommit ==
    ASSUME IdInv, NEW p \in Procs, NEW want \in SUBSET Groups, tx[p].user \in Users,
           want \subseteq UNION asserted[tx[p].user], CommitSet(p, want), row' = row
    PROVE  TablesKept(p)
<1> DEFINE u == tx[p].user
<1>1. /\ groups \in [Users -> SUBSET Groups] /\ tx \in [Procs -> TxStates] /\ u \in Users
      /\ row \in [Users -> Rows \cup {NoRow}]
      /\ \A v \in Users : groups[v] \subseteq UNION asserted[v]
    BY DEF IdInv, IdTypes, NoEscalation
<1>2. /\ groups' = [groups EXCEPT ![u] = Survivors(p) \cup want]
      /\ tx' = [q \in Procs |->
                    IF q = p THEN NoTx
                    ELSE IF tx[q].user = u THEN [tx[q] EXCEPT !.sees = @ \ want]
                    ELSE tx[q]]
    BY DEF CommitSet
<1>3. Survivors(p) \subseteq groups[u]
    BY DEF Survivors
<1>4. \A q \in Procs : /\ [tx[q] EXCEPT !.sees = @ \ want] \in TxStates
                       /\ [tx[q] EXCEPT !.sees = @ \ want].user = tx[q].user
    BY <1>1 DEF TxStates
<1> HIDE DEF u
<1>5. tx' \in [Procs -> TxStates] /\ \A q \in Procs \ {p} : tx'[q].user = tx[q].user
    BY <1>1, <1>2, <1>4, IdleStates
<1>6. want \subseteq UNION asserted[u]
    BY DEF u
<1>7. groups' \in [Users -> SUBSET Groups]
    BY <1>1, <1>2, <1>3
<1>8. ASSUME NEW v \in Users PROVE groups'[v] \subseteq UNION asserted[v]
    BY <1>1, <1>2, <1>3, <1>6
<1> QED
    BY <1>1, <1>5, <1>7, <1>8 DEF TablesKept

-----------------------------------------------------------------------------
(* A step of request r.                                                    *)
LEMMA OneRequest ==
    ASSUME IdInv, NEW r \in Requests, NEW q \in ReqStates, req' = [req EXCEPT ![r] = q],
           ReqSound(q), q.pc = "commit" => tx'[r].user = q.user, TablesKept(r),
           issued' \subseteq Users,
           \A u \in issued' : Granted \cap UNION asserted[u] # {},
           idp' = idp, tokens' = tokens, sync' = sync, asserted' = asserted
    PROVE  IdInv'
<1>1. req' \in [Requests -> ReqStates]
    BY DEF IdInv, IdTypes
<1>2. IdTypes'
    BY <1>1 DEF IdInv, IdTypes, TablesKept
<1>3. Said'
    <2>1. ASSUME NEW x \in Requests PROVE ReqSound(req[x])'
        BY DEF IdInv, IdTypes, Said, ReqSound
    <2>2. \A s \in Syncers : SyncSound(sync[s])'
        BY DEF IdInv, Said, SyncSound
    <2> QED
        BY <2>1, <2>2 DEF IdInv, Said
<1>4. OpenTx'
    <2>1. ASSUME NEW x \in Requests, req'[x].pc = "commit" PROVE tx'[x].user = req'[x].user
        BY <2>1 DEF IdInv, IdTypes, OpenTx, TablesKept, Procs
    <2>2. ASSUME NEW s \in Syncers, sync'[s].pc = "commit" PROVE tx'[s].user = sync'[s].user
        BY <2>2, IdentityAssumption DEF IdInv, OpenTx, TablesKept, Procs
    <2> QED
        BY <2>1, <2>2 DEF OpenTx
<1>5. NoEscalation'
    BY DEF TablesKept, NoEscalation
<1> QED
    BY <1>2, <1>3, <1>4, <1>5 DEF IdInv

(* A step of replica s's sync.                                             *)
LEMMA OneSync ==
    ASSUME IdInv, NEW s \in Syncers, NEW z \in SyncStates, sync' = [sync EXCEPT ![s] = z],
           SyncSound(z), z.pc = "commit" => tx'[s].user = z.user, TablesKept(s),
           idp' = idp, tokens' = tokens, req' = req, asserted' = asserted,
           issued' = issued
    PROVE  IdInv'
<1>1. sync' \in [Syncers -> SyncStates]
    BY DEF IdInv, IdTypes
<1>2. IdTypes'
    BY <1>1 DEF IdInv, IdTypes, TablesKept
<1>3. Said'
    <2>1. ASSUME NEW x \in Syncers PROVE SyncSound(sync[x])'
        <3>1. SyncSound(sync'[x])
            BY DEF IdInv, IdTypes, Said
        <3> QED
            BY <3>1 DEF SyncSound
    <2>2. \A r \in Requests : ReqSound(req[r])'
        BY DEF IdInv, Said, ReqSound
    <2> QED
        BY <2>1, <2>2 DEF IdInv, Said
<1>4. OpenTx'
    <2>1. ASSUME NEW x \in Syncers, sync'[x].pc = "commit" PROVE tx'[x].user = sync'[x].user
        BY <2>1 DEF IdInv, IdTypes, OpenTx, TablesKept, Procs
    <2>2. ASSUME NEW r \in Requests, req'[r].pc = "commit" PROVE tx'[r].user = req'[r].user
        BY <2>2, IdentityAssumption DEF IdInv, OpenTx, TablesKept, Procs
    <2> QED
        BY <2>1, <2>2 DEF OpenTx
<1>5. NoEscalation'
    BY DEF TablesKept, NoEscalation, IdInv
<1> QED
    BY <1>2, <1>3, <1>4, <1>5 DEF IdInv

-----------------------------------------------------------------------------
(* The identity provider changes an account: its word is only added to.    *)
LEMMA ProviderStep ==
    ASSUME IdInv,
           \/ \E u \in Users, a \in Accounts : ChangeAccount(u, a)
           \/ \E u \in Users : ObtainToken(u)
           \/ \E t \in tokens : Expire(t)
    PROVE  IdInv'
<1>1. CASE \E u \in Users, a \in Accounts : ChangeAccount(u, a)
    <2>1. PICK u \in Users, a \in Accounts : ChangeAccount(u, a)
        BY <1>1
    <2>2. /\ idp' = [idp EXCEPT ![u] = a]
          /\ asserted' = [asserted EXCEPT ![u] = @ \cup {a.groups}]
          /\ tokens' = tokens /\ row' = row /\ groups' = groups /\ tx' = tx
          /\ req' = req /\ sync' = sync /\ issued' = issued
        BY <2>1 DEF ChangeAccount
    <2>3. IdTypes'
        BY <2>2, AccountFields DEF IdInv, IdTypes
    <2>4. \A v \in Users : asserted[v] \subseteq asserted'[v]
        BY <2>2 DEF IdInv, IdTypes
    <2>5. \A v \in Users : idp'[v].groups \in asserted'[v]
        BY <2>2, <2>4 DEF IdInv, IdTypes, Said
    <2>6. \A t \in tokens : t.claims.groups \in asserted'[t.user]
        BY <2>4 DEF IdInv, IdTypes, Said
    <2>7. \A r \in Requests : ReqSound(req[r])'
        BY <2>2, <2>4 DEF IdInv, Said, ReqSound
    <2>8. \A s \in Syncers : SyncSound(sync[s])'
        BY <2>2, <2>4 DEF IdInv, Said, SyncSound
    <2>9. OpenTx'
        BY <2>2 DEF IdInv, OpenTx
    <2>10. NoEscalation'
        BY <2>2, <2>4 DEF IdInv, NoEscalation
    <2> QED
        BY <2>2, <2>3, <2>5, <2>6, <2>7, <2>8, <2>9, <2>10 DEF IdInv, Said
<1>2. CASE \/ \E u \in Users : ObtainToken(u)
           \/ \E t \in tokens : Expire(t)
    <2>1. /\ idp' = idp /\ asserted' = asserted /\ row' = row /\ groups' = groups
          /\ tx' = tx /\ req' = req /\ sync' = sync /\ issued' = issued
        BY <1>2 DEF ObtainToken, Expire
    <2>2. ASSUME NEW t \in tokens', t \notin tokens
          PROVE  \E u \in Users : t = [user |-> u, claims |-> idp[u]]
        BY <1>2, <2>2 DEF ObtainToken, Expire
    <2>3. \A t \in tokens' : /\ t \in [user : Users, claims : Accounts]
                             /\ t.claims.groups \in asserted[t.user]
        BY <2>2 DEF IdInv, IdTypes, Said
    <2>4. Said'
        BY <2>1, <2>3 DEF IdInv, Said, ReqSound, SyncSound
    <2>5. IdTypes'
        BY <2>1, <2>3 DEF IdInv, IdTypes
    <2> QED
        BY <2>1, <2>4, <2>5 DEF IdInv, OpenTx, NoEscalation
<1> QED
    BY <1>1, <1>2

-----------------------------------------------------------------------------
(* What a request knows, by its program counter.                           *)
LEMMA RequestKnows ==
    ASSUME IdInv, NEW r \in Requests, req[r].pc # "idle"
    PROVE  /\ req[r] \in ReqStates /\ r \in Procs
           /\ req[r].user \in Users /\ req[r].claims \in Accounts
           /\ req[r].claims.groups \in asserted[req[r].user]
           /\ req[r].claims.groups \in SUBSET Groups
           /\ req[r].claims.name \in Names
           /\ req[r].pc = "update" => req[r].copy \in Rows
           /\ row \in [Users -> Rows \cup {NoRow}]
           /\ issued \subseteq Users
           /\ \A u \in issued : Granted \cap UNION asserted[u] # {}
           /\ \A u \in Users : groups[u] \subseteq UNION asserted[u]
BY AccountFields DEF IdInv, IdTypes, Said, ReqSound, NoEscalation, Procs

(* A request begins with the claims of a token.                            *)
LEMMA ArriveKeeps ==
    ASSUME IdInv, NEW r \in Requests, NEW t \in tokens, Arrive(r, t)
    PROVE  IdInv'
<1> DEFINE q == [IdleReq EXCEPT !.pc = "lookup", !.user = t.user, !.claims = t.claims]
<1>1. /\ t.user \in Users /\ t.claims \in Accounts
      /\ t.claims.groups \in asserted[t.user]
      /\ row \in [Users -> Rows \cup {NoRow}] /\ issued \subseteq Users
      /\ \A u \in issued : Granted \cap UNION asserted[u] # {}
    BY DEF IdInv, IdTypes, Said, NoEscalation
<1>2. q \in ReqStates /\ q.pc = "lookup" /\ q.user = t.user /\ q.claims = t.claims
    BY <1>1 DEF IdleReq, ReqStates, NoRow
<1>3. /\ req' = [req EXCEPT ![r] = q]
      /\ idp' = idp /\ tokens' = tokens /\ row' = row /\ groups' = groups /\ tx' = tx
      /\ sync' = sync /\ issued' = issued /\ asserted' = asserted
    BY DEF Arrive
<1> HIDE DEF q
<1>4. ReqSound(q)
    BY <1>1, <1>2 DEF ReqSound
<1>5. TablesKept(r)
    BY <1>1, <1>3, TablesIdle DEF Procs
<1> QED
    BY <1>1, <1>2, <1>3, <1>4, <1>5, OneRequest

(* A request moves on.                                                     *)
LEMMA Moves ==
    ASSUME IdInv, NEW r \in Requests, req[r].pc # "idle",
           NEW pc \in {"lookup", "create", "update", "groups", "commit", "grants"}
    PROVE  /\ [req[r] EXCEPT !.pc = pc] \in ReqStates
           /\ [req[r] EXCEPT !.pc = pc].pc = pc
           /\ [req[r] EXCEPT !.pc = pc].user = req[r].user
           /\ [req[r] EXCEPT !.pc = pc].claims = req[r].claims
BY RequestKnows DEF ReqStates

(* A step of a request that ends in the state q.                           *)
LEMMA RequestGoesOn ==
    ASSUME IdInv, NEW r \in Requests, req[r].pc # "idle", NEW q \in ReqStates,
           req' = [req EXCEPT ![r] = q],
           q.user = req[r].user, q.claims = req[r].claims,
           q.pc = "update" => q.copy \in Rows,
           q.pc = "commit" => tx'[r].user = req[r].user,
           TablesKept(r), idp' = idp, tokens' = tokens, sync' = sync,
           issued' = issued, asserted' = asserted
    PROVE  IdInv'
<1>1. ReqSound(q)
    BY RequestKnows DEF ReqSound
<1> QED
    BY <1>1, RequestKnows, OneRequest

(* A request ends.                                                         *)
LEMMA RequestEnds ==
    ASSUME IdInv, NEW r \in Requests, req[r].pc # "idle",
           req' = [req EXCEPT ![r] = IdleReq],
           TablesKept(r), idp' = idp, tokens' = tokens, sync' = sync,
           issued' \subseteq Users,
           \A u \in issued' : Granted \cap UNION asserted[u] # {}, asserted' = asserted
    PROVE  IdInv'
<1>1. ReqSound(IdleReq)
    BY IdleStates DEF ReqSound
<1> QED
    BY <1>1, IdleStates, OneRequest

(* The steps of a request keep the invariant.                              *)
LEMMA RequestStepKeeps ==
    ASSUME IdInv, NEW r \in Requests, RequestStep(r) PROVE IdInv'
<1> DEFINE q == req[r]
<1>1. CASE Lookup(r)
    <2>1. /\ q.pc = "lookup" /\ row' = row /\ groups' = groups /\ tx' = tx /\ idp' = idp
          /\ tokens' = tokens /\ sync' = sync /\ issued' = issued /\ asserted' = asserted
        BY <1>1 DEF Lookup
    <2>2. TablesKept(r)
        BY <2>1, RequestKnows, TablesIdle
    <2>4. row[q.user] \in Rows \cup {NoRow}
        BY <2>1, RequestKnows
    <2>5. \/ req' = [req EXCEPT ![r] = [q EXCEPT !.pc = "create"]]
          \/ req' = [req EXCEPT ![r] = IdleReq]
          \/ req' = [req EXCEPT ![r] = [q EXCEPT !.pc = "update", !.copy = row[q.user]]]
             /\ row[q.user] # NoRow
          \/ req' = [req EXCEPT ![r] = [q EXCEPT !.pc = "groups"]]
        BY <1>1 DEF Lookup
    <2>6. CASE req' = [req EXCEPT ![r] = [q EXCEPT !.pc = "create"]]
        <3> DEFINE n == [q EXCEPT !.pc = "create"]
        <3>1. /\ n \in ReqStates /\ n.pc = "create" /\ n.user = q.user
              /\ n.claims = q.claims
            BY <2>1, Moves
        <3> HIDE DEF n
        <3> QED
            BY <2>1, <2>2, <2>6, <3>1, RequestGoesOn DEF n
    <2>7. CASE req' = [req EXCEPT ![r] = IdleReq]
        BY <2>1, <2>2, <2>7, RequestEnds, RequestKnows
    <2>8. CASE /\ req' = [req EXCEPT ![r] = [q EXCEPT !.pc = "update", !.copy = row[q.user]]]
               /\ row[q.user] # NoRow
        <3> DEFINE n == [q EXCEPT !.pc = "update", !.copy = row[q.user]]
        <3>1. /\ n \in ReqStates /\ n.pc = "update" /\ n.user = q.user
              /\ n.claims = q.claims /\ n.copy = row[q.user]
            BY <2>1, <2>4, RequestKnows DEF ReqStates
        <3> HIDE DEF n
        <3> QED
            BY <2>1, <2>2, <2>4, <2>8, <3>1, RequestGoesOn DEF n
    <2>9. CASE req' = [req EXCEPT ![r] = [q EXCEPT !.pc = "groups"]]
        <3> DEFINE n == [q EXCEPT !.pc = "groups"]
        <3>1. /\ n \in ReqStates /\ n.pc = "groups" /\ n.user = q.user
              /\ n.claims = q.claims
            BY <2>1, Moves
        <3> HIDE DEF n
        <3> QED
            BY <2>1, <2>2, <2>9, <3>1, RequestGoesOn DEF n
    <2> QED
        BY <2>5, <2>6, <2>7, <2>8, <2>9
<1>2. CASE CreateUser(r)
    <2>1. /\ q.pc = "create" /\ groups' = groups /\ tx' = tx /\ idp' = idp
          /\ tokens' = tokens /\ sync' = sync /\ issued' = issued /\ asserted' = asserted
        BY <1>2 DEF CreateUser
    <2>3. [active |-> TRUE, name |-> q.claims.name] \in Rows
        BY <2>1, RequestKnows DEF Rows
    <2>4. \/ /\ row' = [row EXCEPT ![q.user] = [active |-> TRUE, name |-> q.claims.name]]
             /\ req' = [req EXCEPT ![r] = [q EXCEPT !.pc = "groups"]]
          \/ row' = row /\ req' = [req EXCEPT ![r] = IdleReq]
        BY <1>2 DEF CreateUser
    <2>5. row' \in [Users -> Rows \cup {NoRow}]
        BY <2>1, <2>3, <2>4, RequestKnows
    <2>6. TablesKept(r)
        BY <2>1, <2>5, RequestKnows, TablesIdle
    <2>7. CASE req' = [req EXCEPT ![r] = [q EXCEPT !.pc = "groups"]]
        <3> DEFINE n == [q EXCEPT !.pc = "groups"]
        <3>1. /\ n \in ReqStates /\ n.pc = "groups" /\ n.user = q.user
              /\ n.claims = q.claims
            BY <2>1, Moves
        <3> HIDE DEF n
        <3> QED
            BY <2>1, <2>6, <2>7, <3>1, RequestGoesOn DEF n
    <2>8. CASE req' = [req EXCEPT ![r] = IdleReq]
        BY <2>1, <2>6, <2>8, RequestEnds, RequestKnows
    <2> QED
        BY <2>4, <2>7, <2>8
<1>3. CASE UpdateUser(r)
    <2>1. /\ q.pc = "update" /\ groups' = groups /\ tx' = tx /\ idp' = idp
          /\ tokens' = tokens /\ sync' = sync /\ issued' = issued /\ asserted' = asserted
        BY <1>3 DEF UpdateUser
    <2>3. [q.copy EXCEPT !.name = q.claims.name] \in Rows
        BY <2>1, RequestKnows DEF Rows
    <2>4. /\ row' = [row EXCEPT ![q.user] = [q.copy EXCEPT !.name = q.claims.name]]
          /\ req' = [req EXCEPT ![r] = [q EXCEPT !.pc = "groups", !.copy = NoRow]]
        BY <1>3 DEF UpdateUser
    <2>5. row' \in [Users -> Rows \cup {NoRow}]
        BY <2>1, <2>3, <2>4, RequestKnows
    <2>6. TablesKept(r)
        BY <2>1, <2>5, RequestKnows, TablesIdle
    <2> QED
        <3> DEFINE n == [q EXCEPT !.pc = "groups", !.copy = NoRow]
        <3>1. /\ n \in ReqStates /\ n.pc = "groups" /\ n.user = q.user
              /\ n.claims = q.claims
            BY <2>1, RequestKnows DEF ReqStates
        <3> HIDE DEF n
        <3> QED
            BY <2>1, <2>4, <2>6, <3>1, RequestGoesOn DEF n
<1>4. CASE BeginSetGroups(r)
    <2>1. /\ q.pc = "groups" /\ row' = row /\ groups' = groups /\ idp' = idp
          /\ tokens' = tokens /\ sync' = sync /\ issued' = issued /\ asserted' = asserted
          /\ BeginSet(r, q.user)
          /\ req' = [req EXCEPT ![r] = [q EXCEPT !.pc = "commit"]]
        BY <1>4 DEF BeginSetGroups
    <2>3. TablesKept(r) /\ tx'[r].user = q.user
        BY <2>1, RequestKnows, TablesBegin
    <2> QED
        <3> DEFINE n == [q EXCEPT !.pc = "commit"]
        <3>1. /\ n \in ReqStates /\ n.pc = "commit" /\ n.user = q.user
              /\ n.claims = q.claims
            BY <2>1, Moves
        <3> HIDE DEF n
        <3> QED
            BY <2>1, <2>3, <3>1, RequestGoesOn DEF n
<1>5. CASE CommitSetGroups(r)
    <2>1. /\ q.pc = "commit" /\ row' = row /\ idp' = idp
          /\ tokens' = tokens /\ sync' = sync /\ issued' = issued /\ asserted' = asserted
          /\ CommitSet(r, q.claims.groups)
          /\ req' = [req EXCEPT ![r] = [q EXCEPT !.pc = "grants"]]
        BY <1>5 DEF CommitSetGroups
    <2>3. tx[r].user = q.user
        BY <2>1 DEF IdInv, OpenTx
    <2>4. TablesKept(r)
        BY <2>1, <2>3, RequestKnows, TablesCommit
    <2> QED
        <3> DEFINE n == [q EXCEPT !.pc = "grants"]
        <3>1. /\ n \in ReqStates /\ n.pc = "grants" /\ n.user = q.user
              /\ n.claims = q.claims
            BY <2>1, Moves
        <3> HIDE DEF n
        <3> QED
            BY <2>1, <2>4, <3>1, RequestGoesOn DEF n
<1>6. CASE Sign(r) \/ FinishUnsigned(r)
    <2>1. /\ q.pc = "grants" /\ row' = row /\ groups' = groups /\ tx' = tx /\ idp' = idp
          /\ tokens' = tokens /\ sync' = sync /\ asserted' = asserted
          /\ req' = [req EXCEPT ![r] = IdleReq]
        BY <1>6 DEF Sign, FinishUnsigned
    <2>2. \/ issued' = issued
          \/ issued' = issued \cup {q.user} /\ groups[q.user] \cap Granted # {}
        BY <1>6 DEF Sign, FinishUnsigned, ListGrantsForUser
    <2>3. issued' \subseteq Users /\ \A u \in issued' : Granted \cap UNION asserted[u] # {}
        BY <2>1, <2>2, RequestKnows
    <2>4. TablesKept(r)
        BY <2>1, RequestKnows, TablesIdle
    <2> QED
        BY <2>1, <2>3, <2>4, RequestEnds
<1>7. CASE FailRequest(r)
    <2>1. /\ q.pc # "idle" /\ Rollback(r) /\ row' = row /\ idp' = idp
          /\ tokens' = tokens /\ sync' = sync /\ issued' = issued /\ asserted' = asserted
          /\ req' = [req EXCEPT ![r] = IdleReq]
        BY <1>7 DEF FailRequest
    <2>2. TablesKept(r)
        BY <2>1, RequestKnows, TablesRollback
    <2> QED
        BY <2>1, <2>2, RequestEnds, RequestKnows
<1> QED
    BY <1>1, <1>2, <1>3, <1>4, <1>5, <1>6, <1>7 DEF RequestStep

-----------------------------------------------------------------------------
(* What a sync pass knows, by its program counter.                         *)
LEMMA SyncKnows ==
    ASSUME IdInv, NEW s \in Syncers
    PROVE  /\ sync[s] \in SyncStates /\ s \in Procs /\ SyncSound(sync[s])
           /\ row \in [Users -> Rows \cup {NoRow}]
           /\ idp \in [Users -> Accounts]
           /\ \A u \in Users : idp[u].groups \in asserted[u]
BY DEF IdInv, IdTypes, Said, Procs

(* The user at hand, and the account and the row the pass has of it.       *)
LEMMA SyncUser ==
    ASSUME IdInv, NEW s \in Syncers, NEW u \in Users,
           sync[s].pc \in {"next", "update", "groups", "commit"}
    PROVE  /\ sync[s].dir[u] \in Accounts /\ sync[s].dir[u].active \in BOOLEAN
           /\ sync[s].dir[u].name \in Names
           /\ sync[s].dir[u].groups \in SUBSET Groups
           /\ sync[s].dir[u].groups \in asserted[u]
           /\ sync[s].rows[u] \in Rows \cup {NoRow}
BY SyncKnows, AccountFields DEF SyncSound

(* A pass ends, or breaks off.                                             *)
LEMMA SyncEnds ==
    ASSUME IdInv, NEW s \in Syncers, sync' = [sync EXCEPT ![s] = IdleSync],
           TablesKept(s), idp' = idp, tokens' = tokens, req' = req,
           asserted' = asserted, issued' = issued
    PROVE  IdInv'
<1>1. SyncSound(IdleSync)
    BY IdleStates DEF SyncSound
<1> QED
    BY <1>1, IdleStates, OneSync

(* A step of a pass that has read the directory and the table.             *)
LEMMA SyncGoesOn ==
    ASSUME IdInv, NEW s \in Syncers, sync[s].pc \in {"next", "update", "groups", "commit"},
           NEW z \in SyncStates, sync' = [sync EXCEPT ![s] = z],
           z.dir = sync[s].dir, z.rows = sync[s].rows,
           z.pc \in {"update", "groups", "commit"} => z.user \in Users,
           z.pc = "commit" => tx'[s].user = z.user, TablesKept(s),
           idp' = idp, tokens' = tokens, req' = req, asserted' = asserted,
           issued' = issued
    PROVE  IdInv'
<1>1. SyncSound(z)
    BY SyncKnows DEF SyncSound
<1> QED
    BY <1>1, OneSync

(* The pass reads the directory, then the table.                           *)
LEMMA SyncReads ==
    ASSUME IdInv, NEW s \in Syncers, LoadDirectory(s) \/ ListUsers(s) PROVE IdInv'
<1>1. /\ row' = row /\ groups' = groups /\ tx' = tx /\ idp' = idp
      /\ tokens' = tokens /\ req' = req /\ issued' = issued /\ asserted' = asserted
    BY DEF LoadDirectory, ListUsers
<1>2. TablesKept(s)
    BY <1>1, SyncKnows, TablesIdle
<1>3. CASE LoadDirectory(s)
    <2> DEFINE z == [IdleSync EXCEPT !.pc = "list", !.dir = idp]
    <2>1. z \in SyncStates /\ z.pc = "list" /\ z.dir = idp
        BY SyncKnows DEF IdleSync, SyncStates
    <2>2. sync' = [sync EXCEPT ![s] = z]
        BY <1>3 DEF LoadDirectory
    <2> HIDE DEF z
    <2>3. SyncSound(z)
        BY <2>1, SyncKnows DEF SyncSound
    <2> QED
        BY <1>1, <1>2, <2>1, <2>2, <2>3, OneSync
<1>4. CASE ListUsers(s)
    <2> DEFINE z == [sync[s] EXCEPT !.pc = "next", !.rows = row,
                                    !.todo = {u \in Users : row[u] # NoRow}]
    <2>1. /\ z \in SyncStates /\ z.pc = "next" /\ z.dir = sync[s].dir /\ z.rows = row
        BY SyncKnows DEF SyncStates
    <2>2. sync' = [sync EXCEPT ![s] = z] /\ sync[s].pc = "list"
        BY <1>4 DEF ListUsers
    <2> HIDE DEF z
    <2>3. SyncSound(z)
        BY <2>1, <2>2, SyncKnows DEF SyncSound
    <2> QED
        BY <1>1, <1>2, <2>1, <2>2, <2>3, OneSync
<1> QED
    BY <1>3, <1>4

(* The loop takes the next user.                                           *)
LEMMA NextUserKeeps ==
    ASSUME IdInv, NEW s \in Syncers, NEW u \in Users, NextUser(s, u) PROVE IdInv'
<1> DEFINE du == sync[s].dir[u].active
           old == sync[s].rows[u].active
           who == IF du \/ old THEN u ELSE None
           pc == IF ~ du THEN IF old THEN "update" ELSE "next"
                 ELSE IF ~ old \/ sync[s].rows[u].name # sync[s].dir[u].name THEN "update"
                 ELSE "groups"
           z == [sync[s] EXCEPT !.todo = @ \ {u}, !.user = who, !.pc = pc]
<1>1. /\ row' = row /\ groups' = groups /\ tx' = tx /\ idp' = idp
      /\ tokens' = tokens /\ req' = req /\ issued' = issued /\ asserted' = asserted
      /\ sync[s].pc = "next" /\ sync' = [sync EXCEPT ![s] = z]
    BY DEF NextUser
<1>2. du \in BOOLEAN /\ old \in BOOLEAN
    <2>1. du \in BOOLEAN /\ sync[s].rows[u] \in Rows \cup {NoRow}
        BY <1>1, SyncUser
    <2> QED
        BY <2>1, RowFields
<1>3. /\ who \in Users \cup {None} /\ pc \in {"next", "update", "groups"}
      /\ pc \in {"update", "groups"} => who \in Users
    <2> HIDE DEF du, old
    <2> QED
        BY <1>2
<1> HIDE DEF who, pc
<1>4. /\ z \in SyncStates /\ z.pc = pc /\ z.user = who
      /\ z.dir = sync[s].dir /\ z.rows = sync[s].rows
    BY <1>3, SyncKnows DEF SyncStates
<1> HIDE DEF z
<1>5. TablesKept(s)
    BY <1>1, SyncKnows, TablesIdle
<1>6. /\ z.pc \in {"update", "groups", "commit"} => z.user \in Users
      /\ z.pc # "commit"
    BY <1>3, <1>4
<1> QED
    BY <1>1, <1>4, <1>5, <1>6, SyncGoesOn

(* It writes the row: what the pass has in hand is a row of the table.     *)
LEMMA SyncWritesRow ==
    ASSUME IdInv, NEW s \in Syncers, SyncUpdateUser(s) PROVE IdInv'
<1> DEFINE u == sync[s].user
           z == [sync[s] EXCEPT !.pc = "groups"]
<1>1. /\ groups' = groups /\ tx' = tx /\ idp' = idp
      /\ tokens' = tokens /\ req' = req /\ issued' = issued /\ asserted' = asserted
      /\ sync[s].pc = "update" /\ sync' = [sync EXCEPT ![s] = z]
      /\ row' = [row EXCEPT ![u] = SyncedRow(s)]
    BY DEF SyncUpdateUser
<1>2. u \in Users
    BY <1>1, SyncKnows DEF SyncSound
<1>3. SyncedRow(s) \in Rows \cup {NoRow}
    <2>1. CASE sync[s].dir[u].active
        <3>1. SyncedRow(s) = [active |-> TRUE, name |-> sync[s].dir[u].name]
            BY <2>1 DEF SyncedRow
        <3> QED
            BY <1>1, <1>2, <3>1, SyncUser DEF Rows
    <2>2. CASE ~ sync[s].dir[u].active
        <3>1. SyncedRow(s) = [sync[s].rows[u] EXCEPT !.active = FALSE]
            BY <2>2 DEF SyncedRow
        <3>2. sync[s].rows[u] \in Rows \cup {NoRow}
            BY <1>1, <1>2, SyncUser
        <3> QED
            BY <3>1, <3>2, RowFields
    <2> QED
        BY <2>1, <2>2
<1>4. row' \in [Users -> Rows \cup {NoRow}]
    BY <1>1, <1>2, <1>3, SyncKnows
<1>5. TablesKept(s)
    BY <1>1, <1>4, SyncKnows, TablesIdle
<1>6. /\ z \in SyncStates /\ z.pc = "groups" /\ z.user = u
      /\ z.dir = sync[s].dir /\ z.rows = sync[s].rows
    BY SyncKnows DEF SyncStates
<1> HIDE DEF z
<1> QED
    BY <1>1, <1>2, <1>5, <1>6, SyncGoesOn

(* It replaces the memberships, with the directory's groups or none.       *)
LEMMA SyncSetsGroups ==
    ASSUME IdInv, NEW s \in Syncers, SyncBeginSet(s) \/ SyncCommitSet(s) PROVE IdInv'
<1> DEFINE u == sync[s].user
<1>1. CASE SyncBeginSet(s)
    <2> DEFINE z == [sync[s] EXCEPT !.pc = "commit"]
    <2>1. /\ row' = row /\ groups' = groups /\ idp' = idp /\ BeginSet(s, u)
          /\ tokens' = tokens /\ req' = req /\ issued' = issued /\ asserted' = asserted
          /\ sync[s].pc = "groups" /\ sync' = [sync EXCEPT ![s] = z]
        BY <1>1 DEF SyncBeginSet
    <2>2. u \in Users
        BY <2>1, SyncKnows DEF SyncSound
    <2>3. TablesKept(s) /\ tx'[s].user = u
        BY <2>1, <2>2, SyncKnows, TablesBegin
    <2>4. /\ z \in SyncStates /\ z.pc = "commit" /\ z.user = u
          /\ z.dir = sync[s].dir /\ z.rows = sync[s].rows
        BY SyncKnows DEF SyncStates
    <2> HIDE DEF z
    <2> QED
        BY <2>1, <2>2, <2>3, <2>4, SyncGoesOn
<1>2. CASE SyncCommitSet(s)
    <2> DEFINE z == [sync[s] EXCEPT !.pc = "next", !.user = None]
               want == SyncedGroups(s)
    <2>1. /\ row' = row /\ idp' = idp /\ CommitSet(s, want)
          /\ tokens' = tokens /\ req' = req /\ issued' = issued /\ asserted' = asserted
          /\ sync[s].pc = "commit" /\ sync' = [sync EXCEPT ![s] = z]
        BY <1>2 DEF SyncCommitSet
    <2>2. u \in Users /\ tx[s].user = u
        BY <2>1, SyncKnows DEF SyncSound, IdInv, OpenTx
    <2>3. want \in {{}, sync[s].dir[u].groups}
        BY DEF SyncedGroups
    <2>4. want \in SUBSET Groups /\ want \subseteq UNION asserted[u]
        BY <2>1, <2>2, <2>3, SyncUser
    <2> HIDE DEF want
    <2>5. TablesKept(s)
        BY <2>1, <2>2, <2>4, SyncKnows, TablesCommit
    <2>6. /\ z \in SyncStates /\ z.pc = "next"
          /\ z.dir = sync[s].dir /\ z.rows = sync[s].rows
        BY SyncKnows DEF SyncStates
    <2> HIDE DEF z
    <2> QED
        BY <2>1, <2>5, <2>6, SyncGoesOn
<1> QED
    BY <1>1, <1>2

(* Every step of a sync keeps the invariant.                               *)
LEMMA SyncStepKeeps ==
    ASSUME IdInv, NEW s \in Syncers, SyncStep(s) \/ SyncFault(s) PROVE IdInv'
<1>1. CASE SyncDone(s)
    <2>1. /\ row' = row /\ groups' = groups /\ tx' = tx /\ idp' = idp
          /\ tokens' = tokens /\ req' = req /\ issued' = issued /\ asserted' = asserted
          /\ sync' = [sync EXCEPT ![s] = IdleSync]
        BY <1>1 DEF SyncDone
    <2>2. TablesKept(s)
        BY <2>1, SyncKnows, TablesIdle
    <2> QED
        BY <2>1, <2>2, SyncEnds
<1>2. CASE SyncConflict(s) \/ SyncFault(s)
    <2>1. /\ row' = row /\ idp' = idp /\ Rollback(s)
          /\ tokens' = tokens /\ req' = req /\ issued' = issued /\ asserted' = asserted
          /\ sync' = [sync EXCEPT ![s] = IdleSync]
        BY <1>2 DEF SyncConflict, SyncFault
    <2>2. TablesKept(s)
        BY <2>1, SyncKnows, TablesRollback
    <2> QED
        BY <2>1, <2>2, SyncEnds
<1> QED
    BY <1>1, <1>2, SyncReads, NextUserKeeps, SyncWritesRow, SyncSetsGroups DEF SyncStep

-----------------------------------------------------------------------------
(* Every step keeps the invariant.                                         *)
LEMMA NextIdInv == IdInv /\ [Next]_vars => IdInv'
<1>1. CASE UNCHANGED vars
    BY <1>1 DEF vars, IdInv, IdTypes, Said, ReqSound, SyncSound, OpenTx, NoEscalation
<1>2. CASE Next
    BY <1>2, ProviderStep, ArriveKeeps, RequestStepKeeps, SyncStepKeeps DEF Next
<1> QED
    BY <1>1, <1>2

(* The invariant holds throughout.                                         *)
THEOREM IdInvHolds == Spec => []IdInv
<1>1. Init => IdInv
    BY InitIdInv
<1>2. IdInv /\ [Next]_vars => IdInv'
    BY NextIdInv
<1> QED
    BY <1>1, <1>2, PTL DEF Spec

(* Memberships and certificates go back to the identity provider's word,   *)
(* whatever the interleaving of EnsureUser with SyncOnce.                  *)
THEOREM EscalationNever == Spec => []NoEscalation
<1>1. IdInv => NoEscalation
    BY DEF IdInv
<1> QED
    BY <1>1, IdInvHolds, PTL

(* Type correctness of the users, memberships, requests and sync passes.   *)
THEOREM IdentityTypeCorrect == Spec => []TypeOK
<1>1. IdInv => TypeOK
    BY DEF IdInv, IdTypes, Said, ReqSound, TypeOK, ReqStates, SyncStates, TxStates
<1> QED
    BY <1>1, IdInvHolds, PTL
=============================================================================
