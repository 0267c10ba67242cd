-------------------------- MODULE WorkspacesProofs --------------------------
(***************************************************************************)
(* Workspaces, for any number of users, workspaces and requests, and any   *)
(* lag of the replica: who comes to be a member, and by how much the limit *)
(* is exceeded.                                                            *)
(*                                                                         *)
(* The replica shows a prefix of the transactions, so what it must show    *)
(* of the tables is said of every prefix (TablesSound).  A request acts on *)
(* what an earlier statement read (Checked); that holds until the request  *)
(* is over because the tables and the replica only ever grow (TablesGrow). *)
(***************************************************************************)
EXTENDS Workspaces, FiniteSetTheorems, TLAPS

USE WorkspaceConstants

-----------------------------------------------------------------------------
(* The tables                                                              *)

TableRow == WorkspaceRow \cup MemberRow

\* The two tables keep their rows apart.
LEMMA RowKinds ==
    /\ \A row \in WorkspaceRow : IsWorkspace(row) /\ ~IsMember(row)
    /\ \A row \in MemberRow : IsMember(row) /\ ~IsWorkspace(row)
BY DEF WorkspaceRow, MemberRow, IsWorkspace, IsMember

LEMMA RowsGrow ==
    ASSUME TypeOK, NEW m \in Nat, NEW n \in Nat, m <= n
    PROVE  Rows(m) \subseteq Rows(n)
BY DEF Rows

\* A transaction adds its rows, and changes nothing of what was there.
LEMMA RowsAppend ==
    ASSUME TypeOK, NEW T \in SUBSET TableRow, log' = Append(log, T)
    PROVE  /\ log' \in Seq(SUBSET TableRow) /\ Len(log') = Len(log) + 1
           /\ log'[Len(log) + 1] = T
           /\ \A k \in 1 .. Len(log) : log'[k] = log[k]
           /\ \A n \in 0 .. Len(log) : Rows(n)' = Rows(n)
           /\ Primary' = Primary \cup T
<1>1. log \in Seq(SUBSET TableRow) /\ Len(log) \in Nat
  BY DEF TypeOK, TableRow
<1>2. /\ log' \in Seq(SUBSET TableRow) /\ Len(log') = Len(log) + 1
      /\ log'[Len(log) + 1] = T
      /\ \A k \in 1 .. Len(log) : log'[k] = log[k]
  BY <1>1
<1>3. \A n \in 0 .. Len(log) : Rows(n)' = Rows(n)
  BY <1>1, <1>2 DEF Rows
<1>4. Primary' = Primary \cup T
  BY <1>1, <1>2 DEF Rows, Primary
<1> QED
  BY <1>2, <1>3, <1>4

LEMMA OneOwnerPointwise ==
    ASSUME NEW t
    PROVE  OneOwner(t) <=>
             /\ \A w \in WorkspacesIn(t) :
                  /\ \E m \in MembersIn(t, w.id) : m.role = "owner" /\ m.user = w.owner
                  /\ \A m \in MembersIn(t, w.id) : m.role = "owner" => m.user = w.owner
             /\ \A m \in t : IsMember(m) => \E w \in WorkspacesIn(t) : w.id = m.id
BY DEF OneOwner

\* The rows of the tables are of their kinds, whatever the transaction was.
LEMMA RowsType ==
    ASSUME TypeOK, NEW n \in 0 .. Len(log)
    PROVE  Rows(n) \subseteq TableRow
<1>1. \A k \in 1 .. Len(log) : log[k] \in SUBSET TableRow
  BY DEF TypeOK, TableRow
<1>2. Len(log) \in Nat
  BY DEF TypeOK
<1> QED
  BY <1>1, <1>2 DEF Rows

LEMMA CmdKinds ==
    /\ \A c \in CreateCmd : c.op = "create" /\ c.user \in Users
    /\ \A c \in InviteCmd : /\ c.op = "invite" /\ c.user \in Users /\ c.invited \in Users
                            /\ c.id \in Ids /\ c.token \in Ids
    /\ \A c \in GetCmd : c.op = "get" /\ c.user \in Users /\ c.id \in Ids
BY DEF CreateCmd, InviteCmd, GetCmd

NewMember(c) == [id |-> c.id, user |-> c.invited, role |-> c.role, by |-> c.user]

LEMMA NewRows ==
    /\ \A c \in CreateCmd, id \in Ids : WorkspaceAndOwner(c, id) \in SUBSET TableRow
    /\ \A c \in InviteCmd : c.role \in Roles \ {"owner"} => NewMember(c) \in MemberRow
BY DEF CreateCmd, InviteCmd, WorkspaceAndOwner, NewMember, TableRow, WorkspaceRow, MemberRow

-----------------------------------------------------------------------------
(* The invariant                                                           *)

\* What every prefix of the transactions shows.
TablesSound == \A n \in 0 .. Len(log) : IsFiniteSet(Rows(n)) /\ OneOwner(Rows(n))

\* What the checks before a request's next step have established, and what
\* nothing that commits in between takes away.
CheckedAt(r) ==
    /\ pc[r] \in {"count", "insert"} => cmd[r] \in CreateCmd
    /\ pc[r] \in {"auth", "check"} => cmd[r] \in InviteCmd \cup GetCmd
    /\ pc[r] = "add" =>
         /\ cmd[r] \in InviteCmd /\ cmd[r].role \in Roles \ {"owner"}
         /\ \E m \in MembersIn(Primary, cmd[r].id) :
              m.user = cmd[r].user /\ Can(m.role, "members:manage")
    /\ pc[r] = "data" => cmd[r] \in GetCmd /\ GetByID(cmd[r].id) # {}
    /\ pc[r] # "missing"

Checked == \A r \in Requests : CheckedAt(r)

IInv == TypeOK /\ TablesSound /\ Checked /\ InvitedByManager /\ LimitExplained

\* What a step of a request does to its own program counter and command.
LEMMA GotoEffect ==
    ASSUME TypeOK, NEW r \in Requests,
           NEW step \in {"insert", "check", "add", "data"}, Goto(r, step)
    PROVE  /\ pc'[r] = step /\ cmd' = cmd /\ begun' = begun
           /\ \A q \in Requests : q # r => pc'[q] = pc[q]
           /\ pc' \in [Requests -> {"idle", "count", "insert", "auth", "check", "add", "data",
                                    "refused", "missing"}]
BY DEF Goto, TypeOK

LEMMA FinishEffect ==
    ASSUME TypeOK, NEW r \in Requests, NEW end \in {"idle", "refused", "missing"},
           Finish(r, end)
    PROVE  /\ pc'[r] = end /\ cmd'[r] = NoCmd /\ begun' = begun
           /\ \A q \in Requests : q # r => pc'[q] = pc[q] /\ cmd'[q] = cmd[q]
           /\ pc' \in [Requests -> {"idle", "count", "insert", "auth", "check", "add", "data",
                                    "refused", "missing"}]
           /\ cmd' \in [Requests -> CreateCmd \cup InviteCmd \cup GetCmd \cup {NoCmd}]
BY DEF Finish, TypeOK

\* A request that ends has nothing left to check.
LEMMA Ended ==
    ASSUME NEW r \in Requests, pc'[r] \in {"idle", "refused"}
    PROVE  CheckedAt(r)'
BY DEF CheckedAt

\* The replica shows a prefix, and never less than before.
LEMMA ReplicaIsPrefix ==
    ASSUME TypeOK
    PROVE  /\ \E n \in 0 .. Len(log) : Replica = Rows(n)
           /\ Replica \subseteq Primary
           /\ Len(log) \in 0 .. Len(log) /\ applied \in 0 .. Len(log)
<1>1. Len(log) \in Nat /\ applied \in Nat /\ applied <= Len(log)
  BY DEF TypeOK
<1>2. Rows(applied) \subseteq Rows(Len(log))
  BY <1>1, RowsGrow
<1> QED
  BY <1>1, <1>2 DEF Replica, Primary

\* Every step keeps the tables, or commits one transaction, or replicates one.
TablesGrow == Primary \subseteq Primary' /\ Replica \subseteq Replica'

LEMMA SameTables ==
    UNCHANGED dbVars => Primary' = Primary /\ Replica' = Replica /\ TablesGrow
                        /\ (\A n : Rows(n)' = Rows(n))
BY DEF dbVars, Primary, Replica, Rows, TablesGrow

LEMMA CommitGrows ==
    ASSUME TypeOK, NEW T \in SUBSET TableRow, log' = Append(log, T), applied' = applied
    PROVE  TablesGrow
<1>1. \E n \in 0 .. Len(log) : Rows(applied) = Rows(n)
      /\ applied \in 0 .. Len(log)
  BY ReplicaIsPrefix
<1>2. Rows(applied)' = Rows(applied) /\ Primary' = Primary \cup T
  BY <1>1, RowsAppend DEF Rows
<1> QED
  BY <1>2 DEF TablesGrow, Replica

-----------------------------------------------------------------------------
(* Types                                                                   *)

\* The two statements that commit, and the rows they write.
LEMMA InsertCommits ==
    ASSUME TypeOK, Checked, NEW r \in Requests, NEW id \in Ids, Insert(r, id)
    PROVE  /\ cmd[r] \in CreateCmd /\ WorkspaceAndOwner(cmd[r], id) \in SUBSET TableRow
           /\ log' = Append(log, WorkspaceAndOwner(cmd[r], id))
           /\ UNCHANGED <<applied, unseen>> /\ Finish(r, "idle")
<1>1. cmd[r] \in CreateCmd
  BY DEF Insert, Checked, CheckedAt
<1>2. WorkspaceAndOwner(cmd[r], id) \in SUBSET TableRow
  BY <1>1, NewRows
<1> QED
  BY <1>1, <1>2 DEF Insert

LEMMA AddCommits ==
    ASSUME TypeOK, Checked, NEW r \in Requests, Add(r)
    PROVE  /\ cmd[r] \in InviteCmd /\ NewMember(cmd[r]) \in MemberRow
           /\ UNCHANGED <<applied, unseen>> /\ Finish(r, "idle")
           /\ \/ UNCHANGED log
              \/ Insertable(cmd[r]) /\ log' = Append(log, {NewMember(cmd[r])})
<1>0. pc[r] = "add"
  BY DEF Add
<1>1. cmd[r] \in InviteCmd /\ cmd[r].role \in Roles \ {"owner"}
  BY <1>0 DEF Checked, CheckedAt
<1>2. NewMember(cmd[r]) \in MemberRow
  BY <1>1, NewRows
<1>3. UNCHANGED <<applied, unseen>> /\ Finish(r, "idle")
  BY DEF Add
<1>4. CASE Insertable(cmd[r])
  <2>1. log' = Append(log, {NewMember(cmd[r])})
    BY <1>4 DEF Add, NewMember
  <2> QED
    BY <1>1, <1>2, <1>3, <1>4, <2>1
<1>5. CASE ~Insertable(cmd[r])
  BY <1>1, <1>2, <1>3, <1>5 DEF Add
<1> QED
  BY <1>4, <1>5

LEMMA LogType ==
    ASSUME TypeOK, applied' = applied,
           UNCHANGED log \/ \E T \in SUBSET TableRow : log' = Append(log, T)
    PROVE  log' \in Seq(SUBSET (WorkspaceRow \cup MemberRow)) /\ applied' \in 0 .. Len(log')
<1>1. CASE UNCHANGED log
  BY <1>1 DEF TypeOK
<1>2. ASSUME NEW T \in SUBSET TableRow, log' = Append(log, T)
      PROVE  log' \in Seq(SUBSET (WorkspaceRow \cup MemberRow)) /\ applied' \in 0 .. Len(log')
  <2>1. log' \in Seq(SUBSET TableRow) /\ Len(log') = Len(log) + 1
    BY <1>2, RowsAppend
  <2>2. applied \in 0 .. Len(log) /\ Len(log) \in Nat
    BY DEF TypeOK
  <2> QED
    BY <2>1, <2>2 DEF TableRow
<1> QED
  BY <1>1, <1>2

LEMMA NextType == TypeOK /\ Checked /\ [Next]_vars => TypeOK'
<1> SUFFICES ASSUME TypeOK, Checked, [Next]_vars PROVE TypeOK'
  OBVIOUS
<1> USE DEF dbVars
<1>1. ASSUME NEW r \in Requests, NEW c \in CreateCmd \cup InviteCmd \cup GetCmd, Begin(r, c)
      PROVE  TypeOK'
  <2>1. IF c.op = "create" THEN pc' = [pc EXCEPT ![r] = "count"]
                           ELSE pc' = [pc EXCEPT ![r] = "auth"]
    BY <1>1 DEF Begin
  <2>2. pc' \in [Requests -> {"idle", "count", "insert", "auth", "check", "add", "data",
                              "refused", "missing"}]
    BY <2>1 DEF TypeOK
  <2> QED
    BY <1>1, <2>2 DEF Begin, TypeOK
<1>2. ASSUME NEW r \in Requests, NEW step \in {"insert", "check", "add", "data"}, Goto(r, step),
             UNCHANGED dbVars, unseen' \subseteq Ids
      PROVE  TypeOK'
  BY <1>2, GotoEffect DEF TypeOK
<1>3. ASSUME NEW r \in Requests, NEW end \in {"idle", "refused", "missing"}, Finish(r, end),
             applied' = applied, unseen' = unseen,
             UNCHANGED log \/ \E T \in SUBSET TableRow : log' = Append(log, T)
      PROVE  TypeOK'
  BY <1>3, FinishEffect, LogType DEF TypeOK
<1>4. ASSUME NEW r \in Requests, Count(r) PROVE TypeOK'
  <2>1. CASE Finish(r, "idle") /\ UNCHANGED unseen
    BY <1>3, <1>4, <2>1 DEF Count
  <2>2. CASE /\ Goto(r, "insert")
             /\ unseen' = unseen \cup
                  {w.id : w \in OwnedIn(Primary, cmd[r].user) \ OwnedIn(Replica, cmd[r].user)}
    <3>1. \A w \in OwnedIn(Primary, cmd[r].user) : w.id \in Ids
      <4>1. Primary \subseteq TableRow
        BY RowsType, ReplicaIsPrefix DEF Primary
      <4> QED
        BY <4>1, RowKinds DEF OwnedIn, WorkspacesIn, TableRow, WorkspaceRow
    <3>2. unseen' \subseteq Ids
      BY <2>2, <3>1 DEF TypeOK
    <3> QED
      BY <1>2, <1>4, <2>2, <3>2 DEF Count
  <2> QED
    BY <1>4, <2>1, <2>2 DEF Count
<1>5. ASSUME NEW r \in Requests, NEW id \in Ids, Insert(r, id) PROVE TypeOK'
  BY <1>3, <1>5, InsertCommits
<1>6. ASSUME NEW r \in Requests, InsertConflict(r) \/ Data(r) \/ DbError(r) PROVE TypeOK'
  BY <1>3, <1>6 DEF InsertConflict, Data, DbError
<1>7. ASSUME NEW r \in Requests, Auth(r) \/ Check(r) PROVE TypeOK'
  <2>1. unseen' \subseteq Ids
    BY <1>7 DEF Auth, Check, TypeOK
  <2> QED
    BY <1>2, <1>3, <1>7, <2>1 DEF Auth, Check
<1>8. ASSUME NEW r \in Requests, Add(r) PROVE TypeOK'
  <2>1. {NewMember(cmd[r])} \in SUBSET TableRow
    BY <1>8, AddCommits DEF TableRow
  <2> QED
    BY <1>3, <1>8, <2>1, AddCommits
<1>9. CASE Replicate
  BY <1>9 DEF Replicate, TypeOK
<1>10. CASE UNCHANGED vars
  BY <1>10 DEF vars, TypeOK
<1> QED
  BY <1>1, <1>4, <1>5, <1>6, <1>7, <1>8, <1>9, <1>10 DEF Next, Step

-----------------------------------------------------------------------------
(* The tables                                                              *)

\* A new workspace comes with its owner, under an id that no row has yet.
LEMMA InsertSound ==
    ASSUME TypeOK, Checked, TablesSound, NEW r \in Requests, NEW id \in Ids, Insert(r, id)
    PROVE  IsFiniteSet(Primary') /\ OneOwner(Primary')
<1> DEFINE w0 == [id |-> id, owner |-> cmd[r].user, name |-> cmd[r].name, slug |-> cmd[r].slug]
           m0 == [id |-> id, user |-> cmd[r].user, role |-> "owner", by |-> Nobody]
<1>1. Primary' = Primary \cup {w0, m0}
  BY InsertCommits, RowsAppend DEF WorkspaceAndOwner
<1>2. /\ IsWorkspace(w0) /\ ~IsMember(w0) /\ IsMember(m0) /\ ~IsWorkspace(m0)
      /\ w0.id = id /\ w0.owner = cmd[r].user
      /\ m0.id = id /\ m0.user = cmd[r].user /\ m0.role = "owner"
  BY DEF IsWorkspace, IsMember
<1>3. /\ IsFiniteSet(Primary) /\ OneOwner(Primary)
      /\ \A w \in WorkspacesIn(Primary) : w.id # id
  BY ReplicaIsPrefix DEF TablesSound, Primary, Insert
<1> HIDE DEF w0, m0
<1>4. /\ WorkspacesIn(Primary') = WorkspacesIn(Primary) \cup {w0}
      /\ \A x : MembersIn(Primary', x) =
                  IF x = id THEN MembersIn(Primary, x) \cup {m0} ELSE MembersIn(Primary, x)
  BY <1>1, <1>2 DEF WorkspacesIn, MembersIn
<1>5. MembersIn(Primary, id) = {}
  BY <1>3, OneOwnerPointwise DEF MembersIn
<1>6. OneOwner(Primary')
  <2>1. \A w \in WorkspacesIn(Primary') :
          /\ \E m \in MembersIn(Primary', w.id) : m.role = "owner" /\ m.user = w.owner
          /\ \A m \in MembersIn(Primary', w.id) : m.role = "owner" => m.user = w.owner
    BY <1>2, <1>3, <1>4, <1>5, OneOwnerPointwise
  <2>2. \A m \in Primary' : IsMember(m) => \E w \in WorkspacesIn(Primary') : w.id = m.id
    BY <1>1, <1>2, <1>3, <1>4, OneOwnerPointwise
  <2> QED
    BY <2>1, <2>2, OneOwnerPointwise
<1>7. IsFiniteSet(Primary')
  <2>1. Primary' = (Primary \cup {w0}) \cup {m0}
    BY <1>1
  <2> QED
    BY <1>3, <2>1, FS_AddElement
<1> QED
  BY <1>6, <1>7

\* Nobody is invited to be an owner, or to a workspace that is not there.
LEMMA AddSound ==
    ASSUME TypeOK, Checked, TablesSound, NEW r \in Requests, Add(r), log' # log
    PROVE  IsFiniteSet(Primary') /\ OneOwner(Primary')
<1> DEFINE m0 == NewMember(cmd[r])
<1>1. /\ Insertable(cmd[r]) /\ m0 \in MemberRow
      /\ log' = Append(log, {m0}) /\ {m0} \in SUBSET TableRow
  BY AddCommits DEF Add, TableRow
<1>2. Primary' = Primary \cup {m0}
  BY <1>1, RowsAppend
<1>3. m0.id = cmd[r].id /\ m0.role # "owner"
  BY DEF NewMember, Add, Checked, CheckedAt
<1>4. IsMember(m0) /\ ~IsWorkspace(m0)
  BY <1>1, RowKinds
<1>5. IsFiniteSet(Primary) /\ OneOwner(Primary)
  BY ReplicaIsPrefix DEF TablesSound, Primary
<1>6. \E w \in WorkspacesIn(Primary) : w.id = m0.id
  BY <1>1, <1>3 DEF Insertable
<1> HIDE DEF m0
<1>7. /\ WorkspacesIn(Primary') = WorkspacesIn(Primary)
      /\ \A x : MembersIn(Primary', x) =
                  IF x = m0.id THEN MembersIn(Primary, x) \cup {m0} ELSE MembersIn(Primary, x)
  BY <1>2, <1>4 DEF WorkspacesIn, MembersIn
<1>8. OneOwner(Primary')
  <2>1. \A w \in WorkspacesIn(Primary') :
          /\ \E m \in MembersIn(Primary', w.id) : m.role = "owner" /\ m.user = w.owner
          /\ \A m \in MembersIn(Primary', w.id) : m.role = "owner" => m.user = w.owner
    BY <1>3, <1>5, <1>7, OneOwnerPointwise
  <2>2. \A m \in Primary' : IsMember(m) => \E w \in WorkspacesIn(Primary') : w.id = m.id
    BY <1>2, <1>5, <1>6, <1>7, OneOwnerPointwise
  <2> QED
    BY <2>1, <2>2, OneOwnerPointwise
<1> QED
  BY <1>2, <1>5, <1>8, FS_AddElement

\* What a step does to the database.
LEMMA DbSteps ==
    ASSUME TypeOK, Checked, [Next]_vars
    PROVE  \/ UNCHANGED dbVars \/ Replicate
           \/ \E r \in Requests, id \in Ids : Insert(r, id)
           \/ \E r \in Requests : Add(r) /\ log' # log
<1>1. ASSUME NEW r \in Requests, Add(r), log' = log PROVE UNCHANGED dbVars
  BY <1>1 DEF Add, dbVars
<1> QED
  BY <1>1 DEF Next, Step, Begin, Count, InsertConflict, Auth, Check, Data, DbError, vars

LEMMA NextGrows ==
    ASSUME TypeOK, Checked, [Next]_vars
    PROVE  TablesGrow
<1>1. CASE Replicate
  <2>1. log' = log /\ applied' = applied + 1 /\ applied \in Nat
    BY <1>1 DEF Replicate, TypeOK
  <2>2. Rows(applied) \subseteq Rows(applied + 1)
    BY <2>1, RowsGrow
  <2>3. \A n : Rows(n)' = Rows(n)
    BY <2>1 DEF Rows
  <2> QED
    BY <2>1, <2>2, <2>3 DEF TablesGrow, Primary, Replica
<1>2. ASSUME NEW r \in Requests, NEW id \in Ids, Insert(r, id) PROVE TablesGrow
  BY <1>2, InsertCommits, CommitGrows
<1>3. ASSUME NEW r \in Requests, Add(r), log' # log PROVE TablesGrow
  <2>1. {NewMember(cmd[r])} \in SUBSET TableRow /\ log' = Append(log, {NewMember(cmd[r])})
    BY <1>3, AddCommits DEF TableRow
  <2> QED
    BY <1>3, <2>1, AddCommits, CommitGrows
<1> QED
  BY <1>1, <1>2, <1>3, DbSteps, SameTables

LEMMA NextTables ==
    TypeOK /\ Checked /\ TablesSound /\ [Next]_vars => TablesSound'
<1> SUFFICES ASSUME TypeOK, Checked, TablesSound, [Next]_vars PROVE TablesSound'
  OBVIOUS
<1>1. CASE UNCHANGED log
  <2>1. \A n : Rows(n)' = Rows(n)
    BY <1>1 DEF Rows
  <2> QED
    BY <1>1, <2>1 DEF TablesSound
<1>2. ASSUME NEW T \in SUBSET TableRow, log' = Append(log, T),
             IsFiniteSet(Primary') /\ OneOwner(Primary')
      PROVE  TablesSound'
  <2>1. Len(log') = Len(log) + 1 /\ Len(log) \in Nat
    BY <1>2, RowsAppend DEF TypeOK
  <2>2. \A n \in 0 .. Len(log) : Rows(n)' = Rows(n)
    BY <1>2, RowsAppend
  <2>3. \A n : n = Len(log) + 1 => Rows(n)' = Primary'
    BY <2>1 DEF Primary, Rows
  <2>4. \A n \in 0 .. Len(log') : n \in 0 .. Len(log) \/ n = Len(log) + 1
    BY <2>1
  <2> QED
    BY <1>2, <2>2, <2>3, <2>4 DEF TablesSound
<1>3. ASSUME NEW r \in Requests, NEW id \in Ids, Insert(r, id) PROVE TablesSound'
  BY <1>2, <1>3, InsertCommits, InsertSound
<1>4. ASSUME NEW r \in Requests, Add(r), log' # log PROVE TablesSound'
  <2>1. {NewMember(cmd[r])} \in SUBSET TableRow /\ log' = Append(log, {NewMember(cmd[r])})
    BY <1>4, AddCommits DEF TableRow
  <2> QED
    BY <1>2, <1>4, <2>1, AddSound
<1> QED
  BY <1>1, <1>3, <1>4, DbSteps DEF Replicate, dbVars

-----------------------------------------------------------------------------
(* The checks                                                              *)

\* What was checked stays true while others commit.
LEMMA CheckedStays ==
    ASSUME TablesGrow, NEW r \in Requests, CheckedAt(r), pc'[r] = pc[r], cmd'[r] = cmd[r]
    PROVE  CheckedAt(r)'
<1>1. \A id : MembersIn(Primary, id) \subseteq MembersIn(Primary, id)'
  BY DEF TablesGrow, MembersIn
<1>2. \A id : GetByID(id) \subseteq GetByID(id)'
  BY DEF TablesGrow, GetByID, WorkspacesIn
<1>3. \A role, a : Can(role, a)' = Can(role, a)
  BY DEF Can, RolePermissions
<1> QED
  BY <1>1, <1>2, <1>3 DEF CheckedAt

LEMMA NextChecked ==
    TypeOK /\ TablesSound /\ Checked /\ [Next]_vars => Checked'
<1> SUFFICES ASSUME TypeOK, TablesSound, Checked, [Next]_vars PROVE Checked'
  OBVIOUS
<1>0. TablesGrow
  BY NextGrows
<1>1. ASSUME NEW r \in Requests, CheckedAt(r)',
             \A q \in Requests : q # r => pc'[q] = pc[q] /\ cmd'[q] = cmd[q]
      PROVE  Checked'
  BY <1>0, <1>1, CheckedStays DEF Checked
<1>2. CASE UNCHANGED <<pc, cmd>>
  BY <1>0, <1>2, CheckedStays DEF Checked
<1>3. ASSUME NEW r \in Requests, NEW end \in {"idle", "refused"}, Finish(r, end) PROVE Checked'
  BY <1>1, <1>3, FinishEffect, Ended
<1>4. ASSUME NEW r \in Requests, NEW step \in {"insert", "check", "add", "data"}, Goto(r, step),
             /\ step = "insert" => cmd[r] \in CreateCmd
             /\ step = "check" => cmd[r] \in InviteCmd \cup GetCmd
             /\ step = "add" =>
                  /\ cmd[r] \in InviteCmd /\ cmd[r].role \in Roles \ {"owner"}
                  /\ \E m \in MembersIn(Primary, cmd[r].id) :
                       m.user = cmd[r].user /\ Can(m.role, "members:manage")
             /\ step = "data" => cmd[r] \in GetCmd /\ GetByID(cmd[r].id) # {},
             UNCHANGED dbVars
      PROVE  Checked'
  <2>1. pc'[r] = step /\ cmd' = cmd /\ \A q \in Requests : q # r => pc'[q] = pc[q]
    BY <1>4, GotoEffect
  <2>2. \A id : MembersIn(Primary, id)' = MembersIn(Primary, id) /\ GetByID(id)' = GetByID(id)
    BY <1>4, SameTables DEF MembersIn, GetByID, WorkspacesIn
  <2>3. CheckedAt(r)'
    BY <1>4, <2>1, <2>2 DEF CheckedAt
  <2> QED
    BY <1>1, <2>1, <2>3
<1>5. ASSUME NEW r \in Requests, NEW c \in CreateCmd \cup InviteCmd \cup GetCmd, Begin(r, c)
      PROVE  Checked'
  <2>1. /\ cmd'[r] = c /\ c.op = "create" => pc'[r] = "count"
        /\ c.op # "create" => pc'[r] = "auth"
        /\ pc'[r] \in {"count", "auth"} /\ cmd'[r] = c
        /\ \A q \in Requests : q # r => pc'[q] = pc[q] /\ cmd'[q] = cmd[q]
    BY <1>5 DEF Begin, TypeOK
  <2>2. (c.op = "create" => c \in CreateCmd) /\ (c.op # "create" => c \in InviteCmd \cup GetCmd)
    BY CmdKinds
  <2>3. CheckedAt(r)'
    BY <2>1, <2>2 DEF CheckedAt
  <2> QED
    BY <1>1, <2>1, <2>3
<1>6. ASSUME NEW r \in Requests, Count(r) PROVE Checked'
  <2>1. cmd[r] \in CreateCmd
    BY <1>6 DEF Count, Checked, CheckedAt
  <2> QED
    BY <1>3, <1>4, <1>6, <2>1 DEF Count
<1>7. ASSUME NEW r \in Requests, Auth(r) PROVE Checked'
  <2>1. cmd[r] \in InviteCmd \cup GetCmd
    BY <1>7 DEF Auth, Checked, CheckedAt
  <2> QED
    BY <1>3, <1>4, <1>7, <2>1 DEF Auth
<1>8. ASSUME NEW r \in Requests, Check(r) PROVE Checked'
  <2>1. cmd[r] \in InviteCmd \cup GetCmd /\ UNCHANGED dbVars
    BY <1>8 DEF Check, Checked, CheckedAt
  <2>2. CASE cmd[r].op = "invite" /\ Invitable(cmd[r].role) /\ Authorized(cmd[r]) /\ Goto(r, "add")
    <3>1. cmd[r] \in InviteCmd /\ cmd[r].role \in Roles \ {"owner"}
      BY <2>1, <2>2, CmdKinds DEF Invitable
    <3>2. \E m \in MembersIn(Primary, cmd[r].id) :
             m.user = cmd[r].user /\ Can(m.role, "members:manage")
      BY <2>2, ReplicaIsPrefix DEF Authorized, GetMember, MembersIn
    <3> QED
      BY <1>4, <2>1, <2>2, <3>1, <3>2
  <2>3. CASE /\ cmd[r].op # "invite" /\ GetMember(cmd[r].id, cmd[r].user) # {}
             /\ Goto(r, "data")
    <3>1. cmd[r] \in GetCmd
      BY <2>1, <2>3, CmdKinds
    <3>2. OneOwner(Replica)
      BY ReplicaIsPrefix DEF TablesSound
    <3>3. PICK m \in Replica : IsMember(m) /\ m.id = cmd[r].id
      BY <2>3 DEF GetMember, MembersIn
    <3>4. GetByID(cmd[r].id) # {}
      BY <3>2, <3>3, OneOwnerPointwise DEF GetByID
    <3> QED
      BY <1>4, <2>1, <2>3, <3>1, <3>4
  <2>4. CASE Finish(r, "idle")
    BY <1>3, <2>4
  <2> QED
    BY <1>8, <2>2, <2>3, <2>4 DEF Check
<1>9. ASSUME NEW r \in Requests, Data(r) PROVE Checked'
  <2>1. GetByID(cmd[r].id) # {}
    BY <1>9 DEF Data, Checked, CheckedAt
  <2> QED
    BY <1>3, <1>9, <2>1 DEF Data
<1>10. ASSUME NEW r \in Requests, InsertConflict(r) \/ Add(r) \/ DbError(r) PROVE Checked'
  BY <1>3, <1>10 DEF InsertConflict, Add, DbError
<1>11. ASSUME NEW r \in Requests, NEW id \in Ids, Insert(r, id) PROVE Checked'
  BY <1>3, <1>11 DEF Insert
<1> QED
  BY <1>2, <1>5, <1>6, <1>7, <1>8, <1>9, <1>10, <1>11 DEF Next, Step, Replicate, vars

\* The check of an invitation saw a manager whom the primary still has when the
\* row is inserted, since no membership is ever taken away.
LEMMA NextInvited ==
    TypeOK /\ Checked /\ InvitedByManager /\ [Next]_vars => InvitedByManager'
<1> SUFFICES ASSUME TypeOK, Checked, InvitedByManager, [Next]_vars PROVE InvitedByManager'
  OBVIOUS
<1> DEFINE Managed(row, t) == \E m \in MembersIn(t, row.id) :
                                m.user = row.by /\ Can(m.role, "members:manage")
<1>1. CASE UNCHANGED log
  BY <1>1 DEF InvitedByManager, Rows, MembersIn
<1>2. ASSUME NEW T \in SUBSET TableRow, log' = Append(log, T),
             \A row \in T : IsMember(row) /\ row.role # "owner" => Managed(row, Primary)
      PROVE  InvitedByManager'
  <2>1. /\ Len(log') = Len(log) + 1 /\ Len(log) \in Nat /\ log'[Len(log) + 1] = T
        /\ \A k \in 1 .. Len(log) : log'[k] = log[k]
        /\ \A n \in 0 .. Len(log) : Rows(n)' = Rows(n)
    BY <1>2, RowsAppend DEF TypeOK
  <2>2. ASSUME NEW k \in 1 .. Len(log'), NEW row \in log'[k], IsMember(row), row.role # "owner"
        PROVE  Managed(row, Rows(k - 1)')
    <3>1. k - 1 \in 0 .. Len(log) /\ Rows(k - 1)' = Rows(k - 1)
      BY <2>1
    <3>2. CASE k = Len(log) + 1
      <4>1. row \in T /\ Rows(k - 1) = Primary
        BY <2>1, <2>2, <3>2 DEF Primary
      <4> QED
        BY <1>2, <2>2, <3>1, <4>1
    <3>3. CASE k \in 1 .. Len(log)
      <4>1. row \in log[k]
        BY <2>1, <3>3
      <4>2. Managed(row, Rows(k - 1))
        BY <2>2, <3>3, <4>1 DEF InvitedByManager
      <4> QED
        BY <3>1, <4>2
    <3> QED
      BY <2>1, <3>2, <3>3
  <2> QED
    BY <2>2 DEF InvitedByManager
<1>3. ASSUME NEW r \in Requests, NEW id \in Ids, Insert(r, id) PROVE InvitedByManager'
  <2>1. \A row \in WorkspaceAndOwner(cmd[r], id) : ~IsMember(row) \/ row.role = "owner"
    BY DEF WorkspaceAndOwner, IsMember
  <2> QED
    BY <1>2, <1>3, <2>1, InsertCommits
<1>4. ASSUME NEW r \in Requests, Add(r), log' # log PROVE InvitedByManager'
  <2>1. {NewMember(cmd[r])} \in SUBSET TableRow /\ log' = Append(log, {NewMember(cmd[r])})
    BY <1>4, AddCommits DEF TableRow
  <2>2. pc[r] = "add"
    BY <1>4 DEF Add
  <2>3. \E m \in MembersIn(Primary, cmd[r].id) :
           m.user = cmd[r].user /\ Can(m.role, "members:manage")
    BY <2>2 DEF Checked, CheckedAt
  <2>4. NewMember(cmd[r]).id = cmd[r].id /\ NewMember(cmd[r]).by = cmd[r].user
    BY DEF NewMember
  <2> QED
    BY <1>2, <2>1, <2>3, <2>4
<1> QED
  BY <1>1, <1>3, <1>4, DbSteps DEF Replicate, dbVars

-----------------------------------------------------------------------------
(* The limit                                                               *)

\* A user's workspaces that count, and the creations that have passed the check.
Owned(u) == {w \in OwnedIn(Primary, u) : w.id \notin unseen}
Creating(u) == {r \in Requests : pc[r] = "insert" /\ cmd[r].user = u}

LimitAt(u) ==
    Cardinality(Owned(u)) + Cardinality(Creating(u)) <= MaxWorkspaces + Cardinality(Requests) - 1

LEMMA LimitParts == LimitExplained <=> \A u \in Users : LimitAt(u)
BY DEF LimitExplained, LimitAt, Owned, Creating

LEMMA LimitPartsNext == LimitExplained' <=> \A u \in Users : LimitAt(u)'
BY DEF LimitExplained, LimitAt, Owned, Creating

LEMMA LimitSets ==
    ASSUME TypeOK, TablesSound, NEW u
    PROVE  /\ IsFiniteSet(Owned(u)) /\ Cardinality(Owned(u)) \in Nat
           /\ IsFiniteSet(OwnedIn(Replica, u)) /\ Cardinality(OwnedIn(Replica, u)) \in Nat
<1>1. IsFiniteSet(Primary) /\ IsFiniteSet(Replica)
  BY ReplicaIsPrefix DEF TablesSound, Primary
<1>2. /\ Owned(u) \subseteq Primary /\ OwnedIn(Replica, u) \subseteq Replica
  BY DEF Owned, OwnedIn, WorkspacesIn
<1> QED
  BY <1>1, <1>2, FS_Subset, FS_CardinalityType

LEMMA RequestSets ==
    /\ Cardinality(Requests) \in Nat
    /\ \A S \in SUBSET Requests : /\ IsFiniteSet(S) /\ Cardinality(S) \in Nat
                                  /\ Cardinality(S) <= Cardinality(Requests)
BY FS_Subset, FS_CardinalityType

\* Neither a workspace nor a creation has come to count.
LEMMA LimitStays ==
    ASSUME TypeOK, TablesSound, NEW u, LimitAt(u),
           Owned(u)' \subseteq Owned(u), Creating(u)' \subseteq Creating(u)
    PROVE  LimitAt(u)'
<1>1. Creating(u) \in SUBSET Requests
  BY DEF Creating
<1>2. /\ Cardinality(Owned(u)') <= Cardinality(Owned(u)) /\ Cardinality(Owned(u)') \in Nat
      /\ Cardinality(Creating(u)') <= Cardinality(Creating(u))
      /\ Cardinality(Creating(u)') \in Nat
  BY <1>1, LimitSets, RequestSets, FS_Subset, FS_CardinalityType
<1>3. Cardinality(Owned(u)) \in Nat /\ Cardinality(Creating(u)) \in Nat
  BY <1>1, LimitSets, RequestSets
<1> QED
  BY <1>2, <1>3, RequestSets DEF LimitAt

LEMMA NextLimit ==
    TypeOK /\ TablesSound /\ Checked /\ LimitExplained /\ [Next]_vars => LimitExplained'
<1> SUFFICES ASSUME TypeOK, TablesSound, Checked, LimitExplained, [Next]_vars, NEW u \in Users
             PROVE  LimitAt(u)'
  BY LimitPartsNext
<1>0. LimitAt(u)
  BY LimitParts
<1>1. ASSUME UNCHANGED <<log, unseen>>, Creating(u)' \subseteq Creating(u) PROVE LimitAt(u)'
  <2>1. Primary' = Primary
    BY <1>1 DEF Primary, Rows
  <2>2. Owned(u)' = Owned(u)
    BY <1>1, <2>1 DEF Owned, OwnedIn, WorkspacesIn
  <2> QED
    BY <1>0, <1>1, <2>2, LimitStays
<1>2. ASSUME NEW r \in Requests, pc'[r] # "insert",
             \A q \in Requests : q # r => pc'[q] = pc[q] /\ cmd'[q] = cmd[q]
      PROVE  Creating(u)' \subseteq Creating(u) /\ r \notin Creating(u)'
  BY <1>2 DEF Creating
<1>3. ASSUME NEW r \in Requests, NEW c \in CreateCmd \cup InviteCmd \cup GetCmd, Begin(r, c)
      PROVE  LimitAt(u)'
  <2>1. pc'[r] # "insert" /\ \A q \in Requests : q # r => pc'[q] = pc[q] /\ cmd'[q] = cmd[q]
    BY <1>3 DEF Begin, TypeOK
  <2> QED
    BY <1>1, <1>2, <1>3, <2>1 DEF Begin, dbVars
<1>4. ASSUME NEW r \in Requests, Count(r) PROVE LimitAt(u)'
  <2>1. CASE Finish(r, "idle") /\ UNCHANGED <<log, unseen>>
    BY <1>1, <1>2, <2>1, FinishEffect
  <2>2. CASE /\ ~AtLimit(cmd[r].user) /\ Goto(r, "insert") /\ UNCHANGED log
             /\ unseen' = unseen \cup
                  {w.id : w \in OwnedIn(Primary, cmd[r].user) \ OwnedIn(Replica, cmd[r].user)}
    <3>1. /\ cmd' = cmd /\ \A q \in Requests : q # r => pc'[q] = pc[q]
      BY <2>2, GotoEffect
    <3>2. Primary' = Primary
      BY <2>2 DEF Primary, Rows
    <3>3. CASE cmd[r].user = u
      <4>1. Owned(u)' \subseteq OwnedIn(Replica, u)
        BY <2>2, <3>2, <3>3 DEF Owned, OwnedIn, WorkspacesIn
      <4>2. Creating(u)' \in SUBSET Requests
        BY DEF Creating
      <4>3. /\ Cardinality(Owned(u)') <= Cardinality(OwnedIn(Replica, u))
            /\ Cardinality(Owned(u)') \in Nat /\ Cardinality(OwnedIn(Replica, u)) \in Nat
        BY <4>1, LimitSets, FS_Subset, FS_CardinalityType
      <4>4. Cardinality(OwnedIn(Replica, u)) < MaxWorkspaces
        BY <2>2, <3>3, <4>3 DEF AtLimit, CountOwnedByUser
      <4> QED
        BY <4>2, <4>3, <4>4, RequestSets DEF LimitAt
    <3>4. CASE cmd[r].user # u
      <4>1. Owned(u)' \subseteq Owned(u) /\ Creating(u)' \subseteq Creating(u)
        BY <2>2, <3>1, <3>2, <3>4 DEF Owned, Creating, OwnedIn, WorkspacesIn
      <4> QED
        BY <1>0, <4>1, LimitStays
    <3> QED
      BY <3>3, <3>4
  <2> QED
    BY <1>4, <2>1, <2>2 DEF Count, dbVars
<1>5. ASSUME NEW r \in Requests, NEW id \in Ids, Insert(r, id) PROVE LimitAt(u)'
  <2> DEFINE w0 == [id |-> id, owner |-> cmd[r].user, name |-> cmd[r].name,
                    slug |-> cmd[r].slug]
             m0 == [id |-> id, user |-> cmd[r].user, role |-> "owner", by |-> Nobody]
  <2>1. Primary' = Primary \cup {w0, m0} /\ unseen' = unseen
    BY <1>5, InsertCommits, RowsAppend DEF WorkspaceAndOwner
  <2>2. w0.owner = cmd[r].user /\ ~IsWorkspace(m0)
    BY DEF IsWorkspace
  <2> HIDE DEF w0, m0
  <2>3. Creating(u)' \subseteq Creating(u) /\ r \notin Creating(u)'
    BY <1>2, <1>5, InsertCommits, FinishEffect
  <2>4. CASE cmd[r].user = u
    <3>1. r \in Creating(u) /\ Creating(u) \in SUBSET Requests
      BY <1>5, <2>4 DEF Creating, Insert
    <3>2. Creating(u)' \subseteq Creating(u) \ {r}
      BY <2>3
    <3>3. /\ Cardinality(Creating(u)') <= Cardinality(Creating(u)) - 1
          /\ Cardinality(Creating(u)') \in Nat /\ Cardinality(Creating(u)) \in Nat
      BY <3>1, <3>2, RequestSets, FS_RemoveElement, FS_Subset, FS_CardinalityType
    <3>4. Owned(u)' \subseteq Owned(u) \cup {w0}
      BY <2>1, <2>2 DEF Owned, OwnedIn, WorkspacesIn
    <3>5. IsFiniteSet(Owned(u)) /\ Cardinality(Owned(u)) \in Nat
      BY LimitSets
    <3>6. /\ IsFiniteSet(Owned(u) \cup {w0})
          /\ Cardinality(Owned(u) \cup {w0}) =
               IF w0 \in Owned(u) THEN Cardinality(Owned(u)) ELSE Cardinality(Owned(u)) + 1
      BY <3>5, FS_AddElement
    <3>7. /\ Cardinality(Owned(u)') <= Cardinality(Owned(u) \cup {w0})
          /\ Cardinality(Owned(u)') \in Nat
      BY <3>4, <3>6, FS_Subset, FS_CardinalityType
    <3>8. Cardinality(Owned(u)') <= Cardinality(Owned(u)) + 1
      BY <3>5, <3>6, <3>7
    <3> QED
      BY <1>0, <3>3, <3>5, <3>7, <3>8, RequestSets DEF LimitAt
  <2>5. CASE cmd[r].user # u
    <3>1. Owned(u)' \subseteq Owned(u)
      BY <2>1, <2>2, <2>5 DEF Owned, OwnedIn, WorkspacesIn
    <3> QED
      BY <1>0, <2>3, <3>1, LimitStays
  <2> QED
    BY <2>4, <2>5
<1>6. ASSUME NEW r \in Requests, InsertConflict(r) \/ Data(r) \/ DbError(r) PROVE LimitAt(u)'
  <2>1. PICK end \in {"idle", "refused", "missing"} : Finish(r, end)
    BY <1>6 DEF InsertConflict, Data, DbError
  <2> QED
    BY <1>1, <1>2, <1>6, <2>1, FinishEffect DEF InsertConflict, Data, DbError, dbVars
<1>7. ASSUME NEW r \in Requests, Auth(r) \/ Check(r) PROVE LimitAt(u)'
  <2>1. UNCHANGED <<log, unseen>>
    BY <1>7 DEF Auth, Check, dbVars
  <2>2. CASE Finish(r, "idle") \/ Finish(r, "refused")
    BY <1>1, <1>2, <2>1, <2>2, FinishEffect
  <2>3. CASE Goto(r, "check") \/ Goto(r, "add") \/ Goto(r, "data")
    BY <1>1, <1>2, <2>1, <2>3, GotoEffect
  <2> QED
    BY <1>7, <2>2, <2>3 DEF Auth, Check
<1>8. ASSUME NEW r \in Requests, Add(r) PROVE LimitAt(u)'
  <2>1. Creating(u)' \subseteq Creating(u)
    BY <1>2, <1>8, AddCommits, FinishEffect
  <2>2. Owned(u)' \subseteq Owned(u)
    <3>1. CASE UNCHANGED log
      <4>1. Primary' = Primary /\ unseen' = unseen
        BY <1>8, <3>1 DEF Primary, Rows, Add
      <4> QED
        BY <4>1 DEF Owned, OwnedIn, WorkspacesIn
    <3>2. CASE log' = Append(log, {NewMember(cmd[r])})
      <4>1. /\ {NewMember(cmd[r])} \in SUBSET TableRow /\ ~IsWorkspace(NewMember(cmd[r]))
        BY <1>8, AddCommits, RowKinds DEF TableRow
      <4>2. Primary' = Primary \cup {NewMember(cmd[r])} /\ unseen' = unseen
        BY <1>8, <3>2, <4>1, RowsAppend DEF Add
      <4> QED
        BY <4>1, <4>2 DEF Owned, OwnedIn, WorkspacesIn
    <3> QED
      BY <1>8, <3>1, <3>2, AddCommits
  <2> QED
    BY <1>0, <2>1, <2>2, LimitStays
<1>9. CASE Replicate \/ UNCHANGED vars
  BY <1>1, <1>9 DEF Replicate, vars, dbVars, Creating
<1> QED
  BY <1>3, <1>4, <1>5, <1>6, <1>7, <1>8, <1>9 DEF Next, Step

-----------------------------------------------------------------------------
(* The theorems                                                            *)

LEMMA InitInv == Init => IInv
<1> SUFFICES ASSUME Init PROVE IInv
  OBVIOUS
<1>1. log = <<>> /\ Len(log) = 0 /\ applied = 0
  BY DEF Init
<1>2. TypeOK
  <2>1. log \in Seq(SUBSET (WorkspaceRow \cup MemberRow))
    BY <1>1
  <2> QED
    BY <1>1, <2>1 DEF Init, TypeOK
<1>3. Rows(0) = {} /\ Primary = {}
  BY <1>1 DEF Rows, Primary
<1>4. TablesSound
  BY <1>1, <1>3, FS_EmptySet, OneOwnerPointwise DEF TablesSound, WorkspacesIn
<1>5. Checked
  BY DEF Init, Checked, CheckedAt
<1>6. InvitedByManager
  BY <1>1 DEF InvitedByManager
<1>7. LimitExplained
  <2> SUFFICES ASSUME NEW u \in Users PROVE LimitAt(u)
    BY LimitParts
  <2>1. Owned(u) = {} /\ Creating(u) = {}
    BY <1>3 DEF Owned, Creating, OwnedIn, WorkspacesIn, Init
  <2>2. Cardinality(Owned(u)) = 0 /\ Cardinality(Creating(u)) = 0
    BY <2>1, FS_EmptySet
  <2> QED
    BY <2>2, RequestSets DEF LimitAt
<1> QED
  BY <1>2, <1>4, <1>5, <1>6, <1>7 DEF IInv

LEMMA NextInv == IInv /\ [Next]_vars => IInv'
BY NextType, NextTables, NextChecked, NextInvited, NextLimit DEF IInv

\* The inductive invariant holds in every state that creations, invitations and
\* reads (CreateHandler, AddMemberHandler, GetHandler) can reach.
THEOREM InductiveCorrect == Spec => []IInv
BY InitInv, NextInv, PTL DEF Spec

\* Every variable stays of its kind, and the tables hold rows of their kinds
\* (WorkspaceRepository.Create, AddMember).
THEOREM TypeCorrect == Spec => []TypeOK
<1>1. IInv => TypeOK
  BY DEF IInv
<1> QED
  BY <1>1, InductiveCorrect, PTL

\* For any number of users and requests, and however far the replica lags: every
\* workspace has its one owner, members are invited by those who may, and a
\* member finds the workspace (AddMemberHandler, WorkspaceAuth, GetHandler).
THEOREM MembershipCorrect == Spec => []MembershipIsSound
<1>1. IInv => MembershipIsSound
  <2> SUFFICES ASSUME IInv PROVE MembershipIsSound
    OBVIOUS
  <2>1. OwnerIsMember
    BY ReplicaIsPrefix DEF IInv, TablesSound, OwnerIsMember, Primary
  <2>2. MemberSeesWorkspace
    BY DEF IInv, Checked, CheckedAt, MemberSeesWorkspace
  <2> QED
    BY <2>1, <2>2 DEF IInv, MembershipIsSound
<1> QED
  BY <1>1, InductiveCorrect, PTL

\* A user exceeds the limit by no more than the creations that raced, less one,
\* and the workspaces the replica hid from a check (CreateHandler).
THEOREM LimitCorrect == Spec => []LimitExplained
<1>1. IInv => LimitExplained
  BY DEF IInv
<1> QED
  BY <1>1, InductiveCorrect, PTL

=============================================================================
