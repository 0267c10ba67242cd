----------------------------- MODULE Workspaces -----------------------------
(***************************************************************************)
(* Workspaces, their members and their roles: creation under a per-user    *)
(* limit, invitation, the membership checks in front of every handler, and *)
(* the GET that follows them.  All checks read the replica, all writes go  *)
(* to the primary.                                                         *)
(*                                                                         *)
(* No handler changes or removes a row of these tables (UpdateRole and     *)
(* RemoveMember have no caller), so the database is the log of its         *)
(* transactions, each a set of rows, and the replica a prefix of it.       *)
(***************************************************************************)
EXTENDS Naturals, FiniteSets, Sequences

CONSTANTS Ids,            \* workspace ids, each given out once
          Users,
          Names, Slugs,   \* both unique across workspaces
          Requests,       \* requests under way together
          MaxWorkspaces,  \* MaxWorkspacesPerUser (5)
          HasReplica,     \* DB_REPLICA_DSN names a separate replica
          MaxRequests,    \* bound: requests begun in a behaviour
          Nobody          \* invited_by of an owner

ASSUME WorkspaceConstants ==
    /\ MaxWorkspaces \in Nat \ {0} /\ MaxRequests \in Nat
    /\ HasReplica \in BOOLEAN
    /\ Nobody \notin Users
    /\ IsFiniteSet(Requests) /\ IsFiniteSet(Ids)

VARIABLES
    log,      \* committed transactions
    applied,  \* how many of them the replica shows
    pc,       \* where each request stands
    cmd,      \* its command
    begun,    \* requests begun so far
    unseen    \* history: workspaces a limit check should have counted, and did not

dbVars == <<log, applied>>
vars == <<dbVars, pc, cmd, begun, unseen>>

-----------------------------------------------------------------------------
(* Roles                                                                   *)

Roles == {"owner", "admin", "editor", "viewer"}

Actions == {"url:create", "url:update", "url:delete", "url:view", "analytics:view",
            "webhook:manage", "members:manage", "workspace:delete", "members:view"}

\* rolePermissions
RolePermissions(role) ==
    CASE role = "owner"  -> Actions
      [] role = "admin"  -> Actions \ {"workspace:delete"}
      [] role = "editor" -> {"url:create", "url:update", "url:view", "analytics:view",
                             "members:view"}
      [] role = "viewer" -> {"url:view", "analytics:view", "members:view"}

\* Role.Can
Can(role, action) == action \in RolePermissions(role)

\* Mutant: an owner can be invited.
InvitableOwnerToo(role) == role \in Roles

\* AddMember's validation: a known role, and not owner.
Invitable(role) == role \in Roles /\ role # "owner"

-----------------------------------------------------------------------------
(* Tables                                                                  *)

WorkspaceRow == [id: Ids, owner: Users, name: Names, slug: Slugs]
MemberRow    == [id: Ids, user: Users, role: {"owner"}, by: {Nobody}]
                    \cup [id: Ids, user: Users, role: Roles \ {"owner"}, by: Users]

\* Both tables after the first n transactions.
Rows(n) == UNION {log[k] : k \in 1 .. n}

IsWorkspace(row) == "owner" \in DOMAIN row
IsMember(row) == "user" \in DOMAIN row

Primary == Rows(Len(log))

\* Client.Replica()
Replica == IF HasReplica THEN Rows(applied) ELSE Primary

WorkspacesIn(t) == {row \in t : IsWorkspace(row)}
MembersIn(t, id) == {row \in t : IsMember(row) /\ row.id = id}

\* GetMember: the membership row, if there is one.
GetMember(id, u) == {m \in MembersIn(Replica, id) : m.user = u}

\* GetByID
GetByID(id) == {w \in WorkspacesIn(Replica) : w.id = id}

OwnedIn(t, u) == {w \in WorkspacesIn(t) : w.owner = u}

\* CountOwnedByUser
CountOwnedByUser(u) == Cardinality(OwnedIn(Replica, u))

\* workspaces_name_unique, workspaces_slug_unique
Taken(c) == \E w \in WorkspacesIn(Primary) : w.name = c.name \/ w.slug = c.slug

\* workspace_members: its primary key, foreign key and role check
Insertable(c) ==
    /\ c.role \in Roles
    /\ \E w \in WorkspacesIn(Primary) : w.id = c.id
    /\ \A m \in MembersIn(Primary, c.id) : m.user # c.invited

-----------------------------------------------------------------------------
(* Requests                                                                *)

\* token is the workspace of the caller's claims, id the one of the path.
\* A slug may be the client's or GenerateSlug's; an asked role is any string.
CreateCmd == [op: {"create"}, user: Users, name: Names, slug: Slugs]
InviteCmd == [op: {"invite"}, user: Users, token: Ids, id: Ids, invited: Users,
              role: Roles \cup {"unknown"}]
GetCmd    == [op: {"get"}, user: Users, token: Ids, id: Ids]
NoCmd     == [op |-> "none"]

Goto(r, step) ==
    /\ pc' = [pc EXCEPT ![r] = step]
    /\ UNCHANGED <<cmd, begun>>

\* Request r is over: end is "idle", or the answer a property looks at.
Finish(r, end) ==
    /\ pc' = [pc EXCEPT ![r] = end]
    /\ cmd' = [cmd EXCEPT ![r] = NoCmd]
    /\ UNCHANGED begun

Begin(r, c) ==
    /\ pc[r] \in {"idle", "refused", "missing"} /\ begun < MaxRequests
    /\ begun' = begun + 1
    /\ cmd' = [cmd EXCEPT ![r] = c]
    /\ pc' = [pc EXCEPT ![r] = IF c.op = "create" THEN "count" ELSE "auth"]
    /\ UNCHANGED <<dbVars, unseen>>

\* Any statement fails and the request with it (500).
DbError(r) ==
    /\ pc[r] \notin {"idle", "refused", "missing"}
    /\ Finish(r, "idle")
    /\ UNCHANGED <<dbVars, unseen>>

\* Mutant: one workspace more.
AtLimitOffByOne(u) == CountOwnedByUser(u) > MaxWorkspaces

AtLimit(u) == CountOwnedByUser(u) >= MaxWorkspaces

\* CreateHandler up to the limit.
Count(r) ==
    LET u == cmd[r].user IN
    /\ pc[r] = "count"
    /\ IF AtLimit(u)
         THEN Finish(r, "idle") /\ UNCHANGED unseen
         ELSE /\ Goto(r, "insert")
              /\ unseen' = unseen \cup {w.id : w \in OwnedIn(Primary, u) \ OwnedIn(Replica, u)}
    /\ UNCHANGED dbVars

\* The two rows of WorkspaceRepository.Create.
WorkspaceAndOwner(c, id) ==
    {[id |-> id, owner |-> c.user, name |-> c.name, slug |-> c.slug],
     [id |-> id, user |-> c.user, role |-> "owner", by |-> Nobody]}

\* WorkspaceRepository.Create commits; whether the client is told so, or the
\* connection breaks during the commit, makes no difference to the rows.
Insert(r, id) ==
    /\ pc[r] = "insert"
    /\ \A w \in WorkspacesIn(Primary) : w.id # id
    /\ ~Taken(cmd[r])
    /\ log' = Append(log, WorkspaceAndOwner(cmd[r], id))
    /\ Finish(r, "idle")
    /\ UNCHANGED <<applied, unseen>>

\* The name or the slug is taken: rolled back (409).
InsertConflict(r) ==
    /\ pc[r] = "insert" /\ Taken(cmd[r])
    /\ Finish(r, "idle")
    /\ UNCHANGED <<dbVars, unseen>>

\* WorkspaceAuth, then RequireAction where the route has one: both go by the
\* workspace of the token.
Auth(r) ==
    LET found == GetMember(cmd[r].token, cmd[r].user) IN
    /\ pc[r] = "auth"
    /\ \/ found = {} /\ Finish(r, "refused")
       \/ \E m \in found :
            IF cmd[r].op = "invite" /\ ~Can(m.role, "members:manage")
              THEN Finish(r, "idle")
              ELSE Goto(r, "check")
    /\ UNCHANGED <<dbVars, unseen>>

\* Mutant: the handler trusts the check of the token's workspace.
AuthorizedByToken(c) == \E m \in GetMember(c.token, c.user) : Can(m.role, "members:manage")

\* The handler's own check, of the workspace of the path.
Authorized(c) == \E m \in GetMember(c.id, c.user) : Can(m.role, "members:manage")

\* AddMemberHandler up to the insert; GetHandler up to the data.
Check(r) ==
    /\ pc[r] = "check"
    /\ IF cmd[r].op = "invite"
         THEN IF ~Invitable(cmd[r].role) THEN Finish(r, "idle")
              ELSE IF Authorized(cmd[r]) THEN Goto(r, "add") ELSE Finish(r, "idle")
         ELSE IF GetMember(cmd[r].id, cmd[r].user) # {} THEN Goto(r, "data")
                                                        ELSE Finish(r, "idle")
    /\ UNCHANGED <<dbVars, unseen>>

\* WorkspaceRepository.AddMember, or its conflict.
Add(r) ==
    LET c == cmd[r] IN
    /\ pc[r] = "add"
    /\ IF Insertable(c)
         THEN /\ log' = Append(log, {[id |-> c.id, user |-> c.invited, role |-> c.role,
                                      by |-> c.user]})
              /\ Finish(r, "idle")
         ELSE UNCHANGED log /\ Finish(r, "idle")
    /\ UNCHANGED <<applied, unseen>>

\* GetHandler's second read.
Data(r) ==
    /\ pc[r] = "data"
    /\ Finish(r, IF GetByID(cmd[r].id) # {} THEN "idle" ELSE "missing")
    /\ UNCHANGED <<dbVars, unseen>>

Replicate ==
    /\ HasReplica /\ applied < Len(log)
    /\ applied' = applied + 1
    /\ UNCHANGED <<log, pc, cmd, begun, unseen>>

Init ==
    /\ log = <<>> /\ applied = 0
    /\ pc = [r \in Requests |-> "idle"] /\ cmd = [r \in Requests |-> NoCmd]
    /\ begun = 0 /\ unseen = {}

Step(r) ==
    \/ \E c \in CreateCmd \cup InviteCmd \cup GetCmd : Begin(r, c)
    \/ Count(r) \/ \E id \in Ids : Insert(r, id)
    \/ InsertConflict(r) \/ Auth(r) \/ Check(r) \/ Add(r) \/ Data(r) \/ DbError(r)

Next == (\E r \in Requests : Step(r)) \/ Replicate

Spec == Init /\ [][Next]_vars

-----------------------------------------------------------------------------
(* Properties                                                              *)

\* Kinds of values; an owner's row is nobody's invitation.
TypeOK ==
    /\ log \in Seq(SUBSET (WorkspaceRow \cup MemberRow))
    /\ applied \in 0 .. Len(log)
    /\ pc \in [Requests -> {"idle", "count", "insert", "auth", "check", "add", "data",
                         "refused", "missing"}]
    /\ cmd \in [Requests -> CreateCmd \cup InviteCmd \cup GetCmd \cup {NoCmd}]
    /\ begun \in 0 .. MaxRequests /\ unseen \subseteq Ids

\* In what the primary and the replica show, every workspace has one owner
\* among its members, the user of its owner_id, and there are no members of a
\* workspace that is not there (WorkspaceRepository.Create, AddMember).
OneOwner(t) ==
    /\ \A w \in WorkspacesIn(t) :
         {m.user : m \in {x \in MembersIn(t, w.id) : x.role = "owner"}} = {w.owner}
    /\ \A m \in {row \in t : IsMember(row)} : \E w \in WorkspacesIn(t) : w.id = m.id

OwnerIsMember == OneOwner(Primary) /\ OneOwner(Rows(applied))

\* Every invitation was made by somebody who was already in the workspace and
\* may manage its members, although the check reads the replica some time
\* before the insert and the middleware goes by another workspace.
InvitedByManager ==
    \A k \in 1 .. Len(log) : \A row \in log[k] :
        IsMember(row) /\ row.role # "owner"
            => \E m \in MembersIn(Rows(k - 1), row.id) :
                   m.user = row.by /\ Can(m.role, "members:manage")

\* A GET that found the caller's membership finds the workspace too: two reads
\* of a replica that moves between them (GetHandler).
MemberSeesWorkspace == \A r \in Requests : pc[r] # "missing"

\* Members come in legitimately, and what a member may see is there.
MembershipIsSound == OwnerIsMember /\ InvitedByManager /\ MemberSeesWorkspace

\* A user owns more workspaces than the limit only by what the creations racing
\* one another add, and by those that a limit check did not see because it reads
\* the replica (CreateHandler, whose comment accepts the race).
LimitExplained ==
    \A u \in Users :
        LET owned   == {w \in OwnedIn(Primary, u) : w.id \notin unseen}
            pending == {r \in Requests : pc[r] = "insert" /\ cmd[r].user = u}
        IN  Cardinality(owned) + Cardinality(pending)
                <= MaxWorkspaces + Cardinality(Requests) - 1

=============================================================================
