----------------------------- MODULE UrlListing -----------------------------
(***************************************************************************)
(* GET /urls: a client walks through the links of its workspace page by    *)
(* page, with the cursor of each page, while links are created, changed    *)
(* and deleted and the replica the pages come from follows behind.         *)
(*                                                                         *)
(* A link is its id (ids compare as numbers) and whether the filter of the *)
(* walk selects it.  Ids are drawn before the insert, on several pods, so  *)
(* that they may be committed in any order.                                *)
(***************************************************************************)
EXTENDS Integers, Sequences, FiniteSets

CONSTANTS Ids,            \* numbers above NoCursor
          Queries,        \* limit parameters: sequences of digits, <<>> for none
          DefaultLimit,   \* 20
          MaxLimit,       \* 100
          Half,           \* an int goes from -Half to Half - 1 (2^63)
          MaxLag          \* bound: changes the replica may be behind

ASSUME ListingConstants ==
    /\ Ids \subseteq Nat \ {0} /\ IsFiniteSet(Ids)
    /\ Queries \subseteq Seq(0 .. 9)
    /\ MaxLimit \in Nat /\ DefaultLimit \in 1 .. MaxLimit
    /\ Half \in Nat /\ MaxLimit < Half
    /\ MaxLag \in Nat

VARIABLES
    shown,   \* the rows on the replica
    lag,     \* changes committed on the primary and not yet on the replica
    walk,    \* the client's walk
    steady   \* history: links the replica showed all through the walk

listingVars == <<shown, lag, walk, steady>>

-----------------------------------------------------------------------------
(* Rows                                                                    *)

\* Of the links of the workspace (List never sees the others): selected, not
\* deleted and of the filter's status and creator; other, not deleted only.
States == {"none", "selected", "other", "deleted"}

\* The row on the primary.
Current(id) ==
    LET ks == {k \in 1 .. Len(lag) : lag[k].id = id} IN
    IF ks = {} THEN shown[id] ELSE lag[CHOOSE k \in ks : \A j \in ks : j <= k].state

Change(id, state) ==
    /\ Len(lag) < MaxLag
    /\ lag' = Append(lag, [id |-> id, state |-> state])
    /\ UNCHANGED <<shown, walk, steady>>

Create(id, state) == Current(id) = "none" /\ Change(id, state)

\* An update may move a link into the filter or out of it.
Update(id, state) == Current(id) \in {"selected", "other"} /\ Change(id, state)

SoftDelete(id) == Current(id) \in {"selected", "other"} /\ Change(id, "deleted")

ReplicateChange ==
    /\ lag # <<>>
    /\ shown' = [shown EXCEPT ![Head(lag).id] = Head(lag).state]
    /\ lag' = Tail(lag)
    /\ steady' = {i \in steady : shown'[i] = "selected"}
    /\ UNCHANGED walk

-----------------------------------------------------------------------------
(* The limit parameter                                                     *)

\* What an int holds of n.
Wrap(n) == ((n + Half) % (2 * Half)) - Half

\* n = n*10 + digit, along the digits
Number(q) ==
    LET upTo[k \in 0 .. Len(q)] ==
          IF k = 0 THEN 0 ELSE Wrap(upTo[k - 1] * 10 + q[k])
    IN  upTo[Len(q)]

\* Mutant: a limit above the maximum is taken as it is.
ParseIntQueryUncapped(q) == IF Number(q) <= 0 THEN DefaultLimit ELSE Number(q)

\* parseIntQuery; List's own bounds on the limit are the same again.
ParseIntQuery(q) ==
    IF Number(q) <= 0 THEN DefaultLimit
    ELSE IF Number(q) > MaxLimit THEN MaxLimit
    ELSE Number(q)

-----------------------------------------------------------------------------
(* Pages                                                                   *)

NoCursor == 0

\* Mutant: the link of the cursor comes again.
RemainingFrom(cursor) == {i \in Ids : i >= cursor /\ shown[i] = "selected"}

\* The WHERE clause of List.
Remaining(cursor) == {i \in Ids : i > cursor /\ shown[i] = "selected"}

\* ORDER BY id LIMIT limit, of those.
Page(cursor, limit) ==
    LET all == Remaining(cursor) IN
    {i \in all : Cardinality({j \in all : j < i}) < limit}

\* The id of the page's last row if the query found one row more.
NextCursor(cursor, limit) ==
    LET page == Page(cursor, limit) IN
    IF Remaining(cursor) = page THEN NoCursor
    ELSE CHOOSE i \in page : \A j \in page : j <= i

NoWalk == [on |-> FALSE, limit |-> DefaultLimit, cursor |-> NoCursor, seen |-> {},
           again |-> FALSE]

\* One page, added to what the client has: it goes on while there is a cursor.
FetchPage(w) ==
    walk' = [w EXCEPT !.on = NextCursor(w.cursor, w.limit) # NoCursor,
                      !.cursor = NextCursor(w.cursor, w.limit),
                      !.seen = @ \cup Page(w.cursor, w.limit),
                      !.again = @ \/ Page(w.cursor, w.limit) \cap w.seen # {}]

FirstPage(q) ==
    /\ ~walk.on
    /\ FetchPage([NoWalk EXCEPT !.limit = ParseIntQuery(q)])
    /\ steady' = Remaining(NoCursor)
    /\ UNCHANGED <<shown, lag>>

NextPage ==
    /\ walk.on
    /\ FetchPage(walk)
    /\ UNCHANGED <<shown, lag, steady>>

\* A page fails, or its answer is lost, and the client gives up (asking again
\* with the same cursor is NextPage).
AbandonWalk ==
    /\ walk.on
    /\ walk' = NoWalk /\ steady' = {}
    /\ UNCHANGED <<shown, lag>>

ListingInit ==
    /\ shown = [id \in Ids |-> "none"] /\ lag = <<>>
    /\ walk = NoWalk /\ steady = {}

ListingNext ==
    \/ \E id \in Ids :
         \/ \E state \in {"selected", "other"} : Create(id, state) \/ Update(id, state)
         \/ SoftDelete(id)
    \/ ReplicateChange
    \/ \E q \in Queries : FirstPage(q)
    \/ NextPage \/ AbandonWalk

ListingSpec == ListingInit /\ [][ListingNext]_listingVars

-----------------------------------------------------------------------------
(* Properties                                                              *)

\* Kinds of values; the limit a page is cut to is between 1 and MaxLimit,
\* whatever number the client wrote.
ListingTypeOK ==
    /\ shown \in [Ids -> States]
    /\ lag \in Seq([id: Ids, state: States \ {"none"}])
    /\ walk \in [on: BOOLEAN, limit: 1 .. MaxLimit, cursor: Ids \cup {NoCursor},
                 seen: SUBSET Ids, again: BOOLEAN]
    /\ steady \subseteq Ids

\* A walk never lists a link twice, whatever is created, changed or deleted
\* between its pages (URLRepository.List).
ListedOnce == ~walk.again

\* When a walk ends, it has listed every link that the replica showed all
\* through it, and while it goes on, every such link up to the cursor.
NothingSkipped ==
    steady \subseteq IF walk.on THEN walk.seen \cup {i \in Ids : i > walk.cursor}
                                ELSE walk.seen

\* The pages of a walk are a list: nothing twice, and nothing left out.
WalkIsExact == ListedOnce /\ NothingSkipped

=============================================================================
