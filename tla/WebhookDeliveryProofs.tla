------------------------ MODULE WebhookDeliveryProofs ------------------------
(***************************************************************************)
(* Webhooks, for any number of hooks, events, workers, registrations and   *)
(* faults: what a delivery is settled for, how long a claim keeps others   *)
(* away, how often an endpoint is called, how far the limit is exceeded.   *)
(*                                                                         *)
(* None of these is inductive.  The claims rest on what a worker may know  *)
(* of the row it claimed (Held): its attempt number is at most the row's,  *)
(* no two workers with an outcome to write have the same number, and until *)
(* a stale claim is taken over the row is in delivering for its holder.    *)
(* The posts are bounded by a count (CountedAt) of the attempts that are   *)
(* still open: a failure that is retried closes the number it was claimed  *)
(* under, so late answers cannot reopen a row more often than claims went  *)
(* stale.  What is abandoned is explained because a row with a hook that   *)
(* is deleted is gone (HooksSound), and what is dispatched happens once    *)
(* because nothing touches a delivery before its INSERT (DispatchSound).   *)
(*                                                                         *)
(* A step is looked at once for each delivery (StepKinds): it leaves it    *)
(* alone, or inserts, claims, posts or settles it.                         *)
(***************************************************************************)
EXTENDS WebhookDelivery, FiniteSetTheorems, TLAPS

USE WebhookConstants, NoDeliveryIsNoRow

Row == Delivery \cup {NoDelivery}

\* Worker w has d in its batch and has not written its outcome yet.
Unsettled(w, d) == d \in batch[w] /\ ~(wpc[w] = "hook" /\ job[w] = d)

\* The workers that may still post d.
Unposted(d) ==
    {w \in Workers : d \in batch[w] /\ ~(wpc[w] \in {"mark", "hook"} /\ job[w] = d)}

\* The dispatch of d's event has not come to d's hook.
Unwritten(d) == d[1] \in fresh \/ d[2] \in todo[d[1]]

\* What the hooks' rows, on either pool, say of those who refer to them.
HooksSound ==
    /\ \A h \in Hooks : /\ rhooks[h].status # "none" => hooks[h].status # "none"
                        /\ hooks[h].status = "failing" => h \in failed
    /\ \A e \in Events : \A h \in aimed[e] : hooks[h].status # "none"
    /\ \A d \in Ids : Exists(d) => hooks[d[2]].status \notin {"none", "deleted"}
    /\ \A w \in Workers : \A d \in batch[w] : hooks[d[2]].status # "none"

\* An event is dispatched once, and a delivery has one INSERT.
DispatchSound ==
    /\ \A e \in Events : todo[e] \subseteq aimed[e]
    /\ \A e \in fresh : aimed[e] = {} /\ e \notin cut
    /\ \A d \in Ids : Unwritten(d) =>
         /\ ~Exists(d) /\ posts[d] = 0 /\ reclaims[d] = 0
         /\ \A w \in Workers : d \notin batch[w]

\* The claims on d: who has it in its batch took it up as the row says, and
\* until a stale claim is taken over it is the only one and has the row in
\* delivering.
Held(d) ==
    /\ \A w \in Workers : d \in batch[w] =>
         /\ num[w][d] >= 1
         /\ Exists(d) => num[w][d] <= delivs[d].attempts
         /\ Exists(d) /\ reclaims[d] = 0 =>
              /\ delivs[d].status # "pending"
              /\ Unsettled(w, d) => delivs[d].status = "delivering"
    /\ \A v, w \in Workers : v # w /\ d \in batch[v] /\ d \in batch[w] => reclaims[d] > 0
    /\ \A v, w \in Workers :
         v # w /\ Unsettled(v, d) /\ Unsettled(w, d) => num[v][d] # num[w][d]

ClaimsSound == \A d \in Ids : Held(d)

-----------------------------------------------------------------------------
(* What the statements leave in a row                                      *)

LEMMA HookEdit ==
    ASSUME NEW r \in Hook, NEW s \in {"none", "active", "failing", "deleted"}
    PROVE  LET t == [r EXCEPT !.status = s] IN
           t \in Hook /\ t.status = s
BY DEF Hook

LEMMA ClaimedEdit ==
    ASSUME NEW r \in Delivery
    PROVE  /\ Claimed(r) \in Delivery /\ Claimed(r).status = "delivering"
           /\ Claimed(r).attempts = r.attempts + 1
<1> DEFINE a == [r EXCEPT !.status = "delivering"]
           b == [a EXCEPT !.attempts = r.attempts + 1]
           c == [b EXCEPT !.stale = FALSE]
<1>1. a \in Delivery /\ a.status = "delivering" /\ a.attempts = r.attempts
  BY DEF Delivery
<1> HIDE DEF a
<1>2. b \in Delivery /\ b.status = "delivering" /\ b.attempts = r.attempts + 1
  BY <1>1 DEF Delivery
<1> HIDE DEF b
<1>3. c \in Delivery /\ c.status = "delivering" /\ c.attempts = r.attempts + 1
  BY <1>2 DEF Delivery
<1>4. Claimed(r) = c
  BY <1>1 DEF Claimed, a, b
<1> QED
  BY <1>3, <1>4

LEMMA TimeEdit ==
    ASSUME NEW r \in Delivery
    PROVE  /\ [r EXCEPT !.due = TRUE] \in Delivery
           /\ [r EXCEPT !.due = TRUE].status = r.status
           /\ [r EXCEPT !.due = TRUE].attempts = r.attempts
           /\ [r EXCEPT !.stale = TRUE] \in Delivery
           /\ [r EXCEPT !.stale = TRUE].status = r.status
           /\ [r EXCEPT !.stale = TRUE].attempts = r.attempts
BY DEF Delivery

LEMMA SettledEdit ==
    ASSUME NEW w \in Workers, NEW r \in Delivery
    PROVE  /\ Settled(w, r) \in Delivery
           /\ Settled(w, r).attempts = r.attempts
           /\ out[w] = "ok" => Settled(w, r).status = "delivered"
           /\ Retries(w) => Settled(w, r).status = "pending"
           /\ out[w] # "ok" /\ ~Retries(w) => Settled(w, r).status = "abandoned"
<1>1. Retries(w) => out[w] # "ok"
  BY DEF Retries
<1>2. CASE out[w] = "ok"
  <2>1. Settled(w, r) = [r EXCEPT !.status = "delivered"]
    BY <1>1, <1>2 DEF Settled
  <2> QED
    BY <1>1, <1>2, <2>1 DEF Delivery
<1>3. CASE Retries(w)
  <2>1. Settled(w, r) = [r EXCEPT !.status = "pending", !.due = FALSE]
    BY <1>1, <1>3 DEF Settled
  <2> QED
    BY <1>1, <1>3, <2>1 DEF Delivery
<1>4. CASE out[w] # "ok" /\ ~Retries(w)
  <2>1. Settled(w, r) = [r EXCEPT !.status = "abandoned"]
    BY <1>4 DEF Settled
  <2> QED
    BY <1>4, <2>1 DEF Delivery
<1> QED
  BY <1>2, <1>3, <1>4

LEMMA NewDeliveryType ==
    /\ NewDelivery \in Delivery /\ NewDelivery # NoDelivery
    /\ NewDelivery.status = "pending" /\ NewDelivery.attempts = 0
<1>1. NewDelivery \in Delivery
  BY DEF NewDelivery, Delivery
<1> QED
  BY <1>1 DEF NewDelivery

\* One row of the table is written, the others stay.
LEMMA RowWritten ==
    ASSUME TypeOK, NEW d \in Ids, NEW r \in Row, delivs' = [delivs EXCEPT ![d] = r]
    PROVE  /\ delivs' \in [Ids -> Row] /\ delivs'[d] = r
           /\ \A x \in Ids : x # d => delivs'[x] = delivs[x]
BY DEF TypeOK, Row

\* ON DELETE CASCADE
LEMMA CascadeEffect ==
    ASSUME TypeOK, NEW h \in Hooks, DeleteHook(h)
    PROVE  /\ delivs' \in [Ids -> Row]
           /\ \A d \in Ids : delivs'[d] = IF d[2] = h THEN NoDelivery ELSE delivs[d]
           /\ hooks' \in [Hooks -> Hook] /\ hooks'[h].status = "deleted"
           /\ \A x \in Hooks : x # h => hooks'[x] = hooks[x]
<1>1. hooks[h] \in Hook /\ hooks' = [hooks EXCEPT ![h] = [hooks[h] EXCEPT !.status = "deleted"]]
  BY DEF DeleteHook, TypeOK
<1>2. [hooks[h] EXCEPT !.status = "deleted"] \in Hook
      /\ [hooks[h] EXCEPT !.status = "deleted"].status = "deleted"
  BY <1>1, HookEdit
<1>3. delivs' = [d \in Ids |-> IF d[2] = h THEN NoDelivery ELSE delivs[d]]
  BY DEF DeleteHook, Cascade
<1> QED
  BY <1>1, <1>2, <1>3 DEF TypeOK, Row

LEMMA RegisterEffect ==
    ASSUME TypeOK, NEW g \in Registrars, NEW es \in SUBSET EventTypes,
           RegisterCreate(g, es)
    PROVE  \E h \in Hooks :
             /\ hooks[h].status = "none"
             /\ hooks' \in [Hooks -> Hook] /\ hooks'[h].status = "active"
             /\ \A x \in Hooks : x # h => hooks'[x] = hooks[x]
<1> DEFINE h == CHOOSE x \in Unused : TRUE
           r == [status |-> "active", events |-> es]
<1>1. h \in Unused
  BY DEF RegisterCreate
<1>2. r \in Hook
  BY DEF Hook
<1>3. hooks' = [hooks EXCEPT ![h] = r]
  BY DEF RegisterCreate
<1> HIDE DEF h
<1> QED
  BY <1>1, <1>2, <1>3 DEF Unused, TypeOK

\* CreateDelivery's INSERT, or CreateError's when only the answer was lost.
LEMMA InsertEffect ==
    ASSUME TypeOK, NEW e \in Events, NEW h \in Hooks,
           CreateDelivery(e, h) \/ CreateError(e, h)
    PROVE  /\ <<e, h>> \in Ids /\ h \in todo[e] /\ delivs' \in [Ids -> Row]
           /\ \A d \in Ids : d # <<e, h>> => delivs'[d] = delivs[d]
           /\ \/ delivs' = delivs
              \/ delivs'[<<e, h>>] = NewDelivery /\ hooks[h].status # "deleted"
<1>1. <<e, h>> \in Ids
  BY DEF Ids
<1>2. ASSUME delivs' = [delivs EXCEPT ![<<e, h>>] = NewDelivery]
      PROVE  /\ delivs' \in [Ids -> Row] /\ delivs'[<<e, h>>] = NewDelivery
             /\ \A d \in Ids : d # <<e, h>> => delivs'[d] = delivs[d]
  BY <1>1, <1>2, RowWritten, NewDeliveryType DEF Row
<1> QED
  BY <1>1, <1>2 DEF CreateDelivery, CreateError, TypeOK, Row

\* The rows of S are claimed, each by one statement's increment.
LEMMA ClaimEffect ==
    ASSUME TypeOK, NEW w \in Workers, ClaimPending(w)
    PROVE  \E S \in SUBSET {d \in Ids : Eligible(d)} :
             /\ S # {} /\ delivs' \in [Ids -> Row] /\ reclaims' \in [Ids -> Nat]
             /\ \A d \in S : /\ delivs'[d] = Claimed(delivs[d]) /\ delivs[d] \in Delivery
                             /\ reclaims'[d] =
                                  IF StaleClaim(d) THEN reclaims[d] + 1 ELSE reclaims[d]
             /\ \A d \in Ids \ S : delivs'[d] = delivs[d] /\ reclaims'[d] = reclaims[d]
             /\ \/ /\ wpc' = [wpc EXCEPT ![w] = "next"]
                   /\ batch' = [batch EXCEPT ![w] = S]
                   /\ num' = [num EXCEPT ![w] =
                                [d \in Ids |-> IF d \in S THEN delivs[d].attempts + 1 ELSE 0]]
                   /\ UNCHANGED slips
                \/ Slip /\ UNCHANGED <<wpc, batch, num>>
<1>1. PICK S \in SUBSET {d \in Ids : Eligible(d)} :
        /\ S # {}
        /\ delivs' = [d \in Ids |-> IF d \in S THEN Claimed(delivs[d]) ELSE delivs[d]]
        /\ reclaims' = [d \in Ids |-> IF d \in S /\ StaleClaim(d)
                                        THEN reclaims[d] + 1 ELSE reclaims[d]]
        /\ \/ /\ wpc' = [wpc EXCEPT ![w] = "next"]
              /\ batch' = [batch EXCEPT ![w] = S]
              /\ num' = [num EXCEPT ![w] =
                            [d \in Ids |-> IF d \in S THEN delivs[d].attempts + 1 ELSE 0]]
              /\ UNCHANGED slips
           \/ Slip /\ UNCHANGED <<wpc, batch, num>>
  BY DEF ClaimPending
<1>2. \A d \in S : delivs[d] \in Delivery /\ Claimed(delivs[d]) \in Delivery
  BY ClaimedEdit DEF Eligible, Exists, TypeOK
<1>3. delivs' \in [Ids -> Row]
  BY <1>1, <1>2 DEF TypeOK, Row
<1>4. reclaims' \in [Ids -> Nat]
  BY <1>1 DEF TypeOK
<1> QED
  BY <1>1, <1>2, <1>3, <1>4

\* processDelivery's first statement settles the row of its job, or nothing.
LEMMA MarkEffect ==
    ASSUME TypeOK, NEW w \in Workers, Mark(w)
    PROVE  LET j == job[w] IN
           /\ j \in Ids /\ j \in batch[w] /\ delivs' \in [Ids -> Row]
           /\ \A d \in Ids : d # j => delivs'[d] = delivs[d]
           /\ \/ delivs'[j] = delivs[j]
              \/ Exists(j) /\ delivs[j] \in Delivery /\ delivs'[j] = Settled(w, delivs[j])
<1> DEFINE j == job[w]
<1>1. j \in Ids /\ j \in batch[w]
  BY DEF Mark, TypeOK
<1>2. CASE delivs' = delivs \/ ~Exists(j)
  BY <1>1, <1>2 DEF Mark, TypeOK, Row, Exists
<1>3. CASE Exists(j) /\ delivs' = [delivs EXCEPT ![j] = Settled(w, delivs[j])]
  <2>1. delivs[j] \in Delivery
    BY <1>1, <1>3 DEF Exists, TypeOK
  <2> QED
    BY <1>1, <1>3, <2>1, SettledEdit, RowWritten DEF Row
<1> QED
  BY <1>1, <1>2, <1>3 DEF Mark

\* Time changes neither the status nor the attempts of a row.
LEMMA TimeEffect ==
    ASSUME TypeOK, NEW d \in Ids, FallDue(d) \/ GoStale(d)
    PROVE  /\ delivs' \in [Ids -> Row] /\ delivs[d] \in Delivery /\ delivs'[d] \in Delivery
           /\ delivs'[d].status = delivs[d].status /\ delivs[d].status # "delivered"
           /\ delivs'[d].attempts = delivs[d].attempts
           /\ \A x \in Ids : x # d => delivs'[x] = delivs[x]
<1>1. delivs[d] \in Delivery /\ delivs[d].status # "delivered"
  BY DEF FallDue, GoStale, Exists, TypeOK
<1>2. PICK r \in Delivery : /\ delivs' = [delivs EXCEPT ![d] = r]
                            /\ r.status = delivs[d].status
                            /\ r.attempts = delivs[d].attempts
  <2>1. CASE FallDue(d)
    BY <1>1, <2>1, TimeEdit DEF FallDue
  <2>2. CASE GoStale(d)
    BY <1>1, <2>2, TimeEdit DEF GoStale
  <2> QED
    BY <2>1, <2>2
<1> QED
  BY <1>1, <1>2, RowWritten DEF Row

-----------------------------------------------------------------------------
(* Types                                                                   *)

HookType ==
    /\ hooks \in [Hooks -> Hook] /\ rhooks \in [Hooks -> Hook]
    /\ reg \subseteq Registrars /\ failed \subseteq Hooks /\ unseen \subseteq Hooks

DispatchType ==
    /\ aimed \in [Events -> SUBSET Hooks] /\ cut \subseteq Events
    /\ todo \in [Events -> SUBSET Hooks] /\ fresh \subseteq Events

WorkType ==
    /\ wpc \in [Workers -> {"idle", "next", "post", "mark", "hook"}]
    /\ batch \in [Workers -> SUBSET Ids]
    /\ num \in [Workers -> [Ids -> Nat]]
    /\ job \in [Workers -> Ids \cup {NoDelivery}]
    /\ out \in [Workers -> {"none", "ok", "failed", "nohook", "undeliverable"}]
    /\ \A w \in Workers :
        /\ (wpc[w] = "idle") = (batch[w] = {})
        /\ wpc[w] \in {"post", "mark", "hook"} => job[w] \in batch[w]

RowType ==
    /\ delivs \in [Ids -> Row] /\ accepted \subseteq Ids
    /\ posts \in [Ids -> Nat] /\ reclaims \in [Ids -> Nat]

LEMMA TypeParts ==
    TypeOK <=> HookType /\ DispatchType /\ WorkType /\ RowType /\ slips \in 0 .. MaxSlips
BY DEF TypeOK, HookType, DispatchType, WorkType, RowType, Row

LEMMA TypePartsNext ==
    TypeOK' <=> HookType' /\ DispatchType' /\ WorkType' /\ RowType' /\ slips' \in 0 .. MaxSlips
BY DEF TypeOK, HookType, DispatchType, WorkType, RowType, Row

LEMMA InitType == Init => TypeOK
<1> SUFFICES ASSUME Init PROVE TypeOK
  OBVIOUS
<1>1. [status |-> "none", events |-> {}] \in Hook
  BY DEF Hook
<1>2. HookType
  BY <1>1 DEF Init, HookType
<1>3. DispatchType /\ RowType
  BY DEF Init, DispatchType, RowType, Row
<1>4. WorkType
  BY DEF Init, WorkType
<1> QED
  BY <1>2, <1>3, <1>4, TypeParts DEF Init

LEMMA SlipType == TypeOK /\ (Slip \/ UNCHANGED slips) => slips' \in 0 .. MaxSlips
BY DEF TypeOK, Slip

LEMMA SameHookType == TypeOK /\ UNCHANGED hookVars => HookType'
BY DEF TypeOK, HookType, hookVars

LEMMA SameDispatchType == TypeOK /\ UNCHANGED dispVars => DispatchType'
BY DEF TypeOK, DispatchType, dispVars

LEMMA SameWorkType == TypeOK /\ UNCHANGED workVars => WorkType'
BY DEF TypeOK, WorkType, workVars

\* What a worker's step leaves to the others.
OtherWorkers(w) ==
    \A v \in Workers : v # w =>
        /\ wpc'[v] = wpc[v] /\ batch'[v] = batch[v] /\ num'[v] = num[v]
        /\ job'[v] = job[v] /\ out'[v] = out[v]

\* A worker's step that keeps the types of its own locals.
LEMMA OwnWorkType ==
    ASSUME TypeOK, NEW w \in Workers,
           wpc' = [wpc EXCEPT ![w] = wpc'[w]], batch' = [batch EXCEPT ![w] = batch'[w]],
           num' = [num EXCEPT ![w] = num'[w]], job' = [job EXCEPT ![w] = job'[w]],
           out' = [out EXCEPT ![w] = out'[w]],
           wpc'[w] \in {"idle", "next", "post", "mark", "hook"},
           batch'[w] \in SUBSET Ids, num'[w] \in [Ids -> Nat],
           job'[w] \in Ids \cup {NoDelivery},
           out'[w] \in {"none", "ok", "failed", "nohook", "undeliverable"},
           wpc'[w] = "idle" <=> batch'[w] = {},
           wpc'[w] \in {"post", "mark", "hook"} => job'[w] \in batch'[w]
    PROVE  WorkType' /\ OtherWorkers(w)
<1>1. OtherWorkers(w)
  BY DEF TypeOK, OtherWorkers
<1>2. /\ wpc' \in [Workers -> {"idle", "next", "post", "mark", "hook"}]
      /\ batch' \in [Workers -> SUBSET Ids] /\ num' \in [Workers -> [Ids -> Nat]]
      /\ job' \in [Workers -> Ids \cup {NoDelivery}]
      /\ out' \in [Workers -> {"none", "ok", "failed", "nohook", "undeliverable"}]
  BY DEF TypeOK
<1>3. \A v \in Workers :
        /\ (wpc'[v] = "idle") = (batch'[v] = {})
        /\ wpc'[v] \in {"post", "mark", "hook"} => job'[v] \in batch'[v]
  BY <1>1 DEF TypeOK, OtherWorkers
<1> QED
  BY <1>1, <1>2, <1>3 DEF WorkType

\* processDelivery returns.
LEMMA DoneEffect ==
    ASSUME TypeOK, NEW w \in Workers, wpc[w] \in {"mark", "hook"}, Done(w)
    PROVE  /\ WorkType' /\ OtherWorkers(w) /\ job[w] \in batch[w]
           /\ wpc'[w] \in {"idle", "next"} /\ batch'[w] = batch[w] \ {job[w]}
           /\ \A d \in Ids : d # job[w] => num'[w][d] = num[w][d]
           /\ job'[w] = NoDelivery /\ out'[w] = "none"
<1>1. job[w] \in batch[w] /\ job[w] \in Ids /\ batch[w] \in SUBSET Ids
  BY DEF TypeOK
<1>2. /\ num'[w] \in [Ids -> Nat] /\ \A d \in Ids : d # job[w] => num'[w][d] = num[w][d]
      /\ num' = [num EXCEPT ![w] = num'[w]]
  BY <1>1 DEF Done, Forget, TypeOK
<1>3. /\ batch' = [batch EXCEPT ![w] = batch'[w]] /\ batch'[w] = batch[w] \ {job[w]}
      /\ wpc' = [wpc EXCEPT ![w] = wpc'[w]]
      /\ wpc'[w] = IF batch[w] = {job[w]} THEN "idle" ELSE "next"
      /\ job' = [job EXCEPT ![w] = job'[w]] /\ job'[w] = NoDelivery
      /\ out' = [out EXCEPT ![w] = out'[w]] /\ out'[w] = "none"
  BY DEF Done, Forget, TypeOK
<1>4. wpc'[w] = "idle" <=> batch'[w] = {}
  BY <1>1, <1>3
<1> QED
  BY <1>1, <1>2, <1>3, <1>4, OwnWorkType

\* A step of the worker with its batch, which it keeps.
LEMMA StepEffect ==
    ASSUME TypeOK, NEW w \in Workers, NEW d \in batch[w],
           NEW pc \in {"post", "mark", "hook"}, wpc' = [wpc EXCEPT ![w] = pc],
           UNCHANGED <<batch, num>>, job' = [job EXCEPT ![w] = d],
           NEW o \in {"none", "ok", "failed", "nohook", "undeliverable"},
           out' = [out EXCEPT ![w] = o]
    PROVE  /\ WorkType' /\ OtherWorkers(w)
           /\ wpc'[w] = pc /\ batch'[w] = batch[w] /\ num'[w] = num[w]
           /\ job'[w] = d /\ out'[w] = o
<1>1. d \in Ids /\ batch[w] \in SUBSET Ids /\ num[w] \in [Ids -> Nat]
  BY DEF TypeOK
<1>2. /\ wpc'[w] = pc /\ job'[w] = d /\ out'[w] = o
      /\ wpc' = [wpc EXCEPT ![w] = wpc'[w]] /\ job' = [job EXCEPT ![w] = job'[w]]
      /\ out' = [out EXCEPT ![w] = out'[w]] /\ batch' = [batch EXCEPT ![w] = batch'[w]]
      /\ num' = [num EXCEPT ![w] = num'[w]]
  BY DEF TypeOK
<1>3. batch'[w] = batch[w] /\ num'[w] = num[w] /\ pc # "idle" /\ batch[w] # {}
  OBVIOUS
<1> QED
  BY <1>1, <1>2, <1>3, OwnWorkType

LEMMA CrashEffect ==
    ASSUME TypeOK, NEW w \in Workers, WorkerCrash(w)
    PROVE  /\ WorkType' /\ OtherWorkers(w) /\ wpc'[w] = "idle" /\ batch'[w] = {}
           /\ job'[w] = NoDelivery /\ out'[w] = "none"
<1>1. /\ wpc' = [wpc EXCEPT ![w] = wpc'[w]] /\ wpc'[w] = "idle"
      /\ batch' = [batch EXCEPT ![w] = batch'[w]] /\ batch'[w] = {}
      /\ job' = [job EXCEPT ![w] = job'[w]] /\ job'[w] = NoDelivery
      /\ out' = [out EXCEPT ![w] = out'[w]] /\ out'[w] = "none"
      /\ num' = [num EXCEPT ![w] = num'[w]] /\ num'[w] = [d \in Ids |-> 0]
  BY DEF WorkerCrash, TypeOK
<1>2. num'[w] \in [Ids -> Nat]
  BY <1>1
<1> QED
  BY <1>1, <1>2, OwnWorkType

\* A claim whose answer arrives gives the worker its batch.
LEMMA BatchEffect ==
    ASSUME TypeOK, NEW w \in Workers, NEW S \in SUBSET Ids, S # {},
           \A d \in S : delivs[d] \in Delivery, UNCHANGED <<job, out>>,
           wpc' = [wpc EXCEPT ![w] = "next"], batch' = [batch EXCEPT ![w] = S],
           num' = [num EXCEPT ![w] =
                     [d \in Ids |-> IF d \in S THEN delivs[d].attempts + 1 ELSE 0]]
    PROVE  /\ WorkType' /\ OtherWorkers(w) /\ wpc'[w] = "next" /\ batch'[w] = S
           /\ \A d \in S : num'[w][d] = delivs[d].attempts + 1
<1>1. /\ wpc' = [wpc EXCEPT ![w] = wpc'[w]] /\ wpc'[w] = "next"
      /\ batch' = [batch EXCEPT ![w] = batch'[w]] /\ batch'[w] = S
      /\ job' = [job EXCEPT ![w] = job'[w]] /\ job'[w] = job[w]
      /\ out' = [out EXCEPT ![w] = out'[w]] /\ out'[w] = out[w]
      /\ num' = [num EXCEPT ![w] = num'[w]]
      /\ num'[w] = [d \in Ids |-> IF d \in S THEN delivs[d].attempts + 1 ELSE 0]
  BY DEF TypeOK
<1>2. \A d \in S : delivs[d].attempts + 1 \in Nat
  BY DEF Delivery
<1>3. num'[w] \in [Ids -> Nat] /\ \A d \in S : num'[w][d] = delivs[d].attempts + 1
  BY <1>1, <1>2
<1>4. job[w] \in Ids \cup {NoDelivery}
      /\ out[w] \in {"none", "ok", "failed", "nohook", "undeliverable"}
  BY DEF TypeOK
<1> QED
  BY <1>1, <1>3, <1>4, OwnWorkType

\* What each of the worker's steps does to its own locals.
LEMMA LoadEffect ==
    ASSUME TypeOK, NEW w \in Workers, NEW d \in Ids, LoadHook(w, d)
    PROVE  /\ WorkType' /\ OtherWorkers(w) /\ d \in batch[w]
           /\ batch'[w] = batch[w] /\ num'[w] = num[w] /\ job'[w] = d
           /\ \/ wpc'[w] = "post"
              \/ /\ wpc'[w] = "mark" /\ out'[w] = "undeliverable"
                 /\ hooks[d[2]].status # "active"
              \/ wpc'[w] = "mark" /\ out'[w] = "nohook"
<1>1. d \in batch[w]
  BY DEF LoadHook
<1>2. CASE Record(w, d, "undeliverable") /\ hooks[d[2]].status # "active"
  BY <1>1, <1>2, StepEffect DEF Record
<1>3. CASE Record(w, d, "nohook")
  BY <1>1, <1>3, StepEffect DEF Record
<1>4. CASE /\ wpc' = [wpc EXCEPT ![w] = "post"] /\ job' = [job EXCEPT ![w] = d]
           /\ UNCHANGED <<batch, num, out>>
  <2>1. out' = [out EXCEPT ![w] = out[w]]
        /\ out[w] \in {"none", "ok", "failed", "nohook", "undeliverable"}
    BY <1>4 DEF TypeOK
  <2> QED
    BY <1>1, <1>4, <2>1, StepEffect
<1> QED
  BY <1>1, <1>2, <1>3, <1>4 DEF LoadHook

LEMMA PostEffect ==
    ASSUME TypeOK, NEW w \in Workers, NEW code, Post(w, code)
    PROVE  LET d == job[w] IN
           /\ WorkType' /\ OtherWorkers(w) /\ d \in batch[w] /\ d \in Ids
           /\ wpc'[w] = "mark" /\ batch'[w] = batch[w] /\ num'[w] = num[w]
           /\ job'[w] = d /\ out'[w] = IF IsSuccess(code) THEN "ok" ELSE "failed"
           /\ posts' \in [Ids -> Nat] /\ posts'[d] = posts[d] + 1
           /\ \A x \in Ids : x # d => posts'[x] = posts[x]
<1> DEFINE d == job[w]
           o == IF IsSuccess(code) THEN "ok" ELSE "failed"
<1>1. d \in batch[w] /\ d \in Ids /\ wpc[w] = "post"
  BY DEF Post, TypeOK
<1>2. o \in {"none", "ok", "failed", "nohook", "undeliverable"} /\ Record(w, d, o)
  BY DEF Post
<1>3. /\ posts' \in [Ids -> Nat] /\ posts'[d] = posts[d] + 1
      /\ \A x \in Ids : x # d => posts'[x] = posts[x]
  BY <1>1 DEF Post, TypeOK
<1> HIDE DEF o
<1>4. /\ WorkType' /\ OtherWorkers(w) /\ wpc'[w] = "mark" /\ batch'[w] = batch[w]
      /\ num'[w] = num[w] /\ job'[w] = d /\ out'[w] = o
  BY <1>1, <1>2, StepEffect DEF Record
<1> QED
  BY <1>1, <1>3, <1>4 DEF o

\* Mark goes on to the webhook, or the delivery is done.
LEMMA MarkMoves ==
    ASSUME TypeOK, NEW w \in Workers, Mark(w)
    PROVE  /\ WorkType' /\ OtherWorkers(w)
           /\ \/ /\ wpc'[w] = "hook" /\ batch'[w] = batch[w] /\ num'[w] = num[w]
                 /\ job'[w] = job[w] /\ out'[w] = out[w]
                 /\ out[w] = "ok" \/ (out[w] = "failed" /\ ~Retries(w))
              \/ /\ wpc'[w] \in {"idle", "next"} /\ batch'[w] = batch[w] \ {job[w]}
                 /\ \A d \in Ids : d # job[w] => num'[w][d] = num[w][d]
                 /\ job'[w] = NoDelivery /\ out'[w] = "none"
<1>1. CASE Done(w)
  BY <1>1, DoneEffect DEF Mark
<1>2. CASE /\ wpc' = [wpc EXCEPT ![w] = "hook"] /\ UNCHANGED <<batch, num, job, out>>
           /\ out[w] = "ok" \/ (out[w] = "failed" /\ ~Retries(w))
  <2>1. /\ job[w] \in batch[w] /\ job' = [job EXCEPT ![w] = job[w]]
        /\ out' = [out EXCEPT ![w] = out[w]]
        /\ out[w] \in {"none", "ok", "failed", "nohook", "undeliverable"}
    BY <1>2 DEF Mark, TypeOK
  <2> QED
    BY <1>2, <2>1, StepEffect
<1> QED
  BY <1>1, <1>2 DEF Mark

\* A webhook that is not deleted may get a new status.
LEMMA MarkHookEffect ==
    ASSUME TypeOK, NEW w \in Workers, MarkHook(w)
    PROVE  LET h == job[w][2] IN
           /\ h \in Hooks /\ job[w] \in batch[w] /\ job[w] \in Ids
           /\ hooks' \in [Hooks -> Hook] /\ failed' \subseteq Hooks /\ failed \subseteq failed'
           /\ \A x \in Hooks : x # h => hooks'[x] = hooks[x]
           /\ \/ hooks' = hooks
              \/ hooks[h].status # "deleted" /\ hooks'[h].status = "active"
              \/ /\ hooks[h].status # "deleted" /\ hooks'[h].status = "failing"
                 /\ h \in failed'
<1> DEFINE h == job[w][2]
           s == IF out[w] = "ok" THEN "active" ELSE "failing"
           r == [hooks[h] EXCEPT !.status = s]
<1>1. h \in Hooks /\ job[w] \in batch[w] /\ job[w] \in Ids
  BY DEF MarkHook, TypeOK, Ids
<1>2. CASE UNCHANGED <<hooks, failed>>
  BY <1>1, <1>2 DEF TypeOK
<1>3. CASE /\ hooks[h].status # "deleted" /\ hooks' = [hooks EXCEPT ![h].status = s]
           /\ failed' = IF s = "failing" THEN failed \cup {h} ELSE failed
  <2>1. hooks[h] \in Hook /\ s \in {"active", "failing"}
    BY <1>1 DEF TypeOK
  <2>2. hooks' = [hooks EXCEPT ![h] = r]
    BY <1>3
  <2> HIDE DEF s
  <2>3. r \in Hook /\ r.status = s
    BY <2>1, HookEdit
  <2> HIDE DEF r
  <2>4. hooks' \in [Hooks -> Hook] /\ hooks'[h] = r
        /\ \A x \in Hooks : x # h => hooks'[x] = hooks[x]
    BY <1>1, <2>2, <2>3 DEF TypeOK
  <2>5. failed' \subseteq Hooks /\ failed \subseteq failed' /\ (s = "failing" => h \in failed')
    BY <1>1, <1>3 DEF TypeOK
  <2> QED
    BY <1>1, <1>3, <2>1, <2>3, <2>4, <2>5
<1> QED
  BY <1>1, <1>2, <1>3 DEF MarkHook

LEMMA NextType == TypeOK /\ [Next]_vars => TypeOK'
<1> SUFFICES ASSUME TypeOK, [Next]_vars PROVE TypeOK'
  OBVIOUS
<1>0. slips \in 0 .. MaxSlips /\ RowType /\ HookType /\ DispatchType
  BY TypeParts
<1>1. ASSUME NEW g \in Registrars, RegisterCheck(g) \/ RegisterError(g) PROVE TypeOK'
  <2>1. HookType'
    BY <1>0, <1>1 DEF RegisterCheck, RegisterError, HookType, Live
  <2>2. slips' \in 0 .. MaxSlips
    BY <1>1, SlipType DEF RegisterCheck, RegisterError
  <2> QED
    BY <1>0, <1>1, <2>1, <2>2, SameDispatchType, SameWorkType, TypePartsNext
    DEF RegisterCheck, RegisterError, RowType, rowVars
<1>2. ASSUME NEW g \in Registrars, NEW es \in SUBSET EventTypes, RegisterCreate(g, es)
      PROVE  TypeOK'
  <2>1. HookType'
    BY <1>0, <1>2, RegisterEffect DEF RegisterCreate, HookType
  <2> QED
    BY <1>0, <1>2, <2>1, SameDispatchType, SameWorkType, TypePartsNext
    DEF RegisterCreate, RowType, rowVars
<1>3. ASSUME NEW h \in Hooks, DeleteHook(h) PROVE TypeOK'
  BY <1>0, <1>3, CascadeEffect, SameDispatchType, SameWorkType, TypePartsNext
  DEF DeleteHook, HookType, RowType
<1>4. ASSUME NEW h \in Hooks, ReplicateHook(h) PROVE TypeOK'
  BY <1>0, <1>4, SameDispatchType, SameWorkType, TypePartsNext
  DEF ReplicateHook, HookType, RowType, rowVars
<1>5. ASSUME NEW e \in Events, NEW t \in EventTypes, Dispatch(e, t) PROVE TypeOK'
  <2>1. Subscribed(t) \in SUBSET Hooks
    BY DEF Subscribed
  <2>2. DispatchType'
    BY <1>0, <1>5, <2>1 DEF Dispatch, DispatchType
  <2>3. slips' \in 0 .. MaxSlips
    BY <1>5, SlipType DEF Dispatch
  <2> QED
    BY <1>0, <1>5, <2>2, <2>3, SameHookType, SameWorkType, TypePartsNext
    DEF Dispatch, RowType, rowVars
<1>6. ASSUME NEW e \in Events, NEW h \in Hooks, CreateDelivery(e, h) \/ CreateError(e, h)
      PROVE  TypeOK'
  <2>1. DispatchType'
    BY <1>0, <1>6 DEF CreateDelivery, CreateError, DispatchType
  <2>2. slips' \in 0 .. MaxSlips
    BY <1>6, SlipType DEF CreateDelivery, CreateError
  <2> QED
    BY <1>0, <1>6, <2>1, <2>2, InsertEffect, SameHookType, SameWorkType, TypePartsNext
    DEF CreateDelivery, CreateError, RowType
<1>7. ASSUME NEW w \in Workers, ClaimPending(w) PROVE TypeOK'
  <2>1. PICK S \in SUBSET {d \in Ids : Eligible(d)} :
             /\ S # {} /\ delivs' \in [Ids -> Row] /\ reclaims' \in [Ids -> Nat]
             /\ \A d \in S : delivs[d] \in Delivery
             /\ \/ /\ wpc' = [wpc EXCEPT ![w] = "next"]
                   /\ batch' = [batch EXCEPT ![w] = S]
                   /\ num' = [num EXCEPT ![w] =
                                [d \in Ids |-> IF d \in S THEN delivs[d].attempts + 1 ELSE 0]]
                   /\ UNCHANGED slips
                \/ Slip /\ UNCHANGED <<wpc, batch, num>>
    BY <1>7, ClaimEffect
  <2>2. slips' \in 0 .. MaxSlips /\ S \in SUBSET Ids
    BY <2>1, SlipType
  <2>3. UNCHANGED <<job, out, hookVars, dispVars, accepted, posts>>
    BY <1>7 DEF ClaimPending
  <2>4. WorkType'
    <3>1. CASE UNCHANGED <<wpc, batch, num>>
      BY <2>3, <3>1, SameWorkType DEF workVars
    <3> QED
      BY <2>1, <2>2, <2>3, <3>1, BatchEffect
  <2> QED
    BY <1>0, <2>1, <2>2, <2>3, <2>4, SameHookType, SameDispatchType, TypePartsNext DEF RowType
<1>8. ASSUME NEW w \in Workers, NEW d \in Ids, LoadHook(w, d) PROVE TypeOK'
  <2>1. slips' \in 0 .. MaxSlips
    BY <1>8, SlipType DEF LoadHook
  <2> QED
    BY <1>0, <1>8, <2>1, LoadEffect, SameHookType, SameDispatchType, TypePartsNext
    DEF LoadHook, RowType, rowVars
<1>9. ASSUME NEW w \in Workers, NEW code \in {"2xx", "other", "error"}, Post(w, code)
      PROVE  TypeOK'
  <2>1. accepted' \subseteq Ids
    BY <1>9, PostEffect DEF Post, TypeOK
  <2> QED
    BY <1>0, <1>9, <2>1, PostEffect, SameHookType, SameDispatchType, TypePartsNext
    DEF Post, RowType, rowVars
<1>10. ASSUME NEW w \in Workers, Mark(w) PROVE TypeOK'
  <2>1. slips' \in 0 .. MaxSlips
    BY <1>10, SlipType DEF Mark
  <2> QED
    BY <1>0, <1>10, <2>1, MarkEffect, MarkMoves, SameHookType, SameDispatchType, TypePartsNext
    DEF Mark, RowType
<1>11. ASSUME NEW w \in Workers, MarkHook(w) PROVE TypeOK'
  <2>1. slips' \in 0 .. MaxSlips
    BY <1>11, SlipType DEF MarkHook
  <2>2. HookType'
    BY <1>0, <1>11, MarkHookEffect DEF MarkHook, HookType
  <2> QED
    BY <1>0, <1>11, <2>1, <2>2, DoneEffect, SameDispatchType, TypePartsNext
    DEF MarkHook, RowType, rowVars
<1>12. ASSUME NEW w \in Workers, WorkerCrash(w) PROVE TypeOK'
  BY <1>0, <1>12, CrashEffect, SlipType, SameHookType, SameDispatchType, TypePartsNext
  DEF WorkerCrash, RowType, rowVars
<1>13. ASSUME NEW d \in Ids, FallDue(d) \/ GoStale(d) PROVE TypeOK'
  <2>1. slips' \in 0 .. MaxSlips
    BY <1>13, SlipType DEF FallDue, GoStale
  <2> QED
    BY <1>0, <1>13, <2>1, TimeEffect, SameHookType, SameDispatchType, SameWorkType,
       TypePartsNext
    DEF FallDue, GoStale, RowType
<1>14. CASE UNCHANGED vars
  BY <1>0, <1>14, SameHookType, SameDispatchType, SameWorkType, TypePartsNext
  DEF vars, RowType, rowVars
<1> QED
  BY <1>1, <1>2, <1>3, <1>4, <1>5, <1>6, <1>7, <1>8, <1>9, <1>10, <1>11, <1>12, <1>13,
     <1>14 DEF Next, WorkerStep

-----------------------------------------------------------------------------
(* Hooks and dispatches                                                    *)

\* Which rows and batches a step of a worker or of time can add.
LEMMA RowsAndBatches ==
    ASSUME TypeOK,
           \/ \E w \in Workers : \/ ClaimPending(w) \/ Mark(w) \/ MarkHook(w) \/ WorkerCrash(w)
                                 \/ \E d \in Ids : LoadHook(w, d)
                                 \/ \E code \in {"2xx", "other", "error"} : Post(w, code)
           \/ \E d \in Ids : FallDue(d) \/ GoStale(d)
    PROVE  /\ \A d \in Ids : Exists(d)' <=> Exists(d)
           /\ \A w \in Workers, d \in Ids : d \in batch'[w] => d \in batch[w] \/ Exists(d)
           /\ UNCHANGED <<rhooks, reg, unseen, dispVars>>
<1>1. ASSUME NEW w \in Workers, ClaimPending(w)
      PROVE  /\ \A d \in Ids : Exists(d)' <=> Exists(d)
             /\ \A v \in Workers, d \in Ids : d \in batch'[v] => d \in batch[v] \/ Exists(d)
  <2>1. PICK S \in SUBSET {d \in Ids : Eligible(d)} :
             /\ \A d \in S : delivs'[d] = Claimed(delivs[d]) /\ delivs[d] \in Delivery
             /\ \A d \in Ids \ S : delivs'[d] = delivs[d]
             /\ batch' = [batch EXCEPT ![w] = S] \/ UNCHANGED batch
    BY <1>1, ClaimEffect
  <2>2. \A d \in S : Exists(d) /\ Exists(d)'
    BY <2>1, ClaimedEdit DEF Exists
  <2>3. \A v \in Workers : batch'[v] \in {batch[v], S}
    BY <2>1 DEF TypeOK
  <2> QED
    BY <2>1, <2>2, <2>3 DEF Exists
<1>2. ASSUME NEW w \in Workers, Mark(w)
      PROVE  /\ \A d \in Ids : Exists(d)' <=> Exists(d)
             /\ \A v \in Workers : batch'[v] \subseteq batch[v]
  BY <1>2, MarkEffect, MarkMoves, SettledEdit DEF Exists, OtherWorkers
<1>3. ASSUME NEW w \in Workers, MarkHook(w)
      PROVE  delivs' = delivs /\ \A v \in Workers : batch'[v] \subseteq batch[v]
  BY <1>3, DoneEffect DEF MarkHook, OtherWorkers, rowVars
<1>4. ASSUME NEW w \in Workers, WorkerCrash(w)
      PROVE  delivs' = delivs /\ \A v \in Workers : batch'[v] \subseteq batch[v]
  BY <1>4, CrashEffect DEF WorkerCrash, OtherWorkers, rowVars
<1>5. ASSUME NEW w \in Workers, NEW d \in Ids, LoadHook(w, d)
      PROVE  delivs' = delivs /\ \A v \in Workers : batch'[v] = batch[v]
  BY <1>5, LoadEffect DEF LoadHook, OtherWorkers, rowVars
<1>6. ASSUME NEW w \in Workers, NEW code \in {"2xx", "other", "error"}, Post(w, code)
      PROVE  delivs' = delivs /\ \A v \in Workers : batch'[v] = batch[v]
  BY <1>6, PostEffect DEF Post, OtherWorkers, rowVars
<1>7. ASSUME NEW d \in Ids, FallDue(d) \/ GoStale(d)
      PROVE  (\A x \in Ids : Exists(x)' <=> Exists(x)) /\ UNCHANGED batch
  BY <1>7, TimeEffect DEF FallDue, GoStale, workVars, Exists
<1>8. UNCHANGED <<rhooks, reg, unseen, dispVars>>
  BY DEF ClaimPending, Mark, MarkHook, WorkerCrash, LoadHook, Post, FallDue, GoStale, hookVars
<1>9. /\ \A d \in Ids : Exists(d)' <=> Exists(d)
      /\ \A w \in Workers, d \in Ids : d \in batch'[w] => d \in batch[w] \/ Exists(d)
  BY <1>1, <1>2, <1>3, <1>4, <1>5, <1>6, <1>7 DEF Exists
<1> QED
  BY <1>8, <1>9

\* What can happen to a hook's status.
HooksAge ==
    /\ \A h \in Hooks : /\ hooks[h].status # "none" => hooks'[h].status # "none"
                        /\ hooks[h].status = "deleted" => hooks'[h].status = "deleted"
                        /\ hooks'[h].status = "failing" => h \in failed'
    /\ failed \subseteq failed'

LEMMA HookMoves ==
    ASSUME TypeOK, HooksSound, [Next]_vars
    PROVE  HooksAge
<1> USE DEF hookVars, HooksAge
<1>1. \A h \in Hooks : hooks[h].status = "failing" => h \in failed
  BY DEF HooksSound
<1>2. CASE UNCHANGED <<hooks, failed>>
  BY <1>1, <1>2
<1>3. ASSUME NEW g \in Registrars, NEW es \in SUBSET EventTypes, RegisterCreate(g, es)
      PROVE  HooksAge
  <2>1. PICK h \in Hooks : /\ hooks[h].status = "none" /\ hooks'[h].status = "active"
                           /\ \A x \in Hooks : x # h => hooks'[x] = hooks[x]
    BY <1>3, RegisterEffect
  <2> QED
    BY <1>1, <1>3, <2>1 DEF RegisterCreate
<1>4. ASSUME NEW h \in Hooks, DeleteHook(h) PROVE HooksAge
  BY <1>1, <1>4, CascadeEffect DEF DeleteHook
<1>5. ASSUME NEW w \in Workers, MarkHook(w) PROVE HooksAge
  BY <1>1, <1>5, MarkHookEffect
<1> QED
  BY <1>2, <1>3, <1>4, <1>5
  DEF Next, WorkerStep, RegisterCheck, RegisterError, ReplicateHook, Dispatch, CreateDelivery,
      CreateError, ClaimPending, LoadHook, Post, Mark, WorkerCrash, FallDue, GoStale, vars

\* The steps of the workers and of time, which RowsAndBatches describes.
WorkerOrTime ==
    \/ \E w \in Workers : \/ ClaimPending(w) \/ Mark(w) \/ MarkHook(w) \/ WorkerCrash(w)
                          \/ \E d \in Ids : LoadHook(w, d)
                          \/ \E code \in {"2xx", "other", "error"} : Post(w, code)
    \/ \E d \in Ids : FallDue(d) \/ GoStale(d)

\* A step deletes a hook only with its deliveries.
LEMMA LiveRows ==
    ASSUME TypeOK, HooksSound, [Next]_vars, NEW d \in Ids, Exists(d)'
    PROVE  \/ Exists(d) /\ hooks'[d[2]].status \notin {"none", "deleted"}
           \/ /\ CreateDelivery(d[1], d[2]) \/ CreateError(d[1], d[2])
              /\ hooks' = hooks /\ hooks[d[2]].status # "deleted" /\ d[2] \in todo[d[1]]
<1> USE DEF hookVars, rowVars
<1>0. d[1] \in Events /\ d[2] \in Hooks /\ d = <<d[1], d[2]>>
  BY DEF Ids
<1>1. Exists(d) => hooks[d[2]].status \notin {"none", "deleted"}
  BY DEF HooksSound
<1>2. CASE UNCHANGED <<hooks, delivs>>
  BY <1>1, <1>2 DEF Exists
<1>3. ASSUME NEW g \in Registrars, NEW es \in SUBSET EventTypes, RegisterCreate(g, es)
      PROVE  Exists(d) /\ hooks'[d[2]].status \notin {"none", "deleted"}
  <2>1. delivs' = delivs
    BY <1>3 DEF RegisterCreate
  <2>2. PICK h \in Hooks : /\ hooks[h].status = "none" /\ hooks'[h].status = "active"
                           /\ \A x \in Hooks : x # h => hooks'[x] = hooks[x]
    BY <1>3, RegisterEffect
  <2> QED
    BY <1>0, <1>1, <2>1, <2>2 DEF Exists
<1>4. ASSUME NEW h \in Hooks, DeleteHook(h)
      PROVE  Exists(d) /\ hooks'[d[2]].status \notin {"none", "deleted"}
  BY <1>0, <1>1, <1>4, CascadeEffect DEF Exists
<1>5. ASSUME NEW w \in Workers, MarkHook(w)
      PROVE  Exists(d) /\ hooks'[d[2]].status \notin {"none", "deleted"}
  <2>1. delivs' = delivs
    BY <1>5 DEF MarkHook
  <2> QED
    BY <1>0, <1>1, <1>5, <2>1, MarkHookEffect DEF Exists
<1>6. ASSUME NEW e \in Events, NEW h \in Hooks, CreateDelivery(e, h) \/ CreateError(e, h)
      PROVE  \/ Exists(d) /\ hooks'[d[2]].status \notin {"none", "deleted"}
             \/ /\ CreateDelivery(d[1], d[2]) \/ CreateError(d[1], d[2])
                /\ hooks' = hooks /\ hooks[d[2]].status # "deleted" /\ d[2] \in todo[d[1]]
  <2>1. hooks' = hooks /\ h \in todo[e]
    BY <1>6 DEF CreateDelivery, CreateError
  <2>2. CASE d = <<e, h>>
    <3>1. d[1] = e /\ d[2] = h
      BY <2>2
    <3>2. \/ delivs'[d] = delivs[d]
          \/ hooks[h].status # "deleted"
      BY <1>6, <2>2, InsertEffect
    <3>3. CASE delivs'[d] = delivs[d]
      BY <1>1, <2>1, <3>3 DEF Exists
    <3>4. CASE hooks[h].status # "deleted"
      BY <1>6, <2>1, <3>1, <3>4
    <3> QED
      BY <3>2, <3>3, <3>4
  <2>3. CASE d # <<e, h>>
    <3>1. delivs'[d] = delivs[d]
      BY <1>6, <2>3, InsertEffect
    <3> QED
      BY <1>1, <2>1, <3>1 DEF Exists
  <2> QED
    BY <2>2, <2>3
<1>7. CASE WorkerOrTime /\ hooks' = hooks
  BY <1>1, <1>7, RowsAndBatches DEF WorkerOrTime
<1> QED
  BY <1>2, <1>3, <1>4, <1>5, <1>6, <1>7
  DEF Next, WorkerStep, RegisterCheck, RegisterError, ReplicateHook, Dispatch,
      ClaimPending, LoadHook, Post, Mark, WorkerCrash, FallDue, GoStale, vars, WorkerOrTime

LEMMA NextHooks ==
    TypeOK /\ HooksSound /\ DispatchSound /\ [Next]_vars => HooksSound'
<1> SUFFICES ASSUME TypeOK, HooksSound, DispatchSound, [Next]_vars PROVE HooksSound'
  OBVIOUS
<1> USE DEF hookVars, dispVars, workVars
<1>0. HooksAge
  BY HookMoves
<1>1. \A h \in Hooks : rhooks'[h].status # "none" => hooks'[h].status # "none"
  <2>1. \A h \in Hooks : rhooks[h].status # "none" => hooks[h].status # "none"
    BY DEF HooksSound
  <2>2. CASE rhooks' = rhooks
    BY <1>0, <2>1, <2>2 DEF HooksAge
  <2>3. ASSUME NEW h \in Hooks, ReplicateHook(h)
        PROVE  \A x \in Hooks : rhooks'[x].status # "none" => hooks'[x].status # "none"
    BY <2>1, <2>3 DEF ReplicateHook, TypeOK
  <2> QED
    BY <2>2, <2>3
    DEF Next, WorkerStep, RegisterCheck, RegisterCreate, RegisterError, DeleteHook, Dispatch,
        CreateDelivery, CreateError, ClaimPending, LoadHook, Post, Mark, MarkHook,
        WorkerCrash, FallDue, GoStale, vars
<1>2. \A e \in Events : \A h \in aimed'[e] : hooks'[h].status # "none"
  <2>1. \A e \in Events : \A h \in aimed[e] : hooks[h].status # "none" /\ h \in Hooks
    BY DEF HooksSound, TypeOK
  <2>2. CASE aimed' = aimed
    BY <1>0, <2>1, <2>2 DEF HooksAge
  <2>3. ASSUME NEW e \in Events, NEW t \in EventTypes, Dispatch(e, t)
        PROVE  \A x \in Events : \A h \in aimed'[x] : hooks'[h].status # "none"
    <3>1. \A h \in Subscribed(t) : h \in Hooks /\ hooks[h].status # "none"
      BY DEF Subscribed, ReadPool, HooksSound
    <3>2. \A x \in Events : aimed'[x] \in {aimed[x], Subscribed(t)}
      BY <2>3 DEF Dispatch, TypeOK
    <3>3. hooks' = hooks
      BY <2>3 DEF Dispatch
    <3> QED
      BY <2>1, <3>1, <3>2, <3>3
  <2> QED
    BY <2>2, <2>3
    DEF Next, WorkerStep, RegisterCheck, RegisterCreate, RegisterError, DeleteHook,
        ReplicateHook, CreateDelivery, CreateError, ClaimPending, LoadHook, Post, Mark,
        MarkHook, WorkerCrash, FallDue, GoStale, vars
<1>3. \A d \in Ids : Exists(d)' => hooks'[d[2]].status \notin {"none", "deleted"}
  <2> SUFFICES ASSUME NEW d \in Ids, Exists(d)'
               PROVE  hooks'[d[2]].status \notin {"none", "deleted"}
    OBVIOUS
  <2>1. d[1] \in Events /\ d[2] \in Hooks
    BY DEF Ids
  <2>2. d[2] \in todo[d[1]] => hooks[d[2]].status # "none"
    BY <2>1 DEF DispatchSound, HooksSound
  <2> QED
    BY <2>2, LiveRows
<1>4. \A w \in Workers : \A d \in batch'[w] : hooks'[d[2]].status # "none"
  <2>1. \A d \in Ids : d[2] \in Hooks
    BY DEF Ids
  <2>2. \A w \in Workers, d \in Ids : d \in batch'[w] => d \in batch[w] \/ Exists(d)
    <3>1. CASE WorkerOrTime
      BY <3>1, RowsAndBatches DEF WorkerOrTime
    <3>2. CASE batch' = batch
      BY <3>2
    <3> QED
      BY <3>1, <3>2
      DEF Next, WorkerStep, WorkerOrTime, RegisterCheck, RegisterCreate, RegisterError,
          DeleteHook, ReplicateHook, Dispatch, CreateDelivery, CreateError, vars
  <2>3. \A w \in Workers : batch'[w] \in SUBSET Ids
    BY NextType DEF TypeOK
  <2> QED
    BY <1>0, <2>1, <2>2, <2>3 DEF HooksSound, HooksAge
<1>5. \A h \in Hooks : hooks'[h].status = "failing" => h \in failed'
  BY <1>0 DEF HooksAge
<1> QED
  BY <1>1, <1>2, <1>3, <1>4, <1>5 DEF HooksSound

\* Nothing happens to a delivery before its INSERT.
LEMMA UnwrittenStays ==
    ASSUME TypeOK, HooksSound, DispatchSound, [Next]_vars, NEW d \in Ids, Unwritten(d)'
    PROVE  /\ Unwritten(d) /\ ~Exists(d)' /\ posts'[d] = 0 /\ reclaims'[d] = 0
           /\ \A w \in Workers : d \notin batch'[w]
<1> USE DEF hookVars, dispVars, workVars, rowVars
<1>0. d[1] \in Events /\ d[2] \in Hooks /\ d = <<d[1], d[2]>>
  BY DEF Ids
<1>1. Unwritten(d)
  <2>1. CASE UNCHANGED <<fresh, todo>>
    BY <2>1 DEF Unwritten
  <2>2. ASSUME NEW e \in Events, NEW t \in EventTypes, Dispatch(e, t) PROVE Unwritten(d)
    BY <1>0, <2>2 DEF Dispatch, Unwritten, TypeOK
  <2>3. ASSUME NEW e \in Events, NEW h \in Hooks, CreateDelivery(e, h) \/ CreateError(e, h)
        PROVE  Unwritten(d)
    <3>1. fresh' = fresh /\ \A x \in Events : todo'[x] \subseteq todo[x]
      <4>1. CASE CreateDelivery(e, h)
        BY <4>1 DEF CreateDelivery, TypeOK
      <4>2. CASE CreateError(e, h)
        BY <4>2 DEF CreateError, TypeOK
      <4> QED
        BY <2>3, <4>1, <4>2
    <3> QED
      BY <1>0, <3>1 DEF Unwritten
  <2> QED
    BY <2>1, <2>2, <2>3
    DEF Next, WorkerStep, RegisterCheck, RegisterCreate, RegisterError, DeleteHook,
        ReplicateHook, ClaimPending, LoadHook, Post, Mark, MarkHook, WorkerCrash, FallDue,
        GoStale, vars
<1>2. /\ ~Exists(d) /\ posts[d] = 0 /\ reclaims[d] = 0
      /\ \A w \in Workers : d \notin batch[w]
  BY <1>1 DEF DispatchSound
<1>3. ~Exists(d)'
  <2>1. ASSUME CreateDelivery(d[1], d[2]) \/ CreateError(d[1], d[2]) PROVE FALSE
    <3>1. d[2] \in todo[d[1]]
      BY <2>1 DEF CreateDelivery, CreateError
    <3>2. d[1] \notin fresh /\ fresh' = fresh
      BY <1>0, <2>1, <3>1 DEF DispatchSound, CreateDelivery, CreateError
    <3>3. d[2] \notin todo'[d[1]]
      BY <1>0, <2>1 DEF CreateDelivery, CreateError, TypeOK
    <3> QED
      BY <3>2, <3>3 DEF Unwritten
  <2> QED
    BY <1>2, <2>1, LiveRows
<1>4. \A w \in Workers : d \notin batch'[w]
  <2>1. CASE WorkerOrTime
    BY <1>2, <2>1, RowsAndBatches DEF WorkerOrTime
  <2>2. CASE batch' = batch
    BY <1>2, <2>2
  <2> QED
    BY <2>1, <2>2
    DEF Next, WorkerStep, WorkerOrTime, RegisterCheck, RegisterCreate, RegisterError,
        DeleteHook, ReplicateHook, Dispatch, CreateDelivery, CreateError, vars
<1>5. posts'[d] = 0
  <2>1. ASSUME NEW w \in Workers, NEW code \in {"2xx", "other", "error"}, Post(w, code)
        PROVE  posts'[d] = posts[d]
    BY <1>2, <2>1, PostEffect
  <2>2. CASE posts' = posts
    BY <1>2, <2>2
  <2> QED
    BY <1>2, <2>1, <2>2
    DEF Next, WorkerStep, RegisterCheck, RegisterCreate, RegisterError, DeleteHook,
        ReplicateHook, Dispatch, CreateDelivery, CreateError, ClaimPending, LoadHook, Mark,
        MarkHook, WorkerCrash, FallDue, GoStale, vars
<1>6. reclaims'[d] = 0
  <2>1. ASSUME NEW w \in Workers, ClaimPending(w) PROVE reclaims'[d] = reclaims[d]
    <3>1. ~Eligible(d)
      BY <1>2 DEF Eligible
    <3> QED
      BY <2>1, <3>1, ClaimEffect
  <2>2. CASE reclaims' = reclaims
    BY <1>2, <2>2
  <2> QED
    BY <1>2, <2>1, <2>2
    DEF Next, WorkerStep, RegisterCheck, RegisterCreate, RegisterError, DeleteHook,
        ReplicateHook, Dispatch, CreateDelivery, CreateError, LoadHook, Post, Mark,
        MarkHook, WorkerCrash, FallDue, GoStale, vars
<1> QED
  BY <1>1, <1>3, <1>4, <1>5, <1>6

LEMMA NextDispatch ==
    TypeOK /\ HooksSound /\ DispatchSound /\ [Next]_vars => DispatchSound'
<1> SUFFICES ASSUME TypeOK, HooksSound, DispatchSound, [Next]_vars PROVE DispatchSound'
  OBVIOUS
<1>1. /\ \A e \in Events : todo'[e] \subseteq aimed'[e]
      /\ \A e \in fresh' : aimed'[e] = {} /\ e \notin cut'
  <2>1. /\ \A e \in Events : todo[e] \subseteq aimed[e]
        /\ \A e \in fresh : aimed[e] = {} /\ e \notin cut
    BY DEF DispatchSound
  <2>2. CASE UNCHANGED dispVars
    BY <2>1, <2>2 DEF dispVars
  <2>3. ASSUME NEW e \in Events, NEW t \in EventTypes, Dispatch(e, t)
        PROVE  /\ \A x \in Events : todo'[x] \subseteq aimed'[x]
               /\ \A x \in fresh' : aimed'[x] = {} /\ x \notin cut'
    BY <2>1, <2>3 DEF Dispatch, TypeOK
  <2>4. ASSUME NEW e \in Events, NEW h \in Hooks, CreateDelivery(e, h) \/ CreateError(e, h)
        PROVE  /\ \A x \in Events : todo'[x] \subseteq aimed'[x]
               /\ \A x \in fresh' : aimed'[x] = {} /\ x \notin cut'
    <3>1. e \notin fresh
      BY <2>1, <2>4 DEF CreateDelivery, CreateError
    <3>2. /\ fresh' = fresh /\ aimed' = aimed /\ cut' \in {cut, cut \cup {e}}
          /\ \A x \in Events : todo'[x] \subseteq todo[x]
      BY <2>4 DEF CreateDelivery, CreateError, TypeOK
    <3> QED
      BY <2>1, <3>1, <3>2
  <2> QED
    BY <2>2, <2>3, <2>4
    DEF Next, WorkerStep, RegisterCheck, RegisterCreate, RegisterError, DeleteHook,
        ReplicateHook, ClaimPending, LoadHook, Post, Mark, MarkHook, WorkerCrash, FallDue,
        GoStale, vars
<1>2. \A d \in Ids : Unwritten(d)' =>
         /\ ~Exists(d)' /\ posts'[d] = 0 /\ reclaims'[d] = 0
         /\ \A w \in Workers : d \notin batch'[w]
  BY UnwrittenStays
<1> QED
  BY <1>1, <1>2 DEF DispatchSound

\* A dispatch that was cut short keeps its reason.
LEMMA NextCut ==
    TypeOK /\ HooksSound /\ DispatchSound /\ CutIsExplained /\ [Next]_vars => CutIsExplained'
<1> SUFFICES ASSUME TypeOK, HooksSound, DispatchSound, CutIsExplained, [Next]_vars
             PROVE  CutIsExplained'
  OBVIOUS
<1>1. HooksAge
  BY HookMoves
<1>2. slips > 0 => slips' > 0
  <2>1. CASE UNCHANGED slips \/ Slip
    BY <2>1 DEF Slip, TypeOK
  <2> QED
    BY <2>1
    DEF Next, WorkerStep, RegisterCheck, RegisterCreate, RegisterError, DeleteHook,
        ReplicateHook, Dispatch, CreateDelivery, CreateError, ClaimPending, LoadHook, Post,
        Mark, MarkHook, WorkerCrash, FallDue, GoStale, vars
<1>3. \A e \in Events : \A h \in aimed[e] : h \in Hooks
  BY DEF TypeOK
<1>4. \A e \in cut : e \in Events /\ e \notin fresh
  BY DEF TypeOK, DispatchSound
<1>5. CASE UNCHANGED <<aimed, cut>>
  BY <1>1, <1>2, <1>3, <1>4, <1>5 DEF CutIsExplained, HooksAge
<1>6. ASSUME NEW e \in Events, NEW t \in EventTypes, Dispatch(e, t) PROVE CutIsExplained'
  <2>1. cut' = cut /\ \A x \in cut : aimed'[x] = aimed[x]
    BY <1>4, <1>6 DEF Dispatch, TypeOK
  <2> QED
    BY <1>1, <1>2, <1>3, <1>4, <2>1 DEF CutIsExplained, HooksAge
<1>7. ASSUME NEW e \in Events, NEW h \in Hooks, CreateError(e, h) PROVE CutIsExplained'
  <2>1. cut' = cut \cup {e} /\ aimed' = aimed /\ hooks' = hooks /\ h \in aimed[e]
    BY <1>7 DEF CreateError, hookVars, DispatchSound
  <2>2. hooks[h].status = "deleted" \/ slips' > 0
    BY <1>7 DEF CreateError, Slip, TypeOK
  <2> QED
    BY <1>2, <2>1, <2>2 DEF CutIsExplained
<1> QED
  BY <1>5, <1>6, <1>7
  DEF Next, WorkerStep, RegisterCheck, RegisterCreate, RegisterError, DeleteHook,
      ReplicateHook, CreateDelivery, ClaimPending, LoadHook, Post, Mark, MarkHook,
      WorkerCrash, FallDue, GoStale, vars, dispVars

-----------------------------------------------------------------------------
(* What a step does to one delivery                                        *)

\* Its row keeps its status and its attempts, or goes; nobody takes hold of it.
Quiet(d) ==
    /\ posts'[d] = posts[d] /\ reclaims'[d] = reclaims[d]
    /\ Exists(d)' => /\ Exists(d) /\ delivs'[d].status = delivs[d].status
                     /\ delivs'[d].attempts = delivs[d].attempts
                     /\ delivs[d].status = "delivered" => delivs'[d] = delivs[d]
    /\ \A v \in Workers : d \in batch'[v] =>
         /\ d \in batch[v] /\ num'[v][d] = num[v][d]
         /\ Unsettled(v, d)' => Unsettled(v, d)
    /\ Unposted(d)' \subseteq Unposted(d)

\* Its dispatch inserts it.
Inserted(d) ==
    /\ Unwritten(d) /\ delivs'[d] = NewDelivery
    /\ UNCHANGED <<batch, posts, reclaims>>

\* A worker claims it; w has it then unless the answer is lost.
ClaimedBy(w, d) ==
    /\ Eligible(d) /\ delivs[d] \in Delivery /\ delivs'[d] = Claimed(delivs[d])
    /\ posts'[d] = posts[d]
    /\ reclaims'[d] = IF StaleClaim(d) THEN reclaims[d] + 1 ELSE reclaims[d]
    /\ OtherWorkers(w) /\ d \notin batch[w]
    /\ d \in batch'[w] => num'[w][d] = delivs[d].attempts + 1

\* Its worker posts it.
PostedBy(w, d) ==
    /\ wpc[w] = "post" /\ job[w] = d /\ d \in batch[w]
    /\ posts'[d] = posts[d] + 1 /\ reclaims' = reclaims /\ delivs' = delivs
    /\ OtherWorkers(w) /\ wpc'[w] = "mark" /\ job'[w] = d
    /\ batch'[w] = batch[w] /\ num'[w] = num[w]

\* Its worker writes the outcome.
SettledBy(w, d) ==
    /\ wpc[w] = "mark" /\ job[w] = d /\ d \in batch[w]
    /\ posts'[d] = posts[d] /\ reclaims'[d] = reclaims[d]
    /\ Exists(d) /\ delivs[d] \in Delivery /\ delivs'[d] = Settled(w, delivs[d])
    /\ OtherWorkers(w)
    /\ \/ d \notin batch'[w]
       \/ /\ wpc'[w] = "hook" /\ job'[w] = d /\ num'[w] = num[w]
          /\ out[w] = "ok" \/ ~Retries(w)

\* A step that moves worker w, on another delivery or past the post of d.
LEMMA QuietMove ==
    ASSUME TypeOK, NEW w \in Workers, NEW d \in Ids, OtherWorkers(w),
           posts'[d] = posts[d], reclaims'[d] = reclaims[d], delivs'[d] = delivs[d],
           d \in batch'[w] => /\ d \in batch[w] /\ num'[w][d] = num[w][d]
                              /\ wpc[w] \in {"mark", "hook"} /\ job[w] = d
                                   => wpc'[w] = "hook" /\ job'[w] = d
    PROVE  Quiet(d)
<1>1. \A v \in Workers : d \in batch'[v] =>
         /\ d \in batch[v] /\ num'[v][d] = num[v][d]
         /\ wpc[v] \in {"mark", "hook"} /\ job[v] = d => wpc'[v] \in {"mark", "hook"} /\ job'[v] = d
         /\ wpc[v] = "hook" /\ job[v] = d => wpc'[v] = "hook" /\ job'[v] = d
  BY DEF OtherWorkers
<1>2. Unposted(d)' \subseteq Unposted(d)
  BY <1>1 DEF Unposted
<1>3. \A v \in Workers : d \in batch'[v] => (Unsettled(v, d)' => Unsettled(v, d))
  BY <1>1 DEF Unsettled
<1> QED
  BY <1>1, <1>2, <1>3 DEF Quiet, Exists

\* A step that leaves the workers, the posts and the reclaims alone.
LEMMA QuietRow ==
    ASSUME TypeOK, NEW d \in Ids, UNCHANGED <<workVars, posts, reclaims>>,
           Exists(d)' => /\ Exists(d) /\ delivs'[d].status = delivs[d].status
                         /\ delivs'[d].attempts = delivs[d].attempts
                         /\ delivs[d].status = "delivered" => delivs'[d] = delivs[d]
    PROVE  Quiet(d)
<1>1. UNCHANGED <<wpc, batch, num, job>>
  BY DEF workVars
<1>2. Unposted(d)' = Unposted(d) /\ \A v \in Workers : Unsettled(v, d)' <=> Unsettled(v, d)
  BY <1>1 DEF Unposted, Unsettled
<1> QED
  BY <1>1, <1>2 DEF Quiet

LEMMA StepKinds ==
    ASSUME TypeOK, HooksSound, DispatchSound, [Next]_vars, NEW d \in Ids
    PROVE  \/ Quiet(d) \/ Inserted(d)
           \/ \E w \in Workers : ClaimedBy(w, d) \/ PostedBy(w, d) \/ SettledBy(w, d)
<1> DEFINE Goal == \/ Quiet(d) \/ Inserted(d)
                   \/ \E w \in Workers : ClaimedBy(w, d) \/ PostedBy(w, d) \/ SettledBy(w, d)
<1>1. CASE UNCHANGED <<workVars, posts, rowVars>>
  BY <1>1, QuietRow DEF rowVars, Exists
<1>2. ASSUME NEW h \in Hooks, DeleteHook(h) PROVE Goal
  BY <1>2, QuietRow, CascadeEffect DEF DeleteHook, Exists
<1>3. ASSUME NEW e \in Events, NEW h \in Hooks, CreateDelivery(e, h) \/ CreateError(e, h)
      PROVE  Goal
  <2>1. UNCHANGED <<workVars, posts, reclaims>> /\ h \in todo[e]
    BY <1>3 DEF CreateDelivery, CreateError
  <2>2. CASE delivs'[d] = delivs[d]
    BY <2>1, <2>2, QuietRow DEF Exists
  <2>3. CASE d = <<e, h>> /\ delivs'[d] = NewDelivery
    <3>1. d[1] = e /\ d[2] = h
      BY <2>3
    <3> QED
      BY <2>1, <2>3, <3>1 DEF Inserted, Unwritten, workVars
  <2> QED
    BY <1>3, <2>2, <2>3, InsertEffect
<1>4. ASSUME NEW w \in Workers, ClaimPending(w) PROVE Goal
  <2>1. PICK S \in SUBSET {x \in Ids : Eligible(x)} :
             /\ S # {}
             /\ \A x \in S : /\ delivs'[x] = Claimed(delivs[x]) /\ delivs[x] \in Delivery
                             /\ reclaims'[x] =
                                  IF StaleClaim(x) THEN reclaims[x] + 1 ELSE reclaims[x]
             /\ \A x \in Ids \ S : delivs'[x] = delivs[x] /\ reclaims'[x] = reclaims[x]
             /\ \/ /\ wpc' = [wpc EXCEPT ![w] = "next"]
                   /\ batch' = [batch EXCEPT ![w] = S]
                   /\ num' = [num EXCEPT ![w] =
                                [x \in Ids |-> IF x \in S THEN delivs[x].attempts + 1 ELSE 0]]
                   /\ UNCHANGED slips
                \/ Slip /\ UNCHANGED <<wpc, batch, num>>
    BY <1>4, ClaimEffect
  <2>2. UNCHANGED <<job, out, posts>> /\ d \notin batch[w]
    BY <1>4 DEF ClaimPending, TypeOK
  <2>3. /\ OtherWorkers(w)
        /\ \/ batch'[w] = S /\ \A x \in S : num'[w][x] = delivs[x].attempts + 1
           \/ batch'[w] = batch[w]
    <3>1. CASE UNCHANGED <<wpc, batch, num>>
      BY <2>2, <3>1 DEF OtherWorkers
    <3>2. CASE /\ wpc' = [wpc EXCEPT ![w] = "next"]
               /\ batch' = [batch EXCEPT ![w] = S]
               /\ num' = [num EXCEPT ![w] =
                            [x \in Ids |-> IF x \in S THEN delivs[x].attempts + 1 ELSE 0]]
      BY <2>1, <2>2, <3>2, BatchEffect
    <3> QED
      BY <2>1, <3>1, <3>2
  <2>4. CASE d \in S
    <3>1. /\ Eligible(d) /\ delivs[d] \in Delivery /\ delivs'[d] = Claimed(delivs[d])
          /\ reclaims'[d] = IF StaleClaim(d) THEN reclaims[d] + 1 ELSE reclaims[d]
      BY <2>1, <2>4
    <3>2. d \in batch'[w] => num'[w][d] = delivs[d].attempts + 1
      BY <2>2, <2>3, <2>4
    <3>3. ClaimedBy(w, d)
      BY <2>2, <2>3, <3>1, <3>2 DEF ClaimedBy
    <3> QED
      BY <3>3
  <2>5. CASE d \notin S
    <3>1. d \notin batch'[w]
      BY <2>2, <2>3, <2>5
    <3> QED
      <4>1. delivs'[d] = delivs[d] /\ reclaims'[d] = reclaims[d] /\ posts'[d] = posts[d]
        BY <2>1, <2>2, <2>5
      <4> QED
        BY <2>3, <3>1, <4>1, QuietMove
  <2> QED
    BY <2>4, <2>5
<1>5. ASSUME NEW w \in Workers, NEW x \in Ids, LoadHook(w, x) PROVE Goal
  <2>1. wpc[w] = "next" /\ UNCHANGED <<delivs, reclaims, posts>>
    BY <1>5 DEF LoadHook, rowVars
  <2> QED
    BY <1>5, <2>1, LoadEffect, QuietMove
<1>6. ASSUME NEW w \in Workers, NEW code \in {"2xx", "other", "error"}, Post(w, code)
      PROVE  Goal
  <2>1. wpc[w] = "post" /\ UNCHANGED <<delivs, reclaims>>
    BY <1>6 DEF Post, rowVars
  <2>2. CASE job[w] = d
    <3>1. PostedBy(w, d)
      BY <1>6, <2>1, <2>2, PostEffect DEF PostedBy
    <3> QED
      BY <3>1
  <2>3. CASE job[w] # d
    BY <1>6, <2>1, <2>3, PostEffect, QuietMove
  <2> QED
    BY <2>2, <2>3
<1>7. ASSUME NEW w \in Workers, Mark(w) PROVE Goal
  <2>1. wpc[w] = "mark" /\ UNCHANGED <<reclaims, posts>>
    BY <1>7 DEF Mark
  <2>2. CASE delivs'[d] = delivs[d]
    BY <1>7, <2>1, <2>2, MarkMoves, QuietMove
  <2>3. CASE delivs'[d] # delivs[d]
    <3>1. /\ job[w] = d /\ d \in batch[w]
          /\ Exists(d) /\ delivs[d] \in Delivery /\ delivs'[d] = Settled(w, delivs[d])
      BY <1>7, <2>3, MarkEffect
    <3>2. SettledBy(w, d)
      BY <1>7, <2>1, <3>1, MarkMoves DEF SettledBy
    <3> QED
      BY <3>2
  <2> QED
    BY <2>2, <2>3
<1>8. ASSUME NEW w \in Workers, MarkHook(w) PROVE Goal
  <2>1. wpc[w] = "hook" /\ UNCHANGED <<delivs, reclaims, posts>> /\ Done(w)
    BY <1>8 DEF MarkHook, rowVars
  <2> QED
    BY <2>1, DoneEffect, QuietMove
<1>9. ASSUME NEW w \in Workers, WorkerCrash(w) PROVE Goal
  <2>1. UNCHANGED <<delivs, reclaims, posts>>
    BY <1>9 DEF WorkerCrash, rowVars
  <2> QED
    BY <1>9, <2>1, CrashEffect, QuietMove
<1>10. ASSUME NEW x \in Ids, FallDue(x) \/ GoStale(x) PROVE Goal
  <2>1. UNCHANGED <<workVars, posts, reclaims>>
    BY <1>10 DEF FallDue, GoStale
  <2>2. CASE x = d
    <3>1. Exists(d)
      BY <1>10, <2>2 DEF FallDue, GoStale
    <3> QED
      BY <1>10, <2>1, <2>2, <3>1, TimeEffect, QuietRow
  <2>3. CASE x # d
    BY <1>10, <2>1, <2>3, TimeEffect, QuietRow DEF Exists
  <2> QED
    BY <2>2, <2>3
<1> QED
  BY <1>1, <1>2, <1>3, <1>4, <1>5, <1>6, <1>7, <1>8, <1>9, <1>10
  DEF Next, WorkerStep, RegisterCheck, RegisterCreate, RegisterError, ReplicateHook,
      Dispatch, vars

-----------------------------------------------------------------------------
(* Claims                                                                  *)

LEMMA QuietHeld ==
    ASSUME TypeOK, NEW d \in Ids, Held(d), Quiet(d)
    PROVE  Held(d)'
<1>1. \A v \in Workers : Unsettled(v, d)' => Unsettled(v, d) /\ num'[v][d] = num[v][d]
  BY DEF Quiet, Unsettled
<1>2. \A v \in Workers : d \in batch'[v] => d \in batch[v] /\ num'[v][d] = num[v][d]
  BY DEF Quiet
<1>3. reclaims'[d] = reclaims[d]
  BY DEF Quiet
<1>4. Exists(d)' => /\ Exists(d) /\ delivs'[d].status = delivs[d].status
                    /\ delivs'[d].attempts = delivs[d].attempts
  BY DEF Quiet
<1> QED
  BY <1>1, <1>2, <1>3, <1>4 DEF Held

LEMMA ClaimHeld ==
    ASSUME TypeOK, NEW d \in Ids, Held(d), NEW w \in Workers, ClaimedBy(w, d)
    PROVE  Held(d)'
<1>1. /\ Exists(d) /\ delivs[d].attempts \in Nat /\ reclaims[d] \in Nat
      /\ delivs'[d].status = "delivering" /\ delivs'[d].attempts = delivs[d].attempts + 1
  BY ClaimedEdit DEF ClaimedBy, Eligible, TypeOK, Delivery
<1>2. \A v \in Workers \ {w} : /\ batch'[v] = batch[v] /\ num'[v] = num[v]
                               /\ Unsettled(v, d)' <=> Unsettled(v, d)
  BY DEF ClaimedBy, OtherWorkers, Unsettled
<1>3. \A v \in Workers : d \in batch[v] =>
        v # w /\ num[v][d] \in Nat /\ num[v][d] <= delivs[d].attempts
  BY <1>1 DEF ClaimedBy, Held, TypeOK
<1>4. d \in batch'[w] => num'[w][d] = delivs[d].attempts + 1
  BY DEF ClaimedBy
<1>5. reclaims'[d] \in Nat /\ reclaims'[d] >= reclaims[d]
      /\ (StaleClaim(d) => reclaims'[d] > 0)
  BY <1>1 DEF ClaimedBy
<1>6. \A v \in Workers : d \in batch[v] => reclaims'[d] > 0
  <2>1. \A v \in Workers : d \in batch[v] /\ reclaims[d] = 0 => StaleClaim(d)
    BY <1>1 DEF ClaimedBy, Held, Eligible
  <2> QED
    BY <1>1, <1>5, <2>1
<1>7. \A v \in Workers : d \in batch'[v] =>
         /\ num'[v][d] >= 1
         /\ num'[v][d] <= delivs'[d].attempts
  BY <1>1, <1>2, <1>3, <1>4 DEF Held
<1>8. \A v, u \in Workers : v # u /\ d \in batch'[v] /\ d \in batch'[u] => reclaims'[d] > 0
  BY <1>2, <1>6
<1>9. \A v, u \in Workers :
         v # u /\ Unsettled(v, d)' /\ Unsettled(u, d)' => num'[v][d] # num'[u][d]
  <2>1. \A v \in Workers \ {w} : Unsettled(v, d)' => Unsettled(v, d) /\ d \in batch[v]
    BY <1>2 DEF Unsettled
  <2>2. \A v \in Workers \ {w} : Unsettled(v, d)' => num'[v][d] <= delivs[d].attempts
    BY <1>2, <1>3, <2>1
  <2>3. Unsettled(w, d)' => num'[w][d] = delivs[d].attempts + 1
    BY <1>4 DEF Unsettled
  <2>4. \A v \in Workers \ {w} : Unsettled(v, d)' => num'[v][d] \in Nat
    BY <1>2, <1>3, <2>1
  <2>5. \A v, u \in Workers \ {w} :
         v # u /\ Unsettled(v, d)' /\ Unsettled(u, d)' => num'[v][d] # num'[u][d]
    BY <1>2, <2>1 DEF Held
  <2> QED
    BY <1>1, <2>2, <2>3, <2>4, <2>5
<1> QED
  BY <1>1, <1>7, <1>8, <1>9 DEF Held

LEMMA PostHeld ==
    ASSUME TypeOK, NEW d \in Ids, Held(d), NEW w \in Workers, PostedBy(w, d)
    PROVE  Held(d)'
<1>1. delivs' = delivs /\ reclaims' = reclaims
  BY DEF PostedBy
<1>2. \A v \in Workers : batch'[v] = batch[v] /\ num'[v] = num[v]
  BY DEF PostedBy, OtherWorkers
<1>3. \A v \in Workers : Unsettled(v, d)' => Unsettled(v, d)
  BY DEF PostedBy, OtherWorkers, Unsettled
<1> QED
  BY <1>1, <1>2, <1>3 DEF Held, Exists

LEMMA SettleHeld ==
    ASSUME TypeOK, NEW d \in Ids, Held(d), NEW w \in Workers, SettledBy(w, d)
    PROVE  Held(d)'
<1>1. /\ Exists(d) /\ reclaims'[d] = reclaims[d] /\ d \in batch[w]
      /\ delivs'[d].attempts = delivs[d].attempts
      /\ out[w] = "ok" \/ ~Retries(w) => delivs'[d].status # "pending"
  BY SettledEdit DEF SettledBy
<1>2. \A v \in Workers \ {w} : /\ batch'[v] = batch[v] /\ num'[v] = num[v]
                               /\ Unsettled(v, d)' <=> Unsettled(v, d)
  BY DEF SettledBy, OtherWorkers, Unsettled
<1>3. ~Unsettled(w, d)'
  BY DEF SettledBy, Unsettled
<1>4. d \in batch'[w] => num'[w] = num[w] /\ delivs'[d].status # "pending"
  BY <1>1 DEF SettledBy
<1>5. \A v \in Workers \ {w} : d \in batch[v] => reclaims[d] > 0
  BY <1>1 DEF Held
<1>6. reclaims[d] \in Nat
  BY DEF TypeOK
<1> QED
  BY <1>1, <1>2, <1>3, <1>4, <1>5, <1>6 DEF Held

LEMMA InsertHeld ==
    ASSUME TypeOK, NEW d \in Ids, DispatchSound, Inserted(d)
    PROVE  Held(d)'
<1>1. \A w \in Workers : d \notin batch'[w]
  BY DEF Inserted, DispatchSound
<1> QED
  BY <1>1 DEF Held, Unsettled

LEMMA NextClaims ==
    TypeOK /\ HooksSound /\ DispatchSound /\ ClaimsSound /\ [Next]_vars => ClaimsSound'
BY StepKinds, QuietHeld, ClaimHeld, PostHeld, SettleHeld, InsertHeld DEF ClaimsSound

-----------------------------------------------------------------------------
(* Outcomes                                                                *)

\* The outcome a worker is about to record is the one it met.
OutSound ==
    \A w \in Workers :
        /\ wpc[w] \in {"mark", "hook"} /\ out[w] = "ok" => job[w] \in accepted
        /\ wpc[w] = "mark" => out[w] # "none"
        /\ wpc[w] = "mark" /\ out[w] = "undeliverable" =>
             job[w][2] \in failed \/ hooks[job[w][2]].status = "deleted"

LEMMA AcceptedGrows == [Next]_vars => accepted \subseteq accepted'
BY DEF Next, WorkerStep, RegisterCheck, RegisterCreate, RegisterError, DeleteHook,
       ReplicateHook, Dispatch, CreateDelivery, CreateError, ClaimPending, LoadHook, Post,
       Mark, MarkHook, WorkerCrash, FallDue, GoStale, vars

LEMMA NextOut ==
    TypeOK /\ HooksSound /\ OutSound /\ [Next]_vars => OutSound'
<1> SUFFICES ASSUME TypeOK, HooksSound, OutSound, [Next]_vars PROVE OutSound'
  OBVIOUS
<1> DEFINE O(v) == /\ wpc'[v] \in {"mark", "hook"} /\ out'[v] = "ok" => job'[v] \in accepted'
                   /\ wpc'[v] = "mark" => out'[v] # "none"
                   /\ wpc'[v] = "mark" /\ out'[v] = "undeliverable" =>
                        job'[v][2] \in failed' \/ hooks'[job'[v][2]].status = "deleted"
<1>1. HooksAge /\ accepted \subseteq accepted'
  BY HookMoves, AcceptedGrows
<1>2. \A v \in Workers : wpc[v] = "mark" => job[v] \in batch[v] /\ job[v] \in Ids /\ job[v][2] \in Hooks
  BY DEF TypeOK, Ids
<1>3. ASSUME NEW v \in Workers, wpc'[v] = wpc[v] \/ (wpc[v] = "mark" /\ wpc'[v] = "hook"),
             out'[v] = out[v], job'[v] = job[v]
      PROVE  O(v)
  BY <1>1, <1>2, <1>3 DEF OutSound, HooksAge
<1>4. ASSUME NEW w \in Workers, OtherWorkers(w), O(w) PROVE \A v \in Workers : O(v)
  <2>1. ASSUME NEW v \in Workers, v # w PROVE O(v)
    <3>1. wpc'[v] = wpc[v] /\ out'[v] = out[v] /\ job'[v] = job[v]
      BY <1>4, <2>1 DEF OtherWorkers
    <3> QED
      BY <1>3, <3>1
  <2> QED
    BY <1>4, <2>1
<1>5. ASSUME UNCHANGED workVars PROVE \A v \in Workers : O(v)
  BY <1>3, <1>5 DEF workVars
<1>6. ASSUME NEW w \in Workers, ClaimPending(w) PROVE \A v \in Workers : O(v)
  <2>1. UNCHANGED <<job, out>>
    BY <1>6 DEF ClaimPending
  <2>2. wpc' = [wpc EXCEPT ![w] = "next"] \/ wpc' = wpc
    BY <1>6 DEF ClaimPending
  <2>3. ASSUME NEW v \in Workers, wpc'[v] = "next" PROVE O(v)
    BY <2>3
  <2>4. \A v \in Workers : wpc'[v] = wpc[v] \/ wpc'[v] = "next"
    BY <2>2 DEF TypeOK
  <2> QED
    BY <1>3, <2>1, <2>3, <2>4
<1>7. ASSUME NEW w \in Workers, NEW d \in Ids, LoadHook(w, d) PROVE \A v \in Workers : O(v)
  <2>1. d[2] \in Hooks /\ d \in batch[w] /\ hooks[d[2]] \in Hook
    BY <1>7 DEF LoadHook, Ids, TypeOK
  <2>2. hooks[d[2]].status # "active" => d[2] \in failed \/ hooks[d[2]].status = "deleted"
    BY <2>1 DEF HooksSound, Hook
  <2>3. hooks' = hooks /\ failed' = failed
    BY <1>7 DEF LoadHook, hookVars
  <2> QED
    BY <1>4, <1>7, <2>2, <2>3, LoadEffect
<1>8. ASSUME NEW w \in Workers, NEW code \in {"2xx", "other", "error"}, Post(w, code)
      PROVE  \A v \in Workers : O(v)
  <2>1. code = "2xx" => job[w] \in accepted'
    BY <1>8 DEF Post
  <2> QED
    BY <1>4, <1>8, <2>1, PostEffect DEF IsSuccess
<1>9. ASSUME NEW w \in Workers, Mark(w) PROVE \A v \in Workers : O(v)
  <2>1. wpc[w] = "mark"
    BY <1>9 DEF Mark
  <2>2. O(w)
    <3>1. CASE wpc'[w] = "hook" /\ job'[w] = job[w] /\ out'[w] = out[w]
      BY <1>3, <2>1, <3>1
    <3>2. CASE wpc'[w] \in {"idle", "next"}
      BY <3>2
    <3> QED
      BY <1>9, <3>1, <3>2, MarkMoves
  <2> QED
    BY <1>4, <1>9, <2>2, MarkMoves
<1>10. ASSUME NEW w \in Workers, MarkHook(w) PROVE \A v \in Workers : O(v)
  <2>1. wpc[w] = "hook" /\ Done(w)
    BY <1>10 DEF MarkHook
  <2> QED
    BY <1>4, <2>1, DoneEffect
<1>11. ASSUME NEW w \in Workers, WorkerCrash(w) PROVE \A v \in Workers : O(v)
  BY <1>4, <1>11, CrashEffect
<1>12. \A v \in Workers : O(v)
  BY <1>5, <1>6, <1>7, <1>8, <1>9, <1>10, <1>11
  DEF Next, WorkerStep, RegisterCheck, RegisterCreate, RegisterError, DeleteHook,
      ReplicateHook, Dispatch, CreateDelivery, CreateError, FallDue, GoStale, vars
<1> QED
  BY <1>12 DEF OutSound

\* A row that is there keeps its hook from being deleted, so that only a failing
\* hook or the last attempt gives it up.
LEMMA NextSettled ==
    ASSUME TypeOK, HooksSound, DispatchSound, ClaimsSound, OutSound,
           DeliveredWasAccepted, AbandonedIsExplained, [Next]_vars
    PROVE  DeliveredWasAccepted' /\ AbandonedIsExplained'
<1>1. HooksAge /\ accepted \subseteq accepted'
  BY HookMoves, AcceptedGrows
<1> SUFFICES ASSUME NEW d \in Ids, Exists(d)'
             PROVE  /\ delivs'[d].status = "delivered" => d \in accepted'
                    /\ delivs'[d].status = "abandoned" =>
                         delivs'[d].attempts >= MaxAttempts \/ d[2] \in failed'
  BY DEF DeliveredWasAccepted, AbandonedIsExplained
<1>2. CASE Quiet(d)
  BY <1>1, <1>2 DEF Quiet, DeliveredWasAccepted, AbandonedIsExplained, HooksAge
<1>3. CASE Inserted(d)
  BY <1>3, NewDeliveryType DEF Inserted
<1>4. ASSUME NEW w \in Workers, ClaimedBy(w, d) PROVE delivs'[d].status = "delivering"
  BY <1>4, ClaimedEdit DEF ClaimedBy
<1>5. ASSUME NEW w \in Workers, PostedBy(w, d) PROVE delivs' = delivs /\ Exists(d)
  BY <1>5 DEF PostedBy, Exists
<1>6. ASSUME NEW w \in Workers, SettledBy(w, d)
      PROVE  /\ delivs'[d].status = "delivered" => d \in accepted'
             /\ delivs'[d].status = "abandoned" =>
                  delivs'[d].attempts >= MaxAttempts \/ d[2] \in failed'
  <2>1. /\ wpc[w] = "mark" /\ job[w] = d /\ d \in batch[w] /\ Exists(d)
        /\ delivs[d] \in Delivery /\ delivs'[d] = Settled(w, delivs[d])
    BY <1>6 DEF SettledBy
  <2>2. CASE out[w] = "ok"
    <3>1. delivs'[d].status = "delivered" /\ d \in accepted
      BY <2>1, <2>2, SettledEdit DEF OutSound
    <3> QED
      BY <1>1, <3>1
  <2>3. CASE Retries(w)
    BY <2>1, <2>3, SettledEdit
  <2>4. CASE out[w] # "ok" /\ ~Retries(w)
    <3>1. delivs'[d].status = "abandoned" /\ delivs'[d].attempts = delivs[d].attempts
      BY <2>1, <2>4, SettledEdit
    <3>2. /\ num[w][d] \in Nat /\ delivs[d].attempts \in Nat
          /\ num[w][d] >= 1 /\ num[w][d] <= delivs[d].attempts
      BY <2>1 DEF ClaimsSound, Held, TypeOK, Delivery
    <3>3. CASE out[w] \in {"failed", "nohook"}
      <4>1. ~NextRetryDelay(num[w][d])
        BY <2>1, <2>4, <3>3 DEF Retries
      <4> QED
        BY <3>1, <3>2, <4>1 DEF NextRetryDelay
    <3>4. CASE out[w] = "undeliverable"
      <4>1. d[2] \in failed \/ hooks[d[2]].status = "deleted"
        BY <2>1, <3>4 DEF OutSound
      <4> QED
        BY <1>1, <2>1, <3>1, <4>1 DEF HooksSound, HooksAge
    <3>5. out[w] \in {"failed", "nohook", "undeliverable"}
      BY <2>1, <2>4 DEF OutSound, TypeOK
    <3> QED
      BY <3>3, <3>4, <3>5
  <2> QED
    BY <2>2, <2>3, <2>4
<1>7. ASSUME NEW w \in Workers, PostedBy(w, d)
      PROVE  /\ delivs'[d].status = "delivered" => d \in accepted'
             /\ delivs'[d].status = "abandoned" =>
                  delivs'[d].attempts >= MaxAttempts \/ d[2] \in failed'
  BY <1>1, <1>5, <1>7 DEF DeliveredWasAccepted, AbandonedIsExplained, HooksAge
<1> QED
  BY <1>2, <1>3, <1>4, <1>6, <1>7, StepKinds

-----------------------------------------------------------------------------
(* How often the endpoint is called                                        *)

\* The retries that d may still be given: numbers that a later claim or a
\* worker who has yet to record a failure can bring along.
Open(d) ==
    {n \in 1 .. (MaxAttempts - 1) :
        n > delivs[d].attempts \/ \E w \in Workers : Unsettled(w, d) /\ num[w][d] = n}

Pending(d) == IF delivs[d].status = "pending" THEN 1 ELSE 0

\* Every attempt of the row was claimed for one post, and every attempt that is
\* left needs an open retry or a stale claim.
CountedAt(d) ==
    /\ posts[d] + Cardinality(Unposted(d)) <= MaxAttempts + reclaims[d]
    /\ Exists(d) =>
         /\ posts[d] + Cardinality(Unposted(d)) <= delivs[d].attempts
         /\ delivs[d].attempts + Pending(d) + Cardinality(Open(d))
              <= MaxAttempts + reclaims[d]

Counted == \A d \in Ids : CountedAt(d)

\* Both are counted in bounded sets, so their cardinalities are numbers.
LEMMA BoundedSets ==
    /\ \A U \in SUBSET Workers : IsFiniteSet(U) /\ Cardinality(U) \in Nat
    /\ \A N \in SUBSET (1 .. (MaxAttempts - 1)) :
         /\ IsFiniteSet(N) /\ Cardinality(N) \in Nat /\ Cardinality(N) <= MaxAttempts - 1
<1>1. IsFiniteSet(1 .. (MaxAttempts - 1))
      /\ Cardinality(1 .. (MaxAttempts - 1)) = MaxAttempts - 1
  <2>1. MaxAttempts - 1 \in Int /\ 1 \in Int
    OBVIOUS
  <2>2. IsFiniteSet(1 .. (MaxAttempts - 1))
        /\ Cardinality(1 .. (MaxAttempts - 1)) =
             IF 1 > MaxAttempts - 1 THEN 0 ELSE (MaxAttempts - 1) - 1 + 1
    BY <2>1, FS_Interval
  <2> QED
    BY <2>2
<1> QED
  BY <1>1, FS_Subset, FS_CardinalityType

LEMMA AddOne ==
    ASSUME NEW S, IsFiniteSet(S), NEW x
    PROVE  /\ IsFiniteSet(S \cup {x}) /\ Cardinality(S \cup {x}) \in Nat
           /\ Cardinality(S \cup {x}) <= Cardinality(S) + 1
<1>1. Cardinality(S) \in Nat
  BY FS_CardinalityType
<1>2. IsFiniteSet(S \cup {x})
      /\ Cardinality(S \cup {x}) = IF x \in S THEN Cardinality(S) ELSE Cardinality(S) + 1
  BY FS_AddElement
<1> QED
  BY <1>1, <1>2

LEMMA CountsFinite ==
    ASSUME NEW d
    PROVE  /\ Unposted(d) \in SUBSET Workers /\ Unposted(d)' \in SUBSET Workers
           /\ Open(d) \in SUBSET (1 .. (MaxAttempts - 1))
           /\ Open(d)' \in SUBSET (1 .. (MaxAttempts - 1))
BY DEF Unposted, Open

\* The retries that are open after a step were open before it.
LEMMA OpenShrinks ==
    ASSUME NEW d \in Ids, Open(d)' \subseteq Open(d)
    PROVE  Cardinality(Open(d)') <= Cardinality(Open(d))
BY CountsFinite, BoundedSets, FS_Subset

LEMMA UnpostedShrinks ==
    ASSUME NEW d \in Ids, Unposted(d)' \subseteq Unposted(d)
    PROVE  Cardinality(Unposted(d)') <= Cardinality(Unposted(d))
BY CountsFinite, BoundedSets, FS_Subset

\* The numbers that CountedAt adds up.
LEMMA CountTypes ==
    ASSUME TypeOK, NEW d \in Ids
    PROVE  /\ posts[d] \in Nat /\ reclaims[d] \in Nat
           /\ Cardinality(Unposted(d)) \in Nat /\ Cardinality(Unposted(d)') \in Nat
           /\ Cardinality(Open(d)) \in Nat /\ Cardinality(Open(d)') \in Nat
           /\ Pending(d) \in {0, 1} /\ Pending(d)' \in {0, 1}
           /\ Exists(d) => delivs[d].attempts \in Nat
BY CountsFinite, BoundedSets DEF TypeOK, Pending, Exists, Delivery

\* A number that is still open was open before the step.
LEMMA OpenStays ==
    ASSUME NEW d \in Ids, \A n \in 1 .. (MaxAttempts - 1) :
             n > delivs'[d].attempts => n > delivs[d].attempts,
           \A v \in Workers : Unsettled(v, d)' =>
             \/ Unsettled(v, d) /\ num'[v][d] = num[v][d]
             \/ num'[v][d] > delivs[d].attempts
    PROVE  Open(d)' \subseteq Open(d)
BY DEF Open

LEMMA QuietCounted ==
    ASSUME TypeOK, NEW d \in Ids, CountedAt(d), Quiet(d)
    PROVE  CountedAt(d)'
<1>1. Cardinality(Unposted(d)') <= Cardinality(Unposted(d))
  BY UnpostedShrinks DEF Quiet
<1>2. ASSUME Exists(d)'
      PROVE  /\ Exists(d) /\ delivs'[d].attempts = delivs[d].attempts
             /\ Pending(d)' = Pending(d) /\ Cardinality(Open(d)') <= Cardinality(Open(d))
  <2>1. Exists(d) /\ delivs'[d].attempts = delivs[d].attempts /\ Pending(d)' = Pending(d)
    BY <1>2 DEF Quiet, Pending
  <2>2. \A v \in Workers : Unsettled(v, d)' => Unsettled(v, d) /\ num'[v][d] = num[v][d]
    BY DEF Quiet, Unsettled
  <2> QED
    BY <2>1, <2>2, OpenStays, OpenShrinks
<1>3. posts'[d] = posts[d] /\ reclaims'[d] = reclaims[d]
  BY DEF Quiet
<1> QED
  BY <1>1, <1>2, <1>3, CountTypes DEF CountedAt

LEMMA InsertCounted ==
    ASSUME TypeOK, NEW d \in Ids, DispatchSound, Inserted(d)
    PROVE  CountedAt(d)'
<1>1. /\ posts'[d] = 0 /\ reclaims'[d] = 0
      /\ \A w \in Workers : d \notin batch'[w]
  BY DEF Inserted, DispatchSound
<1>2. Unposted(d)' = {}
  BY <1>1 DEF Unposted
<1>3. Cardinality(Unposted(d)') = 0
  BY <1>2, FS_EmptySet
<1>4. /\ Pending(d)' = 1 /\ delivs'[d].attempts = 0
      /\ Cardinality(Open(d)') \in Nat /\ Cardinality(Open(d)') <= MaxAttempts - 1
  BY CountsFinite, BoundedSets, NewDeliveryType DEF Inserted, Pending
<1> QED
  BY <1>1, <1>3, <1>4 DEF CountedAt

LEMMA ClaimCounted ==
    ASSUME TypeOK, NEW d \in Ids, Held(d), CountedAt(d), NEW w \in Workers, ClaimedBy(w, d)
    PROVE  CountedAt(d)'
<1>1. /\ Exists(d) /\ delivs[d].attempts \in Nat /\ posts'[d] = posts[d]
      /\ delivs'[d].status = "delivering" /\ delivs'[d].attempts = delivs[d].attempts + 1
  BY ClaimedEdit DEF ClaimedBy, Eligible, Delivery
<1>2. \A v \in Workers \ {w} : /\ batch'[v] = batch[v] /\ num'[v] = num[v]
                               /\ wpc'[v] = wpc[v] /\ job'[v] = job[v]
  BY DEF ClaimedBy, OtherWorkers
<1>3. Cardinality(Unposted(d)') <= Cardinality(Unposted(d)) + 1
  <2>1. Unposted(d)' \subseteq Unposted(d) \cup {w}
    BY <1>2 DEF Unposted
  <2>2. IsFiniteSet(Unposted(d)) /\ Cardinality(Unposted(d)) \in Nat
    BY CountsFinite, BoundedSets
  <2>3. IsFiniteSet(Unposted(d) \cup {w})
        /\ Cardinality(Unposted(d) \cup {w}) \in Nat
        /\ Cardinality(Unposted(d) \cup {w}) <= Cardinality(Unposted(d)) + 1
    BY <2>2, AddOne
  <2>4. Cardinality(Unposted(d)') <= Cardinality(Unposted(d) \cup {w})
    BY <2>1, <2>3, FS_Subset
  <2> QED
    BY <2>2, <2>3, <2>4, CountTypes
<1>4. Cardinality(Open(d)') <= Cardinality(Open(d))
  <2>1. \A v \in Workers : Unsettled(v, d)' =>
             \/ Unsettled(v, d) /\ num'[v][d] = num[v][d]
             \/ num'[v][d] > delivs[d].attempts
    BY <1>1, <1>2 DEF ClaimedBy, Unsettled
  <2>2. Open(d)' \subseteq Open(d)
    BY <1>1, <2>1, OpenStays
  <2> QED
    BY <2>2, OpenShrinks
<1>5. Pending(d)' = 0
  BY <1>1 DEF Pending
<1>6. Pending(d) + reclaims'[d] = reclaims[d] + 1 /\ reclaims'[d] \in Nat
  BY CountTypes DEF ClaimedBy, Eligible, StaleClaim, Pending
<1> QED
  BY <1>1, <1>3, <1>4, <1>5, <1>6, CountTypes DEF CountedAt

LEMMA PostCounted ==
    ASSUME TypeOK, NEW d \in Ids, CountedAt(d), NEW w \in Workers, PostedBy(w, d)
    PROVE  CountedAt(d)'
<1>1. /\ delivs' = delivs /\ reclaims' = reclaims /\ posts'[d] = posts[d] + 1
      /\ wpc[w] = "post" /\ wpc'[w] = "mark" /\ job'[w] = d /\ d \in batch[w]
  BY DEF PostedBy
<1>2. \A v \in Workers : /\ batch'[v] = batch[v] /\ num'[v] = num[v]
                         /\ v # w => wpc'[v] = wpc[v] /\ job'[v] = job[v]
  BY DEF PostedBy, OtherWorkers
<1>3. Cardinality(Unposted(d)') = Cardinality(Unposted(d)) - 1
  <2>1. Unposted(d)' = Unposted(d) \ {w} /\ w \in Unposted(d)
    BY <1>1, <1>2 DEF Unposted
  <2> QED
    BY <2>1, CountsFinite, BoundedSets, FS_RemoveElement
<1>4. Cardinality(Open(d)') <= Cardinality(Open(d)) /\ Pending(d)' = Pending(d)
  <2>1. \A v \in Workers : Unsettled(v, d)' => Unsettled(v, d) /\ num'[v][d] = num[v][d]
    BY <1>1, <1>2 DEF Unsettled
  <2> QED
    BY <1>1, <2>1, OpenStays, OpenShrinks DEF Pending
<1>5. Exists(d)' => Exists(d)
  BY <1>1 DEF Exists
<1> QED
  BY <1>1, <1>3, <1>4, <1>5, CountTypes DEF CountedAt

\* A failure that is to be retried closes the number it was claimed under.
LEMMA SettleCounted ==
    ASSUME TypeOK, NEW d \in Ids, Held(d), CountedAt(d), NEW w \in Workers, SettledBy(w, d)
    PROVE  CountedAt(d)'
<1>1. /\ Exists(d) /\ posts'[d] = posts[d] /\ reclaims'[d] = reclaims[d]
      /\ delivs'[d].attempts = delivs[d].attempts /\ delivs[d].attempts \in Nat
      /\ Retries(w) => delivs'[d].status = "pending"
      /\ ~Retries(w) => delivs'[d].status # "pending"
  BY SettledEdit DEF SettledBy, Delivery, Retries
<1>2. \A v \in Workers \ {w} : /\ batch'[v] = batch[v] /\ num'[v] = num[v]
                               /\ wpc'[v] = wpc[v] /\ job'[v] = job[v]
  BY DEF SettledBy, OtherWorkers
<1>3. wpc[w] = "mark" /\ job[w] = d /\ d \in batch[w]
      /\ (d \in batch'[w] => wpc'[w] = "hook" /\ job'[w] = d)
  BY DEF SettledBy
<1>4. Cardinality(Unposted(d)') <= Cardinality(Unposted(d))
  <2>1. Unposted(d)' \subseteq Unposted(d)
    BY <1>2, <1>3 DEF Unposted
  <2> QED
    BY <2>1, UnpostedShrinks
<1>5. \A v \in Workers : Unsettled(v, d)' => /\ v # w /\ Unsettled(v, d)
                                             /\ num'[v][d] = num[v][d]
  BY <1>2, <1>3 DEF Unsettled
<1>6. Open(d)' \subseteq Open(d)
  BY <1>1, <1>5, OpenStays
<1>7. CASE ~Retries(w)
  <2>1. Pending(d)' = 0
    BY <1>1, <1>7 DEF Pending
  <2> QED
    BY <1>1, <1>4, <1>6, <2>1, OpenShrinks, CountTypes DEF CountedAt
<1>8. CASE Retries(w)
  <2> DEFINE n == num[w][d]
  <2>1. /\ n \in Nat /\ n >= 1 /\ n < MaxAttempts /\ n <= delivs[d].attempts
        /\ Unsettled(w, d)
    BY <1>1, <1>3, <1>8 DEF Retries, NextRetryDelay, Held, Unsettled, TypeOK
  <2>2. n \in Open(d)
    BY <2>1 DEF Open
  <2>3. n \notin Open(d)'
    <3>1. ~(n > delivs'[d].attempts)
      BY <1>1, <2>1
    <3>2. \A v \in Workers : Unsettled(v, d)' => num'[v][d] # n
      BY <1>5, <2>1 DEF Held
    <3> QED
      BY <3>1, <3>2 DEF Open
  <2>4. Cardinality(Open(d)') <= Cardinality(Open(d)) - 1
    <3>1. Open(d)' \subseteq Open(d) \ {n}
      BY <1>6, <2>3
    <3>2. IsFiniteSet(Open(d) \ {n}) /\ Cardinality(Open(d) \ {n}) = Cardinality(Open(d)) - 1
      BY <2>2, CountsFinite, BoundedSets, FS_RemoveElement
    <3> QED
      BY <3>1, <3>2, FS_Subset
  <2>5. Pending(d)' = 1
    BY <1>1, <1>8 DEF Pending
  <2> QED
    BY <1>1, <1>4, <2>4, <2>5, CountTypes DEF CountedAt
<1> QED
  BY <1>7, <1>8

LEMMA NextCounted ==
    TypeOK /\ HooksSound /\ DispatchSound /\ ClaimsSound /\ Counted /\ [Next]_vars => Counted'
BY StepKinds, QuietCounted, InsertCounted, ClaimCounted, PostCounted, SettleCounted
DEF ClaimsSound, Counted

-----------------------------------------------------------------------------
(* The limit                                                               *)

LEMMA HookSets ==
    \A S \in SUBSET Hooks : IsFiniteSet(S) /\ Cardinality(S) \in Nat
BY FS_Subset, FS_CardinalityType

LEMMA RegistrarSets ==
    /\ Cardinality(Registrars) \in Nat /\ Cardinality(Registrars) >= 1
    /\ \A S \in SUBSET Registrars : /\ IsFiniteSet(S) /\ Cardinality(S) \in Nat
                                    /\ Cardinality(S) <= Cardinality(Registrars)
<1>1. Cardinality(Registrars) \in Nat /\ Cardinality(Registrars) # 0
  BY FS_EmptySet, FS_CardinalityType
<1> QED
  BY <1>1, FS_Subset, FS_CardinalityType

\* What counts against the limit is no more than before, and so are the
\* registrations that have passed it.
LEMMA LimitStays ==
    ASSUME TypeOK, TypeOK', LimitExplained, unseen' = unseen, reg' \subseteq reg,
           Live(hooks)' \subseteq Live(hooks)
    PROVE  LimitExplained'
<1>1. Live(hooks)' \ unseen' \subseteq Live(hooks) \ unseen
      /\ Live(hooks) \ unseen \in SUBSET Hooks /\ reg \in SUBSET Registrars
  BY DEF Live, TypeOK
<1>2. /\ Cardinality(Live(hooks)' \ unseen') <= Cardinality(Live(hooks) \ unseen)
      /\ Cardinality(reg') <= Cardinality(reg)
      /\ Cardinality(Live(hooks)' \ unseen') \in Nat /\ Cardinality(reg') \in Nat
      /\ Cardinality(Live(hooks) \ unseen) \in Nat /\ Cardinality(reg) \in Nat
  BY <1>1, HookSets, RegistrarSets, FS_Subset
<1> QED
  BY <1>2, RegistrarSets DEF LimitExplained

LEMMA NextLimit ==
    TypeOK /\ HooksSound /\ LimitExplained /\ [Next]_vars => LimitExplained'
<1> SUFFICES ASSUME TypeOK, HooksSound, LimitExplained, [Next]_vars PROVE LimitExplained'
  OBVIOUS
<1> USE DEF hookVars
<1>0. TypeOK'
  BY NextType
<1>1. CASE UNCHANGED <<hooks, reg, unseen>>
  BY <1>0, <1>1, LimitStays DEF Live
<1>2. ASSUME NEW g \in Registrars, RegisterCheck(g) PROVE LimitExplained'
  <2>1. /\ reg' \in SUBSET Registrars /\ hooks' = hooks
        /\ Live(ReadPool) \in SUBSET Hooks
        /\ Live(hooks)' \ unseen' \subseteq Live(ReadPool)
    BY <1>0, <1>2 DEF RegisterCheck, TypeOK, Live
  <2>2. /\ Cardinality(Live(hooks)' \ unseen') <= Cardinality(Live(ReadPool))
        /\ Cardinality(Live(hooks)' \ unseen') \in Nat /\ Cardinality(Live(ReadPool)) \in Nat
    BY <2>1, HookSets, FS_Subset
  <2>3. Cardinality(Live(ReadPool)) < MaxWebhooks
    BY <1>2 DEF RegisterCheck, BelowLimit
  <2>4. Cardinality(reg') <= Cardinality(Registrars) /\ Cardinality(reg') \in Nat
    BY <2>1, RegistrarSets
  <2> QED
    BY <2>2, <2>3, <2>4, RegistrarSets DEF LimitExplained
<1>3. ASSUME NEW g \in Registrars, NEW es \in SUBSET EventTypes, RegisterCreate(g, es)
      PROVE  LimitExplained'
  <2>1. PICK h \in Hooks : \A x \in Hooks : x # h => hooks'[x] = hooks[x]
    BY <1>3, RegisterEffect
  <2>2. reg' = reg \ {g} /\ g \in reg /\ unseen' = unseen
    BY <1>3 DEF RegisterCreate
  <2>3. /\ Live(hooks)' \ unseen' \subseteq (Live(hooks) \ unseen) \cup {h}
        /\ Live(hooks) \ unseen \in SUBSET Hooks /\ reg \in SUBSET Registrars
    BY <2>1, <2>2 DEF Live, TypeOK
  <2>4. /\ Cardinality(reg') = Cardinality(reg) - 1 /\ Cardinality(reg) \in Nat
    BY <2>2, <2>3, RegistrarSets, FS_RemoveElement
  <2>5. /\ IsFiniteSet(Live(hooks) \ unseen) /\ Cardinality(Live(hooks) \ unseen) \in Nat
    BY <2>3, HookSets
  <2>6. /\ IsFiniteSet((Live(hooks) \ unseen) \cup {h})
        /\ Cardinality((Live(hooks) \ unseen) \cup {h}) \in Nat
        /\ Cardinality((Live(hooks) \ unseen) \cup {h}) <= Cardinality(Live(hooks) \ unseen) + 1
    BY <2>5, AddOne
  <2>7. /\ Cardinality(Live(hooks)' \ unseen') <= Cardinality((Live(hooks) \ unseen) \cup {h})
        /\ Cardinality(Live(hooks)' \ unseen') \in Nat
    BY <2>3, <2>6, FS_Subset, FS_CardinalityType
  <2> QED
    BY <2>4, <2>5, <2>6, <2>7, RegistrarSets DEF LimitExplained
<1>4. ASSUME NEW g \in Registrars, RegisterError(g) PROVE LimitExplained'
  BY <1>0, <1>4, LimitStays DEF RegisterError, Live
<1>5. ASSUME NEW h \in Hooks, DeleteHook(h) PROVE LimitExplained'
  <2>1. Live(hooks)' \subseteq Live(hooks) /\ UNCHANGED <<reg, unseen>>
    BY <1>5, CascadeEffect DEF Live, DeleteHook
  <2> QED
    BY <1>0, <2>1, LimitStays
<1>6. ASSUME NEW w \in Workers, MarkHook(w) PROVE LimitExplained'
  <2> DEFINE h == job[w][2]
  <2>1. /\ h \in Hooks /\ hooks[h] \in Hook /\ hooks[h].status # "none"
        /\ \A x \in Hooks : x # h => hooks'[x] = hooks[x]
        /\ hooks' = hooks \/ hooks[h].status # "deleted"
    BY <1>6, MarkHookEffect DEF HooksSound, TypeOK
  <2>2. hooks' = hooks \/ h \in Live(hooks)
    BY <2>1 DEF Live, Hook
  <2>3. Live(hooks)' \subseteq Live(hooks)
    BY <2>1, <2>2 DEF Live
  <2>4. UNCHANGED <<reg, unseen>>
    BY <1>6 DEF MarkHook
  <2> QED
    BY <1>0, <2>3, <2>4, LimitStays
<1> QED
  BY <1>1, <1>2, <1>3, <1>4, <1>5, <1>6
  DEF Next, WorkerStep, ReplicateHook, Dispatch, CreateDelivery, CreateError, ClaimPending,
      LoadHook, Post, Mark, WorkerCrash, FallDue, GoStale, vars

-----------------------------------------------------------------------------
(* The theorems                                                            *)

IInv ==
    /\ TypeOK /\ HooksSound /\ DispatchSound /\ CutIsExplained /\ ClaimsSound /\ OutSound
    /\ DeliveredWasAccepted /\ AbandonedIsExplained /\ Counted /\ LimitExplained

LEMMA InitInv == Init => IInv
<1> SUFFICES ASSUME Init PROVE IInv
  OBVIOUS
<1>1. \A d \in Ids : d[1] \in Events /\ d[2] \in Hooks /\ ~Exists(d)
  BY DEF Init, Exists, Ids
<1>2. HooksSound /\ DispatchSound /\ CutIsExplained
  BY <1>1 DEF Init, HooksSound, DispatchSound, CutIsExplained, Unwritten
<1>3. ClaimsSound /\ OutSound
  BY DEF Init, ClaimsSound, Held, Unsettled, OutSound
<1>4. DeliveredWasAccepted /\ AbandonedIsExplained
  BY <1>1 DEF DeliveredWasAccepted, AbandonedIsExplained
<1>5. Counted
  <2> SUFFICES ASSUME NEW d \in Ids PROVE CountedAt(d)
    BY DEF Counted
  <2>1. Unposted(d) = {} /\ posts[d] = 0 /\ reclaims[d] = 0
    BY DEF Init, Unposted
  <2>2. Cardinality(Unposted(d)) = 0
    BY <2>1, FS_EmptySet
  <2> QED
    BY <1>1, <2>1, <2>2 DEF CountedAt
<1>6. LimitExplained
  <2>1. Live(hooks) \ unseen = {} /\ reg = {}
    BY DEF Init, Live
  <2>2. Cardinality(Live(hooks) \ unseen) = 0 /\ Cardinality(reg) = 0
    BY <2>1, FS_EmptySet
  <2> QED
    BY <2>2, RegistrarSets DEF LimitExplained
<1> QED
  BY <1>2, <1>3, <1>4, <1>5, <1>6, InitType DEF IInv

LEMMA NextInv == IInv /\ [Next]_vars => IInv'
BY NextType, NextHooks, NextDispatch, NextCut, NextClaims, NextOut, NextSettled, NextCounted,
   NextLimit DEF IInv

\* The inductive invariant holds in every state that registrations, dispatches
\* and workers (RegisterHandler, Dispatch, processDelivery) can reach.
THEOREM InductiveCorrect == Spec => []IInv
BY InitInv, NextInv, PTL DEF Spec

\* Every variable stays of its kind, and a worker that is not asleep has a
\* claimed delivery to work on (worker.go's loop over the batch).
THEOREM TypeCorrect == Spec => []TypeOK
<1>1. IInv => TypeOK
  BY DEF IInv
<1> QED
  BY <1>1, InductiveCorrect, PTL

\* A delivery counts as delivered only after a 2xx, is given up only with its
\* attempts used up or its hook failing, and a dispatch ends early only for a
\* fault or a deleted hook, for any number of workers, hooks and faults
\* (processDelivery, NextRetryDelay, Dispatch).
THEOREM SettledForAReasonCorrect == Spec => []SettledForAReason
<1>1. IInv => SettledForAReason
  BY DEF IInv, SettledForAReason
<1> QED
  BY <1>1, InductiveCorrect, PTL

\* However many workers there are, two hold one delivery only after a stale
\* claim, and the endpoint is called at most MaxAttempts times and once more for
\* each of those (ClaimPending, MaxAttempts).
THEOREM ClaimsHoldCorrect == Spec => []ClaimsHold
<1>1. IInv => ClaimsHold
  <2> SUFFICES ASSUME IInv PROVE ClaimsHold
    OBVIOUS
  <2>1. ConcurrentOnlyAfterTimeout
    BY DEF IInv, ClaimsSound, Held, ConcurrentOnlyAfterTimeout
  <2>2. PostsBounded
    <3> SUFFICES ASSUME NEW d \in Ids PROVE posts[d] <= MaxAttempts + reclaims[d]
      BY DEF PostsBounded
    <3>1. posts[d] + Cardinality(Unposted(d)) <= MaxAttempts + reclaims[d]
      BY DEF IInv, Counted, CountedAt
    <3> QED
      BY <3>1, CountTypes DEF IInv
  <2> QED
    BY <2>1, <2>2 DEF ClaimsHold
<1> QED
  BY <1>1, InductiveCorrect, PTL

\* The webhooks over the limit are no more than the registrations that raced,
\* less one, and the hooks the replica hid from a check, for any number of
\* requests (CountByWorkspace, RegisterHandler.Handle).
THEOREM LimitCorrect == Spec => []LimitExplained
<1>1. IInv => LimitExplained
  BY DEF IInv
<1> QED
  BY <1>1, InductiveCorrect, PTL

\* No step changes a delivered row but that of a worker whose claim had been
\* taken over (MarkFailed writes whatever the status is).
THEOREM DeliveredIsFinalCorrect == Spec => DeliveredIsFinal
<1> DEFINE Final == \A d \in Ids :
              /\ Exists(d) /\ delivs[d].status = "delivered"
              /\ delivs'[d] # delivs[d] /\ delivs'[d] # NoDelivery
              => reclaims[d] > 0
<1>1. IInv /\ [Next]_vars => [Final]_vars
  <2> SUFFICES ASSUME IInv, [Next]_vars, NEW d \in Ids,
                      Exists(d), delivs[d].status = "delivered",
                      delivs'[d] # delivs[d], delivs'[d] # NoDelivery
               PROVE  reclaims[d] > 0
    OBVIOUS
  <2>1. TypeOK /\ HooksSound /\ DispatchSound /\ Held(d) /\ Exists(d)' /\ reclaims[d] \in Nat
    BY DEF IInv, ClaimsSound, TypeOK, Exists
  <2>2. ~Quiet(d)
    BY <2>1 DEF Quiet
  <2>3. ~Inserted(d)
    BY <2>1 DEF Inserted, DispatchSound
  <2>4. \A w \in Workers : ~ClaimedBy(w, d) /\ ~PostedBy(w, d)
    BY <2>1 DEF ClaimedBy, PostedBy, Eligible, StaleClaim
  <2>5. ASSUME NEW w \in Workers, SettledBy(w, d) PROVE reclaims[d] > 0
    <3>1. Unsettled(w, d)
      BY <2>5 DEF SettledBy, Unsettled
    <3> QED
      BY <2>1, <2>5, <3>1 DEF Held, SettledBy
  <2> QED
    BY <2>1, <2>2, <2>3, <2>4, <2>5, StepKinds
<1>2. DeliveredIsFinal <=> [][Final]_vars
  BY DEF DeliveredIsFinal
<1> QED
  BY <1>1, <1>2, InductiveCorrect, PTL DEF Spec

=============================================================================
