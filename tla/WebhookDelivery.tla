--------------------------- MODULE WebhookDelivery ---------------------------
(***************************************************************************)
(* Webhooks: registration under a per-workspace limit, dispatch of an      *)
(* event to the subscribed hooks, and the delivery workers that claim,     *)
(* post and settle deliveries.  One workspace; every pod of the API        *)
(* service runs a worker.                                                  *)
(*                                                                         *)
(* Time is left out: a retry falls due, and a claim goes stale after       *)
(* deliveryClaimTimeout, at any moment.  A claim may go stale under a      *)
(* worker that is merely slow, because a batch of 50 deliveries with a     *)
(* 30 s HTTP timeout each can take longer than the 5 minutes.              *)
(***************************************************************************)
EXTENDS Naturals, FiniteSets

CONSTANTS Hooks,        \* webhook ids, each used once
          EventTypes,   \* url.created, ...
          Events,       \* event ids, each dispatched once
          Workers,      \* delivery workers, one per pod
          Registrars,   \* concurrent registration requests
          MaxWebhooks,  \* MaxWebhooksPerWorkspace (10)
          MaxAttempts,  \* (5)
          BatchSize,    \* deliveries claimed at once (50)
          HasReplica,   \* reads go to a lagging replica
          MaxSlips,     \* bound: crashes, lost statements and slow batches
          NoDelivery    \* no such row

ASSUME WebhookConstants ==
    /\ MaxAttempts \in Nat \ {0} /\ BatchSize \in Nat \ {0}
    /\ MaxWebhooks \in Nat /\ MaxSlips \in Nat
    /\ HasReplica \in BOOLEAN
    /\ IsFiniteSet(Hooks) /\ IsFiniteSet(Workers)
    /\ IsFiniteSet(Registrars) /\ Registrars # {}

VARIABLES
    hooks,     \* webhooks on the primary
    rhooks,    \* webhooks as the replica shows them
    delivs,    \* webhook_deliveries, by event and hook
    reg,       \* registrations that have passed the limit check
    todo,      \* dispatches under way: hooks that still need a row
    fresh,     \* events not yet dispatched
    wpc,       \* where each worker stands
    batch,     \* the deliveries it has claimed and not finished
    num,       \* AttemptCount of each of them, as claimed
    job,       \* the delivery it is working on
    out,       \* what it is about to record for it
    slips,     \* slips so far
    \* History, read by the properties only:
    accepted,  \* deliveries an endpoint has answered with 2xx
    posts,     \* POSTs sent per delivery
    reclaims,  \* stale claims taken over, per delivery
    failed,    \* hooks that have been set to failing
    unseen,    \* hooks that were live when a limit check did not see them
    aimed,     \* hooks found subscribed to each event
    cut        \* events whose dispatch returned an error

hookVars == <<hooks, rhooks, reg, failed, unseen>>
dispVars == <<todo, fresh, aimed, cut>>
workVars == <<wpc, batch, num, job, out>>
rowVars  == <<delivs, reclaims>>
vars == <<hookVars, dispVars, workVars, rowVars, slips, accepted, posts>>

Ids == Events \X Hooks

\* A webhook row: its status and the event types it subscribes to.
Hook == [status: {"none", "active", "failing", "deleted"}, events: SUBSET EventTypes]

Delivery == [status: {"pending", "delivering", "delivered", "abandoned"},
             attempts: Nat, due: BOOLEAN, stale: BOOLEAN]

ASSUME NoDeliveryIsNoRow == NoDelivery \notin Delivery /\ NoDelivery \notin Ids

ReadPool == IF HasReplica THEN rhooks ELSE hooks

\* A fault or an unlucky delay that the bound still allows.
Slip == slips < MaxSlips /\ slips' = slips + 1

-----------------------------------------------------------------------------
(* Registration and deletion                                               *)

\* CountByWorkspace counts every row that is not 'disabled'.
Live(view) == {h \in Hooks : view[h].status \in {"active", "failing"}}

\* Ids that are left; Hooks is the bound on registrations.
Unused == {h \in Hooks : hooks[h].status = "none"}

\* Mutant: the limit is compared with the count before this webhook.
BelowLimitOffByOne == Cardinality(Live(ReadPool)) <= MaxWebhooks

BelowLimit == Cardinality(Live(ReadPool)) < MaxWebhooks

\* RegisterHandler.Handle: validated, and the limit check passes.
RegisterCheck(g) ==
    /\ g \notin reg /\ Unused # {} /\ BelowLimit
    /\ reg' = reg \cup {g}
    /\ unseen' = unseen \cup (Live(hooks) \ Live(ReadPool))
    /\ UNCHANGED <<hooks, rhooks, failed, dispVars, workVars, rowVars,
                   slips, accepted, posts>>

\* The INSERT that follows, under a new id; when only its answer is lost it
\* counts just as well.
RegisterCreate(g, es) ==
    LET h == CHOOSE x \in Unused : TRUE IN
    /\ g \in reg /\ Unused # {} /\ es # {}
    /\ hooks' = [hooks EXCEPT ![h] = [status |-> "active", events |-> es]]
    /\ reg' = reg \ {g}
    /\ UNCHANGED <<rhooks, failed, unseen, dispVars, workVars, rowVars, slips,
                   accepted, posts>>

\* The INSERT fails, and the request with it.
RegisterError(g) ==
    /\ g \in reg /\ Slip
    /\ reg' = reg \ {g}
    /\ UNCHANGED <<hooks, rhooks, failed, unseen, dispVars, workVars, rowVars,
                   accepted, posts>>

\* DELETE FROM webhooks takes the hook's deliveries along (ON DELETE CASCADE).
Cascade(h) == [d \in Ids |-> IF d[2] = h THEN NoDelivery ELSE delivs[d]]

\* DeleteHandler
DeleteHook(h) ==
    /\ hooks[h].status \in {"active", "failing"}
    /\ hooks' = [hooks EXCEPT ![h].status = "deleted"]
    /\ delivs' = Cascade(h)
    /\ UNCHANGED <<rhooks, reg, failed, unseen, dispVars, workVars, reclaims, slips,
                   accepted, posts>>

ReplicateHook(h) ==
    /\ HasReplica /\ rhooks[h] # hooks[h]
    /\ rhooks' = [rhooks EXCEPT ![h] = hooks[h]]
    /\ UNCHANGED <<hooks, reg, failed, unseen, dispVars, workVars, rowVars, slips,
                   accepted, posts>>

-----------------------------------------------------------------------------
(* Dispatch                                                                *)

\* FindSubscribed
Subscribed(t) == {h \in Hooks : /\ ReadPool[h].status = "active"
                                /\ t \in ReadPool[h].events}

\* The hooks are read, or cannot be and the event goes to none.
Dispatch(e, t) ==
    /\ e \in fresh
    /\ fresh' = fresh \ {e}
    /\ \/ /\ todo' = [todo EXCEPT ![e] = Subscribed(t)]
          /\ aimed' = [aimed EXCEPT ![e] = Subscribed(t)]
          /\ UNCHANGED slips
       \/ Slip /\ UNCHANGED <<todo, aimed>>
    /\ UNCHANGED <<cut, hookVars, workVars, rowVars, accepted, posts>>

NewDelivery == [status |-> "pending", attempts |-> 0, due |-> TRUE, stale |-> FALSE]

\* CreateDelivery for the next hook, which a hook that the primary has deleted
\* under the replica's eyes refuses (foreign key).
CreateDelivery(e, h) ==
    /\ h \in todo[e] /\ hooks[h].status # "deleted"
    /\ delivs' = [delivs EXCEPT ![<<e, h>>] = NewDelivery]
    /\ todo' = [todo EXCEPT ![e] = @ \ {h}]
    /\ UNCHANGED <<fresh, aimed, cut, hookVars, workVars, reclaims, slips, accepted, posts>>

\* The first error ends Dispatch: the hooks after h get nothing.  The row of h
\* may be there all the same, when only the answer was lost.
CreateError(e, h) ==
    /\ h \in todo[e]
    /\ \/ hooks[h].status = "deleted" /\ UNCHANGED <<delivs, slips>>
       \/ Slip /\ UNCHANGED delivs
       \/ /\ hooks[h].status # "deleted" /\ Slip
          /\ delivs' = [delivs EXCEPT ![<<e, h>>] = NewDelivery]
    /\ todo' = [todo EXCEPT ![e] = {}]
    /\ cut' = cut \cup {e}
    /\ UNCHANGED <<fresh, aimed, hookVars, workVars, reclaims, accepted, posts>>

-----------------------------------------------------------------------------
(* Workers                                                                 *)

Exists(d) == delivs[d] # NoDelivery

StaleClaim(d) == delivs[d].status = "delivering" /\ delivs[d].stale

\* Mutant: rows left in delivering are never taken over.
EligiblePendingOnly(d) ==
    Exists(d) /\ delivs[d].status = "pending" /\ delivs[d].due

\* The WHERE clause of ClaimPending.
Eligible(d) ==
    /\ Exists(d)
    /\ \/ delivs[d].status = "pending" /\ delivs[d].due
       \/ StaleClaim(d)

\* What the UPDATE of ClaimPending leaves in a claimed row.
Claimed(row) == [row EXCEPT !.status = "delivering", !.attempts = @ + 1,
                            !.stale = FALSE]

\* ClaimPending takes up to BatchSize rows in one statement; when its answer
\* is lost, the rows are claimed and no worker knows.
ClaimPending(w) ==
    LET able == {d \in Ids : Eligible(d)} IN
    /\ wpc[w] = "idle"
    /\ \E S \in SUBSET able :
        /\ S # {}
        /\ Cardinality(S) = BatchSize \/ (S = able /\ Cardinality(S) < BatchSize)
        /\ delivs' = [d \in Ids |-> IF d \in S THEN Claimed(delivs[d]) ELSE delivs[d]]
        /\ reclaims' = [d \in Ids |-> IF d \in S /\ StaleClaim(d)
                                        THEN reclaims[d] + 1 ELSE reclaims[d]]
        /\ \/ /\ wpc' = [wpc EXCEPT ![w] = "next"]
              /\ batch' = [batch EXCEPT ![w] = S]
              /\ num' = [num EXCEPT ![w] =
                            [d \in Ids |-> IF d \in S THEN delivs[d].attempts + 1 ELSE 0]]
              /\ UNCHANGED slips
           \/ Slip /\ UNCHANGED <<wpc, batch, num>>
    /\ UNCHANGED <<hookVars, dispVars, job, out, accepted, posts>>

\* Worker w is about to record outcome o for delivery d.
Record(w, d, o) ==
    /\ wpc' = [wpc EXCEPT ![w] = "mark"]
    /\ job' = [job EXCEPT ![w] = d]
    /\ out' = [out EXCEPT ![w] = o]
    /\ UNCHANGED <<batch, num>>

\* processDelivery: GetByID of the webhook on the primary.
LoadHook(w, d) ==
    LET status == hooks[d[2]].status IN
    /\ wpc[w] = "next" /\ d \in batch[w]
    /\ \/ /\ status = "active"
          /\ wpc' = [wpc EXCEPT ![w] = "post"]
          /\ job' = [job EXCEPT ![w] = d]
          /\ UNCHANGED <<batch, num, out, slips>>
       \/ status # "active" /\ Record(w, d, "undeliverable") /\ UNCHANGED slips
       \/ Slip /\ Record(w, d, "nohook")
    /\ UNCHANGED <<hookVars, dispVars, rowVars, accepted, posts>>

\* Mutant: any answer counts as success.
IsSuccessAnyAnswer(code) == code # "error"

\* resp.StatusCode >= 200 && resp.StatusCode < 300
IsSuccess(code) == code = "2xx"

\* The POST, and the endpoint's answer: 2xx, another status, or an error.
Post(w, code) ==
    LET d == job[w] IN
    /\ wpc[w] = "post"
    /\ posts' = [posts EXCEPT ![d] = @ + 1]
    /\ accepted' = IF code = "2xx" THEN accepted \cup {d} ELSE accepted
    /\ Record(w, d, IF IsSuccess(code) THEN "ok" ELSE "failed")
    /\ UNCHANGED <<hookVars, dispVars, rowVars, slips>>

\* Mutant: one retry more than MaxAttempts allows.
NextRetryDelayLong(n) == n > 0 /\ n <= MaxAttempts

\* NextRetryDelay(n) has an answer.
NextRetryDelay(n) == n > 0 /\ n < MaxAttempts

Retries(w) == out[w] \in {"failed", "nohook"} /\ NextRetryDelay(num[w][job[w]])

\* MarkDelivered or MarkFailed: WHERE id = .., whatever the row's status is.
Settled(w, row) ==
    CASE out[w] = "ok" -> [row EXCEPT !.status = "delivered"]
      [] Retries(w)    -> [row EXCEPT !.status = "pending", !.due = FALSE]
      [] OTHER         -> [row EXCEPT !.status = "abandoned"]

\* processDelivery returns.
Forget(w) ==
    /\ batch' = [batch EXCEPT ![w] = @ \ {job[w]}]
    /\ num' = [num EXCEPT ![w][job[w]] = 0]
    /\ job' = [job EXCEPT ![w] = NoDelivery]
    /\ out' = [out EXCEPT ![w] = "none"]

\* Mutant: the loop never notices that the batch is done.
DoneNeverIdle(w) ==
    /\ wpc' = [wpc EXCEPT ![w] = "next"]
    /\ Forget(w)

\* On to the next delivery of the batch, or to sleep until the next poll.
Done(w) ==
    /\ wpc' = [wpc EXCEPT ![w] = IF batch[w] = {job[w]} THEN "idle" ELSE "next"]
    /\ Forget(w)

\* The first statement of processDelivery's tail; its error is ignored, and
\* success or exhaustion is then written to the webhook too.
Mark(w) ==
    /\ wpc[w] = "mark"
    /\ \/ /\ delivs' = [delivs EXCEPT ![job[w]] =
                           IF Exists(job[w]) THEN Settled(w, @) ELSE @]
          /\ UNCHANGED slips
       \/ Slip /\ UNCHANGED delivs
    /\ IF out[w] = "ok" \/ (out[w] = "failed" /\ ~Retries(w))
         THEN /\ wpc' = [wpc EXCEPT ![w] = "hook"]
              /\ UNCHANGED <<batch, num, job, out>>
         ELSE Done(w)
    /\ UNCHANGED <<hookVars, dispVars, reclaims, accepted, posts>>

\* Mutant: no return after UpdateSuccess, and recordFailure follows.
MarkHookRunsOn(w) ==
    /\ wpc[w] = "hook" /\ out[w] = "ok"
    /\ wpc' = [wpc EXCEPT ![w] = "mark"]
    /\ out' = [out EXCEPT ![w] = "failed"]
    /\ UNCHANGED <<hookVars, dispVars, rowVars, batch, num, job, slips, accepted, posts>>

\* UpdateSuccess or UpdateStatus(failing); a deleted webhook stays deleted.
MarkHook(w) ==
    LET h == job[w][2]
        s == IF out[w] = "ok" THEN "active" ELSE "failing" IN
    /\ wpc[w] = "hook"
    /\ \/ /\ hooks[h].status # "deleted"
          /\ hooks' = [hooks EXCEPT ![h].status = s]
          /\ failed' = IF s = "failing" THEN failed \cup {h} ELSE failed
          /\ UNCHANGED slips
       \/ /\ hooks[h].status = "deleted"
          /\ UNCHANGED <<hooks, failed, slips>>
       \/ Slip /\ UNCHANGED <<hooks, failed>>
    /\ Done(w)
    /\ UNCHANGED <<rhooks, reg, unseen, dispVars, rowVars, accepted, posts>>

\* The pod dies, or its context is cancelled on shutdown.
WorkerCrash(w) ==
    /\ wpc[w] # "idle" /\ Slip
    /\ wpc' = [wpc EXCEPT ![w] = "idle"]
    /\ batch' = [batch EXCEPT ![w] = {}]
    /\ num' = [num EXCEPT ![w] = [d \in Ids |-> 0]]
    /\ job' = [job EXCEPT ![w] = NoDelivery]
    /\ out' = [out EXCEPT ![w] = "none"]
    /\ UNCHANGED <<hookVars, dispVars, rowVars, accepted, posts>>

-----------------------------------------------------------------------------
(* Time                                                                    *)

FallDue(d) ==
    /\ Exists(d) /\ delivs[d].status = "pending" /\ ~delivs[d].due
    /\ delivs' = [delivs EXCEPT ![d].due = TRUE]
    /\ UNCHANGED <<hookVars, dispVars, workVars, reclaims, slips, accepted, posts>>

\* deliveryClaimTimeout passes; with a worker still on the batch that is a slip.
GoStale(d) ==
    /\ Exists(d) /\ delivs[d].status = "delivering" /\ ~delivs[d].stale
    /\ delivs' = [delivs EXCEPT ![d].stale = TRUE]
    /\ IF \E w \in Workers : d \in batch[w] THEN Slip ELSE UNCHANGED slips
    /\ UNCHANGED <<hookVars, dispVars, workVars, reclaims, accepted, posts>>

-----------------------------------------------------------------------------
Init ==
    /\ hooks = [h \in Hooks |-> [status |-> "none", events |-> {}]]
    /\ rhooks = hooks
    /\ delivs = [d \in Ids |-> NoDelivery]
    /\ reg = {} /\ failed = {} /\ unseen = {}
    /\ todo = [e \in Events |-> {}] /\ fresh = Events
    /\ aimed = todo /\ cut = {}
    /\ wpc = [w \in Workers |-> "idle"]
    /\ batch = [w \in Workers |-> {}]
    /\ num = [w \in Workers |-> [d \in Ids |-> 0]]
    /\ job = [w \in Workers |-> NoDelivery]
    /\ out = [w \in Workers |-> "none"]
    /\ slips = 0
    /\ accepted = {}
    /\ posts = [d \in Ids |-> 0]
    /\ reclaims = [d \in Ids |-> 0]

WorkerStep(w) ==
    \/ \E d \in Ids : LoadHook(w, d)
    \/ \E code \in {"2xx", "other", "error"} : Post(w, code)
    \/ Mark(w) \/ MarkHook(w) \/ WorkerCrash(w)

Next ==
    \/ \E g \in Registrars : \/ RegisterCheck(g) \/ RegisterError(g)
                             \/ \E es \in SUBSET EventTypes : RegisterCreate(g, es)
    \/ \E h \in Hooks : DeleteHook(h) \/ ReplicateHook(h)
    \/ \E e \in Events : \/ \E t \in EventTypes : Dispatch(e, t)
                         \/ \E h \in Hooks : CreateDelivery(e, h) \/ CreateError(e, h)
    \/ \E w \in Workers : ClaimPending(w) \/ WorkerStep(w)
    \/ \E d \in Ids : FallDue(d) \/ GoStale(d)

Spec == Init /\ [][Next]_vars

\* The poll loop runs while the pod does, time passes, a dispatch goes on.
Fairness ==
    /\ \A w \in Workers : WF_vars(ClaimPending(w)) /\ WF_vars(WorkerStep(w))
    /\ \A d \in Ids : WF_vars(FallDue(d)) /\ WF_vars(GoStale(d))
    /\ \A e \in Events : WF_vars(\E h \in Hooks : CreateDelivery(e, h) \/ CreateError(e, h))

FairSpec == Spec /\ Fairness

-----------------------------------------------------------------------------
(* Properties                                                              *)

\* Kinds of values, and a worker that is not asleep has a claimed delivery to
\* work on (worker.go's loop over the batch).
TypeOK ==
    /\ hooks \in [Hooks -> Hook] /\ rhooks \in [Hooks -> Hook]
    /\ delivs \in [Ids -> Delivery \cup {NoDelivery}]
    /\ reg \subseteq Registrars /\ failed \subseteq Hooks /\ unseen \subseteq Hooks
    /\ aimed \in [Events -> SUBSET Hooks] /\ cut \subseteq Events
    /\ todo \in [Events -> SUBSET Hooks] /\ fresh \subseteq Events
    /\ wpc \in [Workers -> {"idle", "next", "post", "mark", "hook"}]
    /\ batch \in [Workers -> SUBSET Ids]
    /\ num \in [Workers -> [Ids -> Nat]]
    /\ job \in [Workers -> Ids \cup {NoDelivery}]
    /\ out \in [Workers -> {"none", "ok", "failed", "nohook", "undeliverable"}]
    /\ slips \in 0 .. MaxSlips
    /\ accepted \subseteq Ids /\ posts \in [Ids -> Nat] /\ reclaims \in [Ids -> Nat]
    /\ \A w \in Workers :
        /\ (wpc[w] = "idle") = (batch[w] = {})
        /\ wpc[w] \in {"post", "mark", "hook"} => job[w] \in batch[w]

\* A delivery counts as delivered only if its endpoint did answer 2xx, however
\* many workers have had their hands on it (processDelivery, MarkDelivered).
DeliveredWasAccepted ==
    \A d \in Ids : Exists(d) /\ delivs[d].status = "delivered" => d \in accepted

\* No delivery is given up before its attempts are used up, unless its webhook
\* has been set to failing or is gone (NextRetryDelay, IsDeliverable).
AbandonedIsExplained ==
    \A d \in Ids : Exists(d) /\ delivs[d].status = "abandoned"
        => delivs[d].attempts >= MaxAttempts \/ d[2] \in failed

\* A dispatch is cut short only by a fault, or by a hook that is deleted
\* between being read and being written for (Dispatch's returns).
CutIsExplained ==
    \A e \in cut : slips > 0 \/ \E h \in aimed[e] : hooks[h].status = "deleted"

\* A delivery is settled, either way, and a dispatch given up only for a reason.
SettledForAReason == DeliveredWasAccepted /\ AbandonedIsExplained /\ CutIsExplained

\* The workspace has more webhooks than the limit only by what registrations
\* racing one another add, and by those that a limit check did not see because
\* it reads the replica (CountByWorkspace, RegisterHandler.Handle).
LimitExplained ==
    Cardinality(Live(hooks) \ unseen) + Cardinality(reg)
        <= MaxWebhooks + Cardinality(Registrars) - 1

\* Two workers hold one delivery only after a stale claim was taken over
\* (ClaimPending's SKIP LOCKED and its status change).
ConcurrentOnlyAfterTimeout ==
    \A v, w \in Workers, d \in Ids :
        v # w /\ d \in batch[v] /\ d \in batch[w] => reclaims[d] > 0

\* The endpoint is called at most MaxAttempts times, and once more for every
\* claim that went stale (MaxAttempts, ClaimPending).
PostsBounded == \A d \in Ids : posts[d] <= MaxAttempts + reclaims[d]

\* A claim keeps the other workers and further posts away until it goes stale.
ClaimsHold == ConcurrentOnlyAfterTimeout /\ PostsBounded

\* A delivered row changes again only under a worker whose claim had gone
\* stale (MarkFailed has no condition on the status).
DeliveredIsFinal ==
    [][\A d \in Ids :
         /\ Exists(d) /\ delivs[d].status = "delivered"
         /\ delivs'[d] # delivs[d] /\ delivs'[d] # NoDelivery
         => reclaims[d] > 0]_vars

\* Every hook found for an event gets a delivery and every delivery is settled
\* in the end, through crashes of workers, lost statements and late answers,
\* unless the hook is deleted or the dispatch was cut short before it (Dispatch,
\* Run, the stale branch of ClaimPending).
EventuallySettled ==
    <>[](\A e \in Events, h \in Hooks :
            LET d == <<e, h>> IN
            /\ Exists(d) => delivs[d].status \in {"delivered", "abandoned"}
            /\ h \in aimed[e] /\ ~Exists(d) => hooks[h].status = "deleted" \/ e \in cut)

=============================================================================
