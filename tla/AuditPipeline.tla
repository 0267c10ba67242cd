---------------------------- MODULE AuditPipeline ----------------------------
(***************************************************************************)
(* The API's audit trail: write operations commit, the audit middleware    *)
(* captures an event for each one that succeeded, a drainer goroutine      *)
(* batches the events into audit_logs, and main's shutdown waits for the   *)
(* handlers, cancels the drainer, calls Shutdown, which does not wait for  *)
(* it, and closes the pool, which waits for every connection in use        *)
(* (middleware/audit.go, application/audit/service.go, cmd/api/main.go,    *)
(* postgres/audit_repository.go, postgres/client.go).                      *)
(*                                                                         *)
(* A request stands for its event; the channel is a set, since no property *)
(* depends on the order of events.                                         *)
(***************************************************************************)
EXTENDS Naturals, FiniteSets

CONSTANTS Requests,    \* write requests
          Capacity,    \* maxChannelSize
          BatchSize,   \* defaultBatchSize
          MaxFaults,   \* bound: failed INSERTs
          MayTimeOut   \* the shutdown context may expire

ASSUME AuditConstants ==
    /\ Capacity \in Nat \ {0} /\ BatchSize \in Nat \ {0}
    /\ MaxFaults \in Nat /\ MayTimeOut \in BOOLEAN
    /\ IsFiniteSet(Requests)

VARIABLES
    rpc,       \* each request: "new", "running", "query" (it has a connection),
               \* "done" or "failed" (the handler has returned), "over"
    channel,   \* events in the channel
    batch,     \* the drainer's batch
    dpc,       \* the drainer: "select", "write", "insert" (it has a connection), "exited"
    last,      \* its context is cancelled: the flush under way is the last
    rest,      \* what Shutdown has taken out of the channel
    spc,       \* main: "up", "stopping", "stopped", "draining", "write",
               \* "closing", "exit"
    expired,   \* shutdownCtx has run out
    dropped,   \* droppedEvents
    inserts,   \* INSERTs committed for each event
    faults,    \* failed INSERTs so far
    \* History, read by the properties only:
    committed, \* requests whose operation took effect
    reported,  \* events counted in droppedEvents
    logged,    \* events that Shutdown could not write, only logged
    hurried    \* srv.Shutdown gave up waiting for the handlers

reqVars   == <<rpc, committed>>
drainVars == <<batch, dpc, last>>
stopVars  == <<rest, spc, expired, hurried>>
sumVars   == <<dropped, reported, logged>>
dbVars    == <<inserts, faults>>
vars == <<reqVars, channel, drainVars, stopVars, sumVars, dbVars>>

Running == spc # "exit"

-----------------------------------------------------------------------------
(* Requests and the audit middleware                                       *)

\* No request is taken any more once srv.Shutdown has been called.
Arrive(r) ==
    /\ spc = "up" /\ rpc[r] = "new"
    /\ rpc' = [rpc EXCEPT ![r] = "running"]
    /\ UNCHANGED <<committed, channel, drainVars, stopVars, sumVars, dbVars>>

\* A pool that is being closed hands out no connection.
PoolOpen == spc \notin {"closing", "exit"}

Acquire(r) ==
    /\ Running /\ rpc[r] = "running"
    /\ rpc' = [rpc EXCEPT ![r] = IF PoolOpen THEN "query" ELSE "failed"]
    /\ UNCHANGED <<committed, channel, drainVars, stopVars, sumVars, dbVars>>

\* The handler ends: a 2xx answer to an annotated write, or anything else.
Operate(r) ==
    /\ Running /\ rpc[r] = "query"
    /\ \/ rpc' = [rpc EXCEPT ![r] = "done"] /\ committed' = committed \cup {r}
       \/ rpc' = [rpc EXCEPT ![r] = "failed"] /\ UNCHANGED committed
    /\ UNCHANGED <<channel, drainVars, stopVars, sumVars, dbVars>>

\* Mutant: one event more than the channel holds.
HasRoomOffByOne == Cardinality(channel) <= Capacity

\* Is the channel send possible without blocking?
HasRoom == Cardinality(channel) < Capacity

\* Count the events of S as dropped.
Drop(S) ==
    /\ dropped' = dropped + Cardinality(S)
    /\ reported' = reported \cup S
    /\ UNCHANGED logged

\* The middleware after the handler: only what succeeded is captured.
Finish(r) ==
    /\ Running /\ rpc[r] \in {"done", "failed"}
    /\ rpc' = [rpc EXCEPT ![r] = "over"]
    /\ \/ rpc[r] = "done" /\ HasRoom /\ channel' = channel \cup {r} /\ UNCHANGED sumVars
       \/ rpc[r] = "done" /\ ~HasRoom /\ Drop({r}) /\ UNCHANGED channel
       \/ rpc[r] = "failed" /\ UNCHANGED <<channel, sumVars>>
    /\ UNCHANGED <<committed, drainVars, stopVars, dbVars>>

-----------------------------------------------------------------------------
(* WriteMany: one INSERT                                                   *)

Inserted(S) == [e \in Requests |-> IF e \in S THEN inserts[e] + 1 ELSE inserts[e]]

InsertOk(S) == inserts' = Inserted(S) /\ UNCHANGED faults

\* The statement fails, or its answer is lost after the commit.
InsertError(S) ==
    /\ faults < MaxFaults /\ faults' = faults + 1
    /\ inserts' \in {inserts, Inserted(S)}

-----------------------------------------------------------------------------
(* runDrainer                                                              *)

Receive(e) ==
    /\ Running /\ dpc = "select" /\ e \in channel
    /\ channel' = channel \ {e}
    /\ batch' = batch \cup {e}
    /\ dpc' = IF Cardinality(batch) + 1 >= BatchSize THEN "write" ELSE "select"
    /\ UNCHANGED <<last, reqVars, stopVars, sumVars, dbVars>>

\* Mutant: the ticker only writes full batches.
TickerOnlyFull == Cardinality(batch) >= BatchSize

\* The ticker finds something to flush.
TickerFlushes == batch # {}

Tick ==
    /\ Running /\ dpc = "select" /\ TickerFlushes
    /\ dpc' = "write"
    /\ UNCHANGED <<reqVars, channel, batch, last, stopVars, sumVars, dbVars>>

\* auditCancel has been called.
Cancelled == spc \notin {"up", "stopping", "stopped"}

\* ctx.Done: the last flush, and the drainer ends.
Cancel ==
    /\ Running /\ dpc = "select" /\ Cancelled
    /\ dpc' = IF batch = {} THEN "exited" ELSE "write"
    /\ last' = TRUE
    /\ UNCHANGED <<reqVars, channel, batch, stopVars, sumVars, dbVars>>

\* Mutant: the batch is reset only where its failure is handled.
KeepWrittenBatch == batch' = IF faults' > faults THEN {} ELSE batch

\* batch = batch[:0], whether the write succeeded or not.
ResetBatch == batch' = {}

\* flush returns, to the loop or for good.
FlushDone ==
    /\ ResetBatch
    /\ dpc' = IF last THEN "exited" ELSE "select"
    /\ UNCHANGED <<last, reqVars, channel, stopVars>>

\* WriteMany acquires a connection, or learns that the pool is closed.
DrainerAcquire ==
    /\ Running /\ dpc = "write"
    /\ \/ /\ PoolOpen /\ dpc' = "insert"
          /\ UNCHANGED <<reqVars, channel, batch, last, stopVars, sumVars, dbVars>>
       \/ ~PoolOpen /\ UNCHANGED dbVars /\ Drop(batch) /\ FlushDone

\* The INSERT is answered, within writeCtx's ten seconds.
DrainerInsert ==
    /\ Running /\ dpc = "insert"
    /\ \/ InsertOk(batch) /\ UNCHANGED sumVars
       \/ InsertError(batch) /\ Drop(batch)
    /\ FlushDone

-----------------------------------------------------------------------------
(* main's shutdown                                                         *)

\* SIGTERM: shutdownCtx starts, and srv.Shutdown.
Signal ==
    /\ spc = "up" /\ spc' = "stopping"
    /\ UNCHANGED <<reqVars, channel, drainVars, rest, expired, hurried, sumVars, dbVars>>

Expire ==
    /\ MayTimeOut /\ ~expired /\ spc \notin {"up", "exit"}
    /\ expired' = TRUE
    /\ UNCHANGED <<reqVars, channel, drainVars, rest, spc, hurried, sumVars, dbVars>>

Unfinished == {r \in Requests : rpc[r] \notin {"new", "over"}}

\* srv.Shutdown returns: every handler is over, or the context has expired.
StopServer ==
    /\ spc = "stopping" /\ (Unfinished = {} \/ expired)
    /\ spc' = "stopped" /\ hurried' = (Unfinished # {})
    /\ UNCHANGED <<reqVars, channel, drainVars, rest, expired, sumVars, dbVars>>

\* auditCancel, and Shutdown begins.
StopAudit ==
    /\ spc = "stopped" /\ spc' = "draining"
    /\ UNCHANGED <<reqVars, channel, drainVars, rest, expired, hurried, sumVars, dbVars>>

ShutdownReceive(e) ==
    /\ spc = "draining" /\ e \in channel
    /\ channel' = channel \ {e}
    /\ rest' = rest \cup {e}
    /\ UNCHANGED <<reqVars, drainVars, spc, expired, hurried, sumVars, dbVars>>

\* Mutant: a receive without a default branch, which blocks once it is empty.
DrainedBlocks == FALSE

\* The select's default branch.
Drained == channel = {}

ShutdownDrained ==
    /\ spc = "draining" /\ Drained
    /\ spc' = IF rest = {} THEN "closing" ELSE "write"
    /\ UNCHANGED <<reqVars, channel, drainVars, rest, expired, hurried, sumVars, dbVars>>

\* Shutdown's WriteMany, on what is left of shutdownCtx; a failure is logged,
\* not counted.
ShutdownWrite ==
    /\ spc = "write" /\ spc' = "closing"
    /\ \/ ~expired /\ InsertOk(rest) /\ UNCHANGED logged
       \/ ~expired /\ InsertError(rest) /\ logged' = logged \cup rest
       \/ expired /\ logged' = logged \cup rest /\ UNCHANGED dbVars
    /\ rest' = {}
    /\ UNCHANGED <<reqVars, channel, drainVars, expired, hurried, dropped, reported>>

\* pgxpool.Close waits for every connection to come back.
ConnectionsReturned == dpc # "insert" /\ \A r \in Requests : rpc[r] # "query"

\* The pool is closed and main returns: every goroutine ends where it is.
Exit ==
    /\ spc = "closing" /\ ConnectionsReturned
    /\ spc' = "exit"
    /\ UNCHANGED <<reqVars, channel, drainVars, rest, expired, hurried, sumVars, dbVars>>

-----------------------------------------------------------------------------
Init ==
    /\ rpc = [r \in Requests |-> "new"] /\ committed = {}
    /\ channel = {} /\ batch = {} /\ dpc = "select" /\ last = FALSE
    /\ rest = {} /\ spc = "up" /\ expired = FALSE /\ hurried = FALSE
    /\ dropped = 0 /\ reported = {} /\ logged = {}
    /\ inserts = [r \in Requests |-> 0] /\ faults = 0

HandlerStep(r) == Acquire(r) \/ Operate(r) \/ Finish(r)

DrainerStep == Tick \/ Cancel \/ DrainerAcquire \/ DrainerInsert \/ \E e \in Requests : Receive(e)

ShutdownStep ==
    \/ StopServer \/ StopAudit \/ ShutdownDrained \/ ShutdownWrite \/ Exit
    \/ \E e \in Requests : ShutdownReceive(e)

Next ==
    \/ \E r \in Requests : Arrive(r) \/ HandlerStep(r)
    \/ DrainerStep
    \/ Signal \/ Expire \/ ShutdownStep

Spec == Init /\ [][Next]_vars

\* Goroutines run, the ticker ticks, and a handler ends within the router's
\* timeout; nothing makes requests arrive or the operator stop the pod.
Fairness ==
    /\ \A r \in Requests : WF_vars(HandlerStep(r))
    /\ WF_vars(DrainerStep)
    /\ WF_vars(ShutdownStep)

FairSpec == Spec /\ Fairness

-----------------------------------------------------------------------------
(* Properties                                                              *)

\* Kinds of values; the channel never exceeds its capacity nor a batch its
\* size, so neither make() of the code ever grows.
TypeOK ==
    /\ rpc \in [Requests -> {"new", "running", "query", "done", "failed", "over"}]
    /\ committed \subseteq Requests
    /\ channel \subseteq Requests /\ Cardinality(channel) <= Capacity
    /\ batch \subseteq Requests /\ Cardinality(batch) <= BatchSize
    /\ dpc \in {"select", "write", "insert", "exited"} /\ last \in BOOLEAN
    /\ rest \subseteq Requests
    /\ spc \in {"up", "stopping", "stopped", "draining", "write", "closing", "exit"}
    /\ expired \in BOOLEAN /\ hurried \in BOOLEAN
    /\ dropped \in Nat /\ reported \subseteq Requests /\ logged \subseteq Requests
    /\ inserts \in [Requests -> Nat] /\ faults \in 0 .. MaxFaults

Stored == {e \in Requests : inserts[e] > 0}

\* Nothing is written twice, although the drainer and Shutdown take events out
\* of the channel at the same time and a failed INSERT may have committed
\* (audit_logs has no ON CONFLICT clause: a repeat would fail the whole batch).
WrittenOnce == \A e \in Requests : inserts[e] <= 1

\* droppedEvents is the number of events that failed to get into the channel
\* or into the table, Shutdown's own failures excepted: none counted twice, and
\* none counted that is still on its way.
DroppedIsExact ==
    /\ dropped = Cardinality(reported)
    /\ reported \cap (channel \cup batch \cup rest) = {}

\* Every event is written once or counted once, and never both while it is
\* still on its way (runDrainer and Shutdown share the channel).
NothingTwice == WrittenOnce /\ DroppedIsExact

\* What a stopped pod leaves neither in the table nor counted nor logged is
\* the drainer's batch, which Shutdown does not wait for; events of the
\* channel or of a handler only if srv.Shutdown gave up waiting for handlers;
\* and never an INSERT under way, which the pool's Close waits for.
LossIsExplained ==
    spc = "exit" =>
        /\ committed \ (Stored \cup reported \cup logged) \subseteq
             batch \cup (IF hurried THEN channel \cup Unfinished ELSE {})
        /\ dpc # "insert"

\* One event is never two rows or two counts, and a stopped pod loses only
\* what LossIsExplained names.
TrailIsExact == NothingTwice /\ LossIsExplained

\* When no more requests come, every committed operation is in the table or
\* its loss reported in the end, unless main returned first (runDrainer).
EventuallyAudited ==
    <>[](committed \subseteq Stored \cup reported \cup logged \/ spc = "exit")

\* A pod told to stop does stop: the pool's Close waits for handlers and the
\* drainer, and each of them lets go of its connection whether its context
\* expires or not (main's shutdown sequence).
EventuallyStops == (spc = "stopping") ~> (spc = "exit")

=============================================================================
