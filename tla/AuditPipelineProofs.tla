------------------------- MODULE AuditPipelineProofs -------------------------
(***************************************************************************)
(* The audit trail, for any number of requests, any capacity and any batch *)
(* size: no event is written or counted twice, and what a stopped pod has  *)
(* lost is explained.                                                      *)
(*                                                                         *)
(* The invariant says where every event is.  An event on its way is in one *)
(* place only, the channel, the drainer's batch or what Shutdown took, and *)
(* is neither stored nor counted before it leaves it (Placed); a committed *)
(* operation's event is never nowhere (Accounted); and what main's steps   *)
(* leave behind decides where events can still be at the exit (Stopping).  *)
(***************************************************************************)
EXTENDS AuditPipeline, FiniteSetTheorems, TLAPS

USE AuditConstants

\* The drainer's loop receives only into a batch that is not full.
RoomInBatch == dpc = "select" => Cardinality(batch) < BatchSize

OnTheWay == channel \cup batch \cup rest

\* An event is in one place, captured once, and nothing has become of it yet.
Placed ==
    /\ channel \cap batch = {} /\ channel \cap rest = {} /\ batch \cap rest = {}
    /\ \A e \in OnTheWay : rpc[e] = "over" /\ inserts[e] = 0 /\ e \notin reported
    /\ \A r \in Requests : rpc[r] # "over" => inserts[r] = 0 /\ r \notin reported
    /\ WrittenOnce

\* The event of a committed operation is somewhere.
Accounted ==
    \A r \in committed : \/ rpc[r] = "done" \/ r \in OnTheWay
                         \/ inserts[r] > 0 \/ r \in reported \/ r \in logged

CountedOnce == dropped = Cardinality(reported)

\* What is over by the time main has come to each of its steps.
Stopping ==
    /\ spc \notin {"up", "stopping"} /\ ~hurried => Unfinished = {}
    /\ spc \in {"write", "closing", "exit"} /\ ~hurried => channel = {}
    /\ spc \notin {"draining", "write"} => rest = {}
    /\ spc = "exit" => dpc # "insert"

IInv == TypeOK /\ RoomInBatch /\ Placed /\ Accounted /\ CountedOnce /\ Stopping

-----------------------------------------------------------------------------
(* Operators                                                               *)

LEMMA RequestSets ==
    \A S \in SUBSET Requests : IsFiniteSet(S) /\ Cardinality(S) \in Nat
BY FS_Subset, FS_CardinalityType

LEMMA AddOne ==
    ASSUME NEW S \in SUBSET Requests, NEW x
    PROVE  /\ Cardinality(S) \in Nat /\ Cardinality(S \cup {x}) \in Nat
           /\ Cardinality(S \cup {x}) <= Cardinality(S) + 1
<1>1. IsFiniteSet(S) /\ Cardinality(S) \in Nat
  BY RequestSets
<1>2. Cardinality(S \cup {x}) = IF x \in S THEN Cardinality(S) ELSE Cardinality(S) + 1
  BY <1>1, FS_AddElement
<1> QED
  BY <1>1, <1>2

LEMMA RemoveOne ==
    ASSUME NEW S \in SUBSET Requests, NEW x
    PROVE  Cardinality(S \ {x}) <= Cardinality(S)
BY RequestSets, FS_Subset

\* Events that have not been counted are counted one by one.
LEMMA DropCounts ==
    ASSUME TypeOK, CountedOnce, NEW S \in SUBSET Requests, S \cap reported = {}, Drop(S)
    PROVE  dropped' = Cardinality(reported') /\ dropped' \in Nat /\ reported' \subseteq Requests
<1>1. /\ IsFiniteSet(S) /\ IsFiniteSet(reported) /\ S \cap reported = {}
      /\ Cardinality(S) \in Nat /\ Cardinality(reported) \in Nat
  BY RequestSets DEF TypeOK
<1>2. Cardinality(reported \cup S)
        = Cardinality(reported) + Cardinality(S) - Cardinality(reported \cap S)
  BY <1>1, FS_Union
<1>3. Cardinality(reported \cap S) = 0
  BY <1>1, FS_EmptySet
<1> QED
  BY <1>1, <1>2, <1>3 DEF Drop, CountedOnce, TypeOK

\* What an INSERT leaves in the table, whatever its answer is.
LEMMA InsertEffect ==
    ASSUME TypeOK, NEW S \in SUBSET Requests, InsertOk(S) \/ InsertError(S)
    PROVE  /\ inserts' \in [Requests -> Nat] /\ faults' \in 0 .. MaxFaults
           /\ \A e \in Requests \ S : inserts'[e] = inserts[e]
           /\ \A e \in S : /\ inserts'[e] \in {inserts[e], inserts[e] + 1}
                           /\ InsertOk(S) => inserts'[e] = inserts[e] + 1
BY DEF InsertOk, InsertError, Inserted, TypeOK

\* A flush of the drainer's batch, whichever way it ends.
LEMMA FlushEffect ==
    ASSUME TypeOK, DrainerInsert \/ (DrainerAcquire /\ ~PoolOpen)
    PROVE  /\ inserts' \in [Requests -> Nat] /\ faults' \in 0 .. MaxFaults
           /\ \A e \in Requests \ batch : inserts'[e] = inserts[e]
           /\ \A e \in batch : inserts'[e] \in {inserts[e], inserts[e] + 1}
           /\ Drop(batch) \/ (UNCHANGED sumVars /\ \A e \in batch : inserts'[e] = inserts[e] + 1)
           /\ batch' = {} /\ dpc' \in {"exited", "select"}
           /\ UNCHANGED <<last, reqVars, channel, stopVars>>
<1>1. batch \in SUBSET Requests
  BY DEF TypeOK
<1>2. CASE DrainerInsert
  BY <1>1, <1>2, InsertEffect DEF DrainerInsert, FlushDone, ResetBatch
<1>3. CASE DrainerAcquire /\ ~PoolOpen
  BY <1>1, <1>3 DEF DrainerAcquire, FlushDone, ResetBatch, TypeOK, dbVars
<1> QED
  BY <1>2, <1>3

LEMMA ShutdownWriteEffect ==
    ASSUME TypeOK, ShutdownWrite
    PROVE  /\ inserts' \in [Requests -> Nat] /\ faults' \in 0 .. MaxFaults
           /\ \A e \in Requests \ rest : inserts'[e] = inserts[e]
           /\ \A e \in rest : inserts'[e] \in {inserts[e], inserts[e] + 1}
           /\ \/ logged' = logged \cup rest
              \/ logged' = logged /\ \A e \in rest : inserts'[e] = inserts[e] + 1
<1>1. rest \in SUBSET Requests
  BY DEF TypeOK
<1> QED
  BY <1>1, InsertEffect DEF ShutdownWrite, TypeOK, dbVars

-----------------------------------------------------------------------------
(* The invariant                                                           *)

LEMMA InitInv == Init => IInv
<1> SUFFICES ASSUME Init PROVE IInv
  OBVIOUS
<1>1. Cardinality({}) = 0
  BY FS_EmptySet
<1>2. TypeOK
  <2>1. /\ rpc \in [Requests -> {"new", "running", "query", "done", "failed", "over"}]
        /\ inserts \in [Requests -> Nat]
    BY DEF Init
  <2>2. Cardinality(channel) <= Capacity /\ Cardinality(batch) <= BatchSize
    BY <1>1 DEF Init
  <2>3. faults \in 0 .. MaxFaults /\ dropped \in Nat
    BY DEF Init
  <2>4. last \in BOOLEAN /\ expired \in BOOLEAN /\ hurried \in BOOLEAN
    BY DEF Init
  <2> QED
    BY <2>1, <2>2, <2>3, <2>4 DEF Init, TypeOK
<1>3. RoomInBatch /\ CountedOnce
  BY <1>1 DEF Init, RoomInBatch, CountedOnce
<1>4. Placed /\ Accounted /\ Stopping
  BY DEF Init, Placed, Accounted, Stopping, OnTheWay, WrittenOnce
<1> QED
  BY <1>2, <1>3, <1>4 DEF IInv

LEMMA NextType ==
    TypeOK /\ RoomInBatch /\ Placed /\ CountedOnce /\ [Next]_vars
        => TypeOK' /\ RoomInBatch' /\ CountedOnce'
<1> SUFFICES ASSUME TypeOK, RoomInBatch, Placed, CountedOnce, [Next]_vars
             PROVE  TypeOK' /\ RoomInBatch' /\ CountedOnce'
  OBVIOUS
<1> USE DEF reqVars, drainVars, stopVars, sumVars, dbVars
<1>1. ASSUME NEW r \in Requests, Arrive(r) \/ Acquire(r) \/ Operate(r)
      PROVE  TypeOK' /\ RoomInBatch' /\ CountedOnce'
  <2>1. UNCHANGED <<channel, drainVars, stopVars, sumVars, dbVars>>
    BY <1>1 DEF Arrive, Acquire, Operate
  <2>2. rpc' \in [Requests -> {"new", "running", "query", "done", "failed", "over"}]
        /\ committed' \subseteq Requests
    BY <1>1 DEF Arrive, Acquire, Operate, TypeOK
  <2> QED
    BY <2>1, <2>2 DEF TypeOK, RoomInBatch, CountedOnce
<1>2. ASSUME NEW r \in Requests, Finish(r)
      PROVE  TypeOK' /\ RoomInBatch' /\ CountedOnce'
  <2>1. channel \in SUBSET Requests /\ {r} \in SUBSET Requests
    BY DEF TypeOK
  <2>2. Cardinality(channel') <= Capacity
    <3>1. CASE channel' = channel
      BY <3>1 DEF TypeOK
    <3>2. CASE HasRoom /\ channel' = channel \cup {r}
      BY <2>1, <3>2, AddOne DEF HasRoom
    <3> QED
      BY <1>2, <3>1, <3>2 DEF Finish
  <2>3. dropped' = Cardinality(reported') /\ dropped' \in Nat /\ reported' \subseteq Requests
        /\ logged' = logged
    <3>1. CASE UNCHANGED sumVars
      BY <3>1 DEF TypeOK, CountedOnce
    <3>2. CASE rpc[r] = "done" /\ Drop({r})
      <4>1. {r} \cap reported = {}
        BY <3>2 DEF Placed
      <4> QED
        BY <2>1, <3>2, <4>1, DropCounts DEF Drop
    <3> QED
      BY <1>2, <3>1, <3>2 DEF Finish
  <2> QED
    BY <1>2, <2>2, <2>3 DEF Finish, TypeOK, RoomInBatch, CountedOnce
<1>3. ASSUME NEW e \in Requests, Receive(e)
      PROVE  TypeOK' /\ RoomInBatch' /\ CountedOnce'
  <2>1. channel \in SUBSET Requests /\ batch \in SUBSET Requests
    BY DEF TypeOK
  <2>2. /\ Cardinality(batch) \in Nat /\ Cardinality(batch \cup {e}) \in Nat
        /\ Cardinality(batch \cup {e}) <= Cardinality(batch) + 1
        /\ Cardinality(channel \ {e}) <= Capacity
    <3>1. Cardinality(channel \ {e}) <= Cardinality(channel)
      BY <2>1, RemoveOne
    <3>2. Cardinality(channel) \in Nat /\ Cardinality(channel \ {e}) \in Nat
      BY <2>1, RequestSets
    <3> QED
      BY <2>1, <3>1, <3>2, AddOne DEF TypeOK
  <2>3. Cardinality(batch) < BatchSize
    BY <1>3 DEF Receive, RoomInBatch
  <2>4. RoomInBatch' /\ Cardinality(batch') <= BatchSize
    BY <1>3, <2>2, <2>3 DEF Receive, RoomInBatch
  <2> QED
    BY <1>3, <2>2, <2>4 DEF Receive, TypeOK, CountedOnce
<1>4. CASE Tick \/ Cancel
  BY <1>4 DEF Tick, Cancel, TypeOK, RoomInBatch, CountedOnce
<1>5. CASE DrainerAcquire /\ PoolOpen
  BY <1>5 DEF DrainerAcquire, TypeOK, RoomInBatch, CountedOnce
<1>6. CASE DrainerInsert \/ (DrainerAcquire /\ ~PoolOpen)
  <2>1. batch \in SUBSET Requests /\ batch \cap reported = {}
    BY DEF TypeOK, Placed, OnTheWay
  <2>2. dropped' = Cardinality(reported') /\ dropped' \in Nat /\ reported' \subseteq Requests
        /\ logged' = logged
    <3>1. CASE UNCHANGED sumVars
      BY <3>1 DEF TypeOK, CountedOnce
    <3>2. CASE Drop(batch)
      BY <2>1, <3>2, DropCounts DEF Drop
    <3> QED
      BY <1>6, <3>1, <3>2, FlushEffect
  <2>3. Cardinality(batch') = 0
    BY <1>6, FlushEffect, FS_EmptySet
  <2> QED
    BY <1>6, <2>2, <2>3, FlushEffect DEF TypeOK, RoomInBatch, CountedOnce
<1>7. CASE Signal \/ Expire \/ StopServer \/ StopAudit \/ ShutdownDrained \/ Exit
  BY <1>7 DEF Signal, Expire, StopServer, StopAudit, ShutdownDrained, Exit, TypeOK,
              RoomInBatch, CountedOnce
<1>8. ASSUME NEW e \in Requests, ShutdownReceive(e)
      PROVE  TypeOK' /\ RoomInBatch' /\ CountedOnce'
  <2>1. Cardinality(channel \ {e}) <= Capacity
    <3>1. channel \in SUBSET Requests
      BY DEF TypeOK
    <3>2. Cardinality(channel) \in Nat /\ Cardinality(channel \ {e}) \in Nat
          /\ Cardinality(channel \ {e}) <= Cardinality(channel)
      BY <3>1, RemoveOne, RequestSets
    <3> QED
      BY <3>2 DEF TypeOK
  <2> QED
    BY <1>8, <2>1 DEF ShutdownReceive, TypeOK, RoomInBatch, CountedOnce
<1>9. CASE ShutdownWrite
  <2>1. logged' \subseteq Requests
    BY <1>9, ShutdownWriteEffect DEF TypeOK
  <2> QED
    BY <1>9, <2>1, ShutdownWriteEffect DEF ShutdownWrite, TypeOK, RoomInBatch, CountedOnce
<1>10. CASE UNCHANGED vars
  BY <1>10 DEF vars, TypeOK, RoomInBatch, CountedOnce
<1> QED
  BY <1>1, <1>2, <1>3, <1>4, <1>5, <1>6, <1>7, <1>8, <1>9, <1>10
  DEF Next, HandlerStep, DrainerStep, ShutdownStep

\* Each event moves from one place to the next, and only Finish, a flush or
\* Shutdown's write decides what becomes of it.
LEMMA NextPlaced ==
    TypeOK /\ Placed /\ [Next]_vars => Placed'
<1> SUFFICES ASSUME TypeOK, Placed, [Next]_vars PROVE Placed'
  OBVIOUS
<1> USE DEF reqVars, drainVars, stopVars, sumVars, dbVars, OnTheWay, WrittenOnce
<1>1. ASSUME NEW r \in Requests, Arrive(r) \/ Acquire(r) \/ Operate(r) PROVE Placed'
  <2>1. UNCHANGED <<channel, drainVars, stopVars, sumVars, dbVars>>
    BY <1>1 DEF Arrive, Acquire, Operate
  <2>2. \A x \in Requests : rpc'[x] = "over" <=> rpc[x] = "over"
    BY <1>1 DEF Arrive, Acquire, Operate, TypeOK
  <2>3. \A e \in OnTheWay : e \in Requests
    BY DEF TypeOK
  <2> QED
    BY <2>1, <2>2, <2>3 DEF Placed
<1>2. ASSUME NEW r \in Requests, Finish(r) PROVE Placed'
  <2>1. rpc[r] # "over" /\ r \notin OnTheWay /\ inserts[r] = 0 /\ r \notin reported
    BY <1>2 DEF Finish, Placed
  <2>2. rpc'[r] = "over" /\ \A x \in Requests : x # r => rpc'[x] = rpc[x]
    BY <1>2 DEF Finish, TypeOK
  <2>3. UNCHANGED <<drainVars, stopVars, dbVars>>
        /\ \/ UNCHANGED <<channel, reported>>
           \/ channel' = channel \cup {r} /\ UNCHANGED reported
           \/ reported' = reported \cup {r} /\ UNCHANGED channel
    BY <1>2 DEF Finish, Drop
  <2>4. \A e \in OnTheWay : e \in Requests
    BY DEF TypeOK
  <2> QED
    BY <2>1, <2>2, <2>3, <2>4 DEF Placed
<1>3. ASSUME NEW e \in Requests, Receive(e) PROVE Placed'
  BY <1>3 DEF Receive, Placed
<1>4. CASE Tick \/ Cancel \/ (DrainerAcquire /\ PoolOpen)
  BY <1>4 DEF Tick, Cancel, DrainerAcquire, Placed
<1>5. CASE DrainerInsert \/ (DrainerAcquire /\ ~PoolOpen)
  <2>1. /\ batch' = {} /\ UNCHANGED <<rpc, channel, rest>>
        /\ reported' \in {reported, reported \cup batch}
    BY <1>5, FlushEffect DEF Drop
  <2>2. /\ \A x \in Requests \ batch : inserts'[x] = inserts[x]
        /\ \A x \in batch : inserts'[x] \in {0, 1}
    BY <1>5, FlushEffect DEF Placed
  <2>3. \A x \in channel \cup rest : x \in Requests \ batch
    BY DEF Placed, TypeOK
  <2> QED
    BY <2>1, <2>2, <2>3 DEF Placed
<1>6. CASE Signal \/ Expire \/ StopServer \/ StopAudit \/ ShutdownDrained \/ Exit
  BY <1>6 DEF Signal, Expire, StopServer, StopAudit, ShutdownDrained, Exit, Placed
<1>7. ASSUME NEW e \in Requests, ShutdownReceive(e) PROVE Placed'
  BY <1>7 DEF ShutdownReceive, Placed
<1>8. CASE ShutdownWrite
  <2>1. rest' = {} /\ UNCHANGED <<rpc, channel, batch, reported>>
    BY <1>8 DEF ShutdownWrite
  <2>2. /\ \A x \in Requests \ rest : inserts'[x] = inserts[x]
        /\ \A x \in rest : inserts'[x] \in {0, 1}
    BY <1>8, ShutdownWriteEffect DEF Placed
  <2>3. \A x \in channel \cup batch : x \in Requests \ rest
    BY DEF Placed, TypeOK
  <2> QED
    BY <2>1, <2>2, <2>3 DEF Placed
<1>9. CASE UNCHANGED vars
  BY <1>9 DEF vars, Placed
<1> QED
  BY <1>1, <1>2, <1>3, <1>4, <1>5, <1>6, <1>7, <1>8, <1>9
  DEF Next, HandlerStep, DrainerStep, ShutdownStep

LEMMA NextAccounted ==
    TypeOK /\ Accounted /\ [Next]_vars => Accounted'
<1> SUFFICES ASSUME TypeOK, Accounted, [Next]_vars PROVE Accounted'
  OBVIOUS
<1> USE DEF reqVars, drainVars, stopVars, sumVars, dbVars, OnTheWay
<1>0. committed \subseteq Requests /\ batch \subseteq Requests /\ rest \subseteq Requests
      /\ \A x \in Requests : inserts[x] \in Nat
  BY DEF TypeOK
<1>1. ASSUME NEW r \in Requests, Arrive(r) \/ Acquire(r) \/ Operate(r) PROVE Accounted'
  <2>1. UNCHANGED <<channel, drainVars, stopVars, sumVars, dbVars>>
    BY <1>1 DEF Arrive, Acquire, Operate
  <2>2. /\ \A x \in Requests : rpc[x] = "done" => rpc'[x] = "done"
        /\ \A x \in committed' : x \in committed \/ rpc'[x] = "done"
    BY <1>1 DEF Arrive, Acquire, Operate, TypeOK
  <2> QED
    BY <1>0, <2>1, <2>2 DEF Accounted
<1>2. ASSUME NEW r \in Requests, Finish(r) PROVE Accounted'
  <2>1. UNCHANGED <<committed, drainVars, stopVars, dbVars, logged>>
        /\ channel \subseteq channel' /\ reported \subseteq reported'
    BY <1>2 DEF Finish, Drop
  <2>2. \A x \in Requests : x # r => rpc'[x] = rpc[x]
    BY <1>2 DEF Finish, TypeOK
  <2>3. rpc[r] = "done" => r \in channel' \/ r \in reported'
    BY <1>2 DEF Finish, Drop
  <2> QED
    BY <1>0, <2>1, <2>2, <2>3 DEF Accounted
<1>3. ASSUME NEW e \in Requests, Receive(e) PROVE Accounted'
  BY <1>3 DEF Receive, Accounted
<1>4. CASE Tick \/ Cancel \/ (DrainerAcquire /\ PoolOpen)
  BY <1>4 DEF Tick, Cancel, DrainerAcquire, Accounted
<1>5. CASE DrainerInsert \/ (DrainerAcquire /\ ~PoolOpen)
  <2>1. /\ UNCHANGED <<rpc, committed, channel, rest>>
        /\ reported \subseteq reported' /\ logged' = logged
        /\ \A x \in batch : inserts'[x] > 0 \/ x \in reported'
    BY <1>0, <1>5, FlushEffect DEF Drop
  <2>2. \A x \in Requests : inserts[x] > 0 => inserts'[x] > 0
    BY <1>0, <1>5, FlushEffect
  <2> QED
    BY <1>0, <2>1, <2>2 DEF Accounted
<1>6. CASE Signal \/ Expire \/ StopServer \/ StopAudit \/ ShutdownDrained \/ Exit
  BY <1>6 DEF Signal, Expire, StopServer, StopAudit, ShutdownDrained, Exit, Accounted
<1>7. ASSUME NEW e \in Requests, ShutdownReceive(e) PROVE Accounted'
  BY <1>7 DEF ShutdownReceive, Accounted
<1>8. CASE ShutdownWrite
  <2>1. UNCHANGED <<rpc, committed, channel, batch, reported>>
    BY <1>8 DEF ShutdownWrite
  <2>2. /\ logged \subseteq logged'
        /\ \A x \in rest : inserts'[x] > 0 \/ x \in logged'
        /\ \A x \in Requests : inserts[x] > 0 => inserts'[x] > 0
    BY <1>0, <1>8, ShutdownWriteEffect
  <2> QED
    BY <1>0, <2>1, <2>2 DEF Accounted
<1>9. CASE UNCHANGED vars
  BY <1>9 DEF vars, Accounted
<1> QED
  BY <1>1, <1>2, <1>3, <1>4, <1>5, <1>6, <1>7, <1>8, <1>9
  DEF Next, HandlerStep, DrainerStep, ShutdownStep

\* A handler that srv.Shutdown has waited for does not start again.
LEMMA NextStopping ==
    TypeOK /\ Stopping /\ [Next]_vars => Stopping'
<1> SUFFICES ASSUME TypeOK, Stopping, [Next]_vars PROVE Stopping'
  OBVIOUS
<1> USE DEF reqVars, drainVars, stopVars, sumVars, dbVars
<1>0. spc \in {"up", "stopping", "stopped", "draining", "write", "closing", "exit"}
  BY DEF TypeOK
<1>1. ASSUME NEW r \in Requests, Arrive(r) PROVE Stopping'
  BY <1>1 DEF Arrive, Stopping
<1>2. ASSUME NEW r \in Requests, HandlerStep(r) PROVE Stopping'
  <2>1. UNCHANGED <<drainVars, stopVars>> /\ spc # "exit" /\ rpc[r] \notin {"new", "over"}
    BY <1>2 DEF HandlerStep, Acquire, Operate, Finish, Running
  <2>2. r \in Unfinished
    BY <2>1 DEF Unfinished
  <2> QED
    BY <1>0, <2>1, <2>2 DEF Stopping
<1>3. CASE DrainerStep
  <2>1. UNCHANGED <<rpc, stopVars>> /\ channel' \subseteq channel /\ spc # "exit"
    BY <1>3 DEF DrainerStep, Tick, Cancel, DrainerAcquire, DrainerInsert, FlushDone,
                Receive, Running
  <2>2. Unfinished' = Unfinished
    BY <2>1 DEF Unfinished
  <2> QED
    BY <2>1, <2>2 DEF Stopping
<1>4. CASE Signal
  BY <1>4 DEF Signal, Stopping
<1>5. CASE Expire
  BY <1>5 DEF Expire, Stopping, Unfinished
<1>6. CASE StopServer
  BY <1>6 DEF StopServer, Stopping, Unfinished
<1>7. CASE StopAudit
  BY <1>7 DEF StopAudit, Stopping, Unfinished
<1>8. CASE ShutdownDrained
  BY <1>8 DEF ShutdownDrained, Drained, Stopping, Unfinished
<1>9. ASSUME NEW e \in Requests, ShutdownReceive(e) PROVE Stopping'
  BY <1>9 DEF ShutdownReceive, Stopping, Unfinished
<1>10. CASE ShutdownWrite
  BY <1>10 DEF ShutdownWrite, Stopping, Unfinished
<1>11. CASE Exit
  BY <1>11 DEF Exit, ConnectionsReturned, Stopping, Unfinished
<1>12. CASE UNCHANGED vars
  BY <1>12 DEF vars, Stopping, Unfinished
<1> QED
  BY <1>1, <1>2, <1>3, <1>4, <1>5, <1>6, <1>7, <1>8, <1>9, <1>10, <1>11, <1>12
  DEF Next, ShutdownStep

LEMMA NextInv == IInv /\ [Next]_vars => IInv'
BY NextType, NextPlaced, NextAccounted, NextStopping DEF IInv

-----------------------------------------------------------------------------
(* The theorems                                                            *)

\* The inductive invariant holds through every order of handlers, drainer and
\* shutdown (runDrainer, Shutdown, main's shutdown sequence).
THEOREM InductiveCorrect == Spec => []IInv
BY InitInv, NextInv, PTL DEF Spec

\* Every variable stays of its kind, the channel within its capacity and the
\* batch within its size (maxChannelSize, defaultBatchSize).
THEOREM TypeCorrect == Spec => []TypeOK
<1>1. IInv => TypeOK
  BY DEF IInv
<1> QED
  BY <1>1, InductiveCorrect, PTL

\* For any number of requests, no event is stored or counted twice, and a
\* stopped pod has lost only the drainer's batch, unless srv.Shutdown gave up
\* on handlers (runDrainer, Shutdown, and the pool's Close in main).
THEOREM TrailIsExactCorrect == Spec => []TrailIsExact
<1>1. IInv => TrailIsExact
  <2> SUFFICES ASSUME IInv PROVE TrailIsExact
    OBVIOUS
  <2>1. WrittenOnce
    BY DEF IInv, Placed
  <2>2. DroppedIsExact
    BY DEF IInv, Placed, CountedOnce, DroppedIsExact, OnTheWay
  <2>3. ASSUME spc = "exit"
        PROVE  /\ committed \ (Stored \cup reported \cup logged) \subseteq
                    batch \cup (IF hurried THEN channel \cup Unfinished ELSE {})
               /\ dpc # "insert"
    <3>1. rest = {} /\ dpc # "insert" /\ (~hurried => Unfinished = {} /\ channel = {})
      BY <2>3 DEF IInv, Stopping
    <3>2. \A r \in committed : r \in Requests /\ (rpc[r] = "done" => r \in Unfinished)
      BY DEF IInv, TypeOK, Unfinished
    <3>3. \A r \in committed : \/ r \in Unfinished \/ r \in channel \/ r \in batch
                               \/ r \in Stored \/ r \in reported \/ r \in logged
      BY <3>1, <3>2 DEF IInv, Accounted, OnTheWay, Stored
    <3> QED
      BY <3>1, <3>3
  <2> QED
    BY <2>1, <2>2, <2>3 DEF TrailIsExact, NothingTwice, LossIsExplained
<1> QED
  BY <1>1, InductiveCorrect, PTL

=============================================================================
