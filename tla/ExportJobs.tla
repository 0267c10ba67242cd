----------------------------- MODULE ExportJobs -----------------------------
(***************************************************************************)
(* Analytics exports: the API creates a job row, the worker of some API    *)
(* pod claims it, streams the events of its window into a file on that     *)
(* pod's disk and completes the job with a signed download token, and any  *)
(* pod serves downloads from its own disk (application/export,             *)
(* postgres/export_repository.go, storage/local.go, pkg/signedurl,         *)
(* handler/export.go, cmd/api/main.go).                                    *)
(*                                                                         *)
(* A file is the number of rows in it.  Jobs are numbered in the order of  *)
(* their created_at.                                                       *)
(***************************************************************************)
EXTENDS Naturals, FiniteSets

CONSTANTS Pods,         \* API pods, each with one worker and one disk
          MaxJobs,      \* bound: export jobs
          MaxRows,      \* bound: rows a job's query returns
          MaxConns,     \* DBMaxOpenConns of a pod's replica pool (25)
          MaxSlips,     \* bound: failed calls, restarts and shutdowns
          SharedSecret, \* EXPORT_SIGN_SECRET is set
          None          \* no job, no file, no signer

ASSUME ExportConstants ==
    /\ MaxJobs \in Nat \ {0} /\ MaxRows \in Nat /\ MaxSlips \in Nat
    /\ MaxConns \in Nat \ {0}
    /\ SharedSecret \in BOOLEAN
    /\ None \notin Nat

VARIABLES
    created,    \* jobs created so far: 1 .. created
    jobs,       \* exports on the primary
    rjobs,      \* exports as the replica shows them
    files,      \* each pod's disk
    epoch,      \* restarts of each pod
    wpc,        \* where each worker stands
    wjob,       \* its job
    count,      \* rowCount
    want,       \* rows its query returns
    cancelled,  \* its context is cancelled: the pod is shutting down
    leaked,     \* connections of each pod held by readers nobody receives from
    slips,      \* slips so far
    \* History, read by the properties only:
    broken      \* jobs whose worker was cut off or whose last statement failed

rowVars  == <<created, jobs, rjobs>>
workVars == <<wpc, wjob, count, want>>
podVars  == <<files, epoch, cancelled, leaked>>
vars == <<rowVars, workVars, podVars, slips, broken>>

Jobs == 1 .. MaxJobs

\* signer: whose secret signed the token; whole: the rows of the query's
\* result, read by the properties only.
Job == [status: {"none", "pending", "processing", "completed", "failed"},
        signer: (Pods \X Nat) \cup {None}, whole: 0 .. MaxRows]

Slip == slips < MaxSlips /\ slips' = slips + 1

-----------------------------------------------------------------------------
(* The job row                                                             *)

Create ==
    /\ created < MaxJobs
    /\ created' = created + 1
    /\ jobs' = [jobs EXCEPT ![created + 1].status = "pending"]
    /\ UNCHANGED <<rjobs, workVars, podVars, slips, broken>>

Replicate(j) ==
    /\ rjobs[j] # jobs[j]
    /\ rjobs' = [rjobs EXCEPT ![j] = jobs[j]]
    /\ UNCHANGED <<created, jobs, workVars, podVars, slips, broken>>

-----------------------------------------------------------------------------
(* The worker                                                              *)

\* Mutant: cancellation does not reach the statement.
BackgroundContext(p) == TRUE

\* pgx runs a statement only while its context is live.
DbWorks(p) == ~cancelled[p]

Goto(p, pc) == wpc' = [wpc EXCEPT ![p] = pc] /\ UNCHANGED <<wjob, count, want>>

\* Mutant: the worker keeps the job it has finished.
IdleKeepsJob(p) == wpc' = [wpc EXCEPT ![p] = "idle"] /\ UNCHANGED <<wjob, count, want>>

\* processOne returns.
Idle(p) ==
    /\ wpc' = [wpc EXCEPT ![p] = "idle"]
    /\ wjob' = [wjob EXCEPT ![p] = None]
    /\ count' = [count EXCEPT ![p] = 0] /\ want' = [want EXCEPT ![p] = 0]

\* Mutant: one job at a time, and a job left in processing counts.
ClaimableAlone(j) ==
    jobs[j].status = "pending" /\ \A k \in Jobs : jobs[k].status # "processing"

Claimable(j) == jobs[j].status = "pending"

Claimed(job) == [job EXCEPT !.status = "processing"]

\* ClaimPending: the oldest pending job.  When the answer is lost the job is
\* claimed and no worker knows.
Claim(p, j) ==
    /\ wpc[p] = "idle" /\ ~cancelled[p]
    /\ Claimable(j) /\ \A k \in Jobs : Claimable(k) => j <= k
    /\ jobs' = [jobs EXCEPT ![j] = Claimed(@)]
    /\ \/ /\ wpc' = [wpc EXCEPT ![p] = "open"]
          /\ wjob' = [wjob EXCEPT ![p] = j]
          /\ UNCHANGED <<count, want, slips, broken>>
       \/ /\ Slip /\ broken' = broken \cup {j}
          /\ UNCHANGED workVars
    /\ UNCHANGED <<created, rjobs, podVars>>

\* storage.Writer, an os.Create; its error goes to MarkFailed.
OpenFile(p) ==
    /\ wpc[p] = "open"
    /\ \/ /\ files' = [files EXCEPT ![p][wjob[p]] = 0]
          /\ Goto(p, "query") /\ UNCHANGED slips
       \/ /\ Slip /\ Goto(p, "fail") /\ UNCHANGED files
    /\ UNCHANGED <<rowVars, epoch, cancelled, leaked, broken>>

\* The replica pool has a connection left.
HasConn(p) == leaked[p] < MaxConns

\* ReadEvents' query, on the replica; it waits for a connection as long as the
\* context lives.  Its error reaches writeRows wrapped, a cancellation included,
\* and is an error like any other.
Query(p) ==
    /\ wpc[p] = "query"
    /\ \/ /\ DbWorks(p) /\ HasConn(p)
          /\ \E n \in 0 .. MaxRows :
               /\ want' = [want EXCEPT ![p] = n]
               /\ jobs' = [jobs EXCEPT ![wjob[p]].whole = n]
          /\ wpc' = [wpc EXCEPT ![p] = "rows"]
          /\ UNCHANGED <<wjob, count, slips>>
       \/ /\ (cancelled[p] /\ UNCHANGED slips) \/ (HasConn(p) /\ Slip)
          /\ Goto(p, "drop") /\ UNCHANGED jobs
    /\ UNCHANGED <<created, rjobs, podVars, broken>>

\* One row from the reader to the file.
WriteRow(p) ==
    /\ wpc[p] = "rows" /\ count[p] < want[p]
    /\ count' = [count EXCEPT ![p] = @ + 1]
    /\ files' = [files EXCEPT ![p][wjob[p]] = @ + 1]
    /\ UNCHANGED <<rowVars, wpc, wjob, want, epoch, cancelled, leaked, slips, broken>>

\* The channel is closed after the last row, the writer flushed and closed.
RowsEnd(p) ==
    /\ wpc[p] = "rows" /\ count[p] = want[p]
    /\ Goto(p, "size")
    /\ UNCHANGED <<rowVars, podVars, slips, broken>>

\* A row cannot be written and writeRows returns: the reader, if it has another
\* row to send, waits for a receiver, with its connection, until the context ends.
WriteError(p) ==
    /\ wpc[p] = "rows" /\ count[p] < want[p] /\ Slip
    /\ leaked' = [leaked EXCEPT ![p] =
                    IF count[p] + 1 < want[p] /\ ~cancelled[p] THEN @ + 1 ELSE @]
    /\ Goto(p, "drop")
    /\ UNCHANGED <<rowVars, files, epoch, cancelled, broken>>

\* Reading a row, flushing or closing fails; so does the iteration when the
\* context is cancelled between two rows.
RowsError(p) ==
    /\ wpc[p] = "rows"
    /\ (cancelled[p] /\ UNCHANGED slips) \/ Slip
    /\ Goto(p, "drop")
    /\ UNCHANGED <<rowVars, podVars, broken>>

\* The reader's select sees ctx.Done: writeRows returns nil on a bare
\* context.Canceled, and the part written so far counts as the file.
RowsCancelled(p) ==
    /\ wpc[p] = "rows" /\ count[p] < want[p] /\ cancelled[p]
    /\ Goto(p, "size")
    /\ UNCHANGED <<rowVars, podVars, slips, broken>>

\* Mutant: a failed stat ends processOne without marking the job.
SizeErrorReturns(p) == Idle(p)

\* A failed stat.
SizeError(p) == Goto(p, "fail")

Size(p) ==
    /\ wpc[p] = "size"
    /\ \/ Goto(p, "complete") /\ UNCHANGED slips
       \/ Slip /\ SizeError(p)
    /\ UNCHANGED <<rowVars, podVars, broken>>

Completed(p, job) == [job EXCEPT !.status = "completed", !.signer = <<p, epoch[p]>>]

\* MarkCompleted; its error is only returned, and the job stays as it is.
Complete(p) ==
    LET j == wjob[p]
        done == [jobs EXCEPT ![j] = Completed(p, @)] IN
    /\ wpc[p] = "complete"
    /\ \/ DbWorks(p) /\ jobs' = done /\ UNCHANGED <<slips, broken>>
       \/ /\ DbWorks(p) /\ Slip /\ jobs' \in {jobs, done}
          /\ broken' = broken \cup {j}
       \/ /\ ~DbWorks(p) /\ UNCHANGED <<jobs, slips>>
          /\ broken' = broken \cup {j}
    /\ Idle(p)
    /\ UNCHANGED <<created, rjobs, podVars>>

\* storage.Delete of the partial file; its error is ignored.
DropFile(p) ==
    /\ wpc[p] = "drop"
    /\ \/ files' = [files EXCEPT ![p][wjob[p]] = None] /\ UNCHANGED slips
       \/ Slip /\ UNCHANGED files
    /\ Goto(p, "fail")
    /\ UNCHANGED <<rowVars, epoch, cancelled, leaked, broken>>

\* MarkFailed; its error is ignored.
Fail(p) ==
    LET j == wjob[p]
        failed == [jobs EXCEPT ![j].status = "failed"] IN
    /\ wpc[p] = "fail"
    /\ \/ DbWorks(p) /\ jobs' = failed /\ UNCHANGED <<slips, broken>>
       \/ /\ DbWorks(p) /\ Slip /\ jobs' \in {jobs, failed}
          /\ broken' = broken \cup {j}
       \/ /\ ~DbWorks(p) /\ UNCHANGED <<jobs, slips>>
          /\ broken' = broken \cup {j}
    /\ Idle(p)
    /\ UNCHANGED <<created, rjobs, podVars>>

-----------------------------------------------------------------------------
(* The pod                                                                 *)

\* SIGTERM: exportWorkerCancel, which ends the readers too.  main does not wait
\* for the worker.
Terminate(p) ==
    /\ ~cancelled[p] /\ Slip
    /\ cancelled' = [cancelled EXCEPT ![p] = TRUE]
    /\ leaked' = [leaked EXCEPT ![p] = 0]
    /\ UNCHANGED <<rowVars, workVars, files, epoch, broken>>

\* The process ends, by itself or by a crash, and a new one starts: in the
\* same pod, or in a new pod with an empty disk.
Restart(p) ==
    /\ IF cancelled[p] THEN UNCHANGED slips ELSE Slip
    /\ broken' = IF wjob[p] = None THEN broken ELSE broken \cup {wjob[p]}
    /\ epoch' = [epoch EXCEPT ![p] = @ + 1]
    /\ files' \in {files, [files EXCEPT ![p] = [j \in Jobs |-> None]]}
    /\ cancelled' = [cancelled EXCEPT ![p] = FALSE]
    /\ leaked' = [leaked EXCEPT ![p] = 0]
    /\ Idle(p)
    /\ UNCHANGED <<rowVars>>

\* signer.Verify with the secret of the pod that answers, before the token
\* expires; time is left out, and an expired one is only refused.
Verify(p, job) == SharedSecret \/ job.signer = <<p, epoch[p]>>

Ready(job) == job.status = "completed"

\* A download of job j at pod p with the job's own token answers 200: all the
\* checks pass and the file is there.  No download changes anything.
Downloadable(p, j) ==
    /\ HasConn(p) /\ Ready(rjobs[j]) /\ Verify(p, rjobs[j])
    /\ files[p][j] # None

-----------------------------------------------------------------------------
Init ==
    /\ created = 0
    /\ jobs = [j \in Jobs |-> [status |-> "none", signer |-> None, whole |-> 0]]
    /\ rjobs = jobs
    /\ files = [p \in Pods |-> [j \in Jobs |-> None]]
    /\ epoch = [p \in Pods |-> 0]
    /\ wpc = [p \in Pods |-> "idle"] /\ wjob = [p \in Pods |-> None]
    /\ count = [p \in Pods |-> 0] /\ want = [p \in Pods |-> 0]
    /\ cancelled = [p \in Pods |-> FALSE] /\ leaked = [p \in Pods |-> 0]
    /\ slips = 0 /\ broken = {}

WorkerStep(p) ==
    \/ OpenFile(p) \/ Query(p) \/ WriteRow(p) \/ RowsEnd(p) \/ WriteError(p) \/ RowsError(p)
    \/ RowsCancelled(p) \/ Size(p) \/ Complete(p) \/ DropFile(p) \/ Fail(p)
    \/ \E j \in Jobs : Claim(p, j)

Next ==
    \/ Create
    \/ \E j \in Jobs : Replicate(j)
    \/ \E p \in Pods : WorkerStep(p) \/ Terminate(p) \/ Restart(p)

Spec == Init /\ [][Next]_vars

\* A worker keeps polling and a terminated pod is replaced; jobs, downloads
\* and faults need not happen.
Fairness ==
    \A p \in Pods : WF_vars(WorkerStep(p)) /\ WF_vars(cancelled[p] /\ Restart(p))

FairSpec == Spec /\ Fairness

-----------------------------------------------------------------------------
(* Properties                                                              *)

\* Kinds of values.
TypeOK ==
    /\ created \in 0 .. MaxJobs
    /\ jobs \in [Jobs -> Job] /\ rjobs \in [Jobs -> Job]
    /\ files \in [Pods -> [Jobs -> 0 .. MaxRows \cup {None}]]
    /\ epoch \in [Pods -> Nat]
    /\ wpc \in [Pods -> {"idle", "open", "query", "rows", "size", "complete",
                         "drop", "fail"}]
    /\ \A p \in Pods : (wpc[p] = "idle") = (wjob[p] = None)
    /\ wjob \in [Pods -> Jobs \cup {None}]
    /\ count \in [Pods -> 0 .. MaxRows] /\ want \in [Pods -> 0 .. MaxRows]
    /\ cancelled \in [Pods -> BOOLEAN] /\ leaked \in [Pods -> 0 .. MaxConns]
    /\ slips \in 0 .. MaxSlips
    /\ broken \subseteq Jobs

\* A download never delivers part of an export, although a cancelled worker
\* takes its partial file for a whole one: only its MarkCompleted, which the
\* same cancellation stops, would publish it.
DownloadedIsWhole ==
    \A p \in Pods, j \in Jobs : Downloadable(p, j) => files[p][j] = jobs[j].whole

\* The process that signed a token has the whole file behind it for as long as
\* it lives: no other worker writes over it, no cleanup takes it away
\* (processOne's Delete, storage.Writer's os.Create).
SignerHasFile ==
    \A p \in Pods, j \in Jobs :
        jobs[j].status = "completed" /\ jobs[j].signer = <<p, epoch[p]>>
            => files[p][j] = jobs[j].whole

\* What a completed export promises is there, and whole, wherever it is served.
ExportIsWhole == DownloadedIsWhole /\ SignerHasFile

\* Two workers are never on the same job (FOR UPDATE SKIP LOCKED).
OneWorkerPerJob ==
    \A p, q \in Pods : p # q /\ wjob[p] # None => wjob[p] # wjob[q]

\* A job that stays in processing with no worker on it was cut off: nothing
\* takes such jobs up again, so no ordinary error path may leave one behind.
StuckIsExplained ==
    \A j \in Jobs :
        jobs[j].status = "processing" /\ (\A p \in Pods : wjob[p] # j) => j \in broken

\* A job that is being processed has one worker, or was cut off (ClaimPending,
\* worker.go's error paths).
JobsAttended == OneWorkerPerJob /\ StuckIsExplained

\* The worker waits for a connection that only leaked readers have.
Starved(p) == wpc[p] = "query" /\ ~HasConn(p)

\* Every job is completed, failed or cut off in the end; one that is not has a
\* starved worker, or finds no other (writeRows' early returns, ReadEvents).
EventuallyFinished ==
    <>[](\A j \in 1 .. created :
            \/ jobs[j].status \in {"completed", "failed"} \/ j \in broken
            \/ \E p \in Pods : Starved(p) /\ wjob[p] = j
            \/ \A p \in Pods : Starved(p))

=============================================================================
