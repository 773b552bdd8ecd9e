------------------------------ MODULE JobQueue ------------------------------
(***************************************************************************)
(* The analysis-job queue of the dreamer daemon with everything that       *)
(* drives it: internal/jobqueue (the queue and its jobs.json), the worker  *)
(* pool of cmd/workers.go, the scheduler tick of cmd/daemon.go, the web    *)
(* server's enqueueRun, shutdown, and the crash and restart of the         *)
(* process.  Each critical section of Queue.mu is one action.              *)
(*                                                                         *)
(* q.jobs is a list in append order whose rows never change project, so it *)
(* is kept as two functions on job ids, numbered in append order: the list *)
(* is the ids that are not "absent", ascending.                            *)
(***************************************************************************)
EXTENDS Naturals, FiniteSets

CONSTANTS
  Projects,       \* cfg.Projects
  Workers,        \* the pool's goroutines, MaxConcurrent of them
  Handlers,       \* concurrent requests in the web server's enqueueRun
  MaxConcurrent,  \* cfg.Daemon.MaxConcurrentJobs
  MaxJobs,        \* bound: jobs ever created
  SaveCanFail,    \* whether Store.Save may fail
  LoadCanFail     \* whether Store.Load may fail

ASSUME QueueAssumption ==
  /\ MaxConcurrent \in Nat \ {0}
  /\ MaxJobs \in Nat
  /\ IsFiniteSet(Workers) /\ Cardinality(Workers) = MaxConcurrent
  /\ Projects # {}
  /\ "scheduler" \notin Handlers
  /\ SaveCanFail \in BOOLEAN /\ LoadCanFail \in BOOLEAN

JobId == 1..MaxJobs
NoJob == 0
Enqueuers == Handlers \cup {"scheduler"}

Terminal == {"completed", "failed", "timed_out", "cancelled"}
Active   == {"pending", "running"}
Status   == {"absent"} \cup Active \cup Terminal

VARIABLES
  daemon,   \* the process: down, up, stopping (ctx cancelled), waiting (the
            \*   loop is in workers.Stop), drained or abandoned (Stop returned)
  left,     \* history: the running rows that start-up did not reap
  jobs,     \* q.jobs in memory
  disk,     \* jobs.json
  project,  \* the project of each row
  nextId,   \* fresh job ids
  wake,     \* tokens in q.wake, capacity 1
  wpc,      \* program counter of each worker goroutine
  wjob,     \* the job the worker holds
  wctx,     \* the worker's jobCtx
  wres,     \* what pipeline.Run returned
  sending,  \* enqueuers past the unlock of Enqueue and before the wake send
  todo,     \* projects enqueueMissingJobs has still to visit
  missing   \* projects whose HasActiveJob answered no, Enqueue still to be called

rowVars    == <<jobs, disk, project, nextId>>
workerVars == <<wpc, wjob, wctx, wres>>
schedVars  == <<todo, missing>>
vars == <<daemon, left, rowVars, wake, workerVars, sending, schedVars>>

WorkerPc == {"exited", "checkctx", "dequeue", "idle", "run", "record"}

\* The type invariant: q.wake has room for one token (queue.go:59) and a row has
\* a status of job.go.
TypeOK ==
  /\ daemon \in {"down", "up", "stopping", "waiting", "drained", "abandoned"}
  /\ left \in SUBSET JobId
  /\ jobs \in [JobId -> Status] /\ disk \in [JobId -> Status]
  /\ project \in [JobId -> Projects]
  /\ nextId \in 1..(MaxJobs + 1)
  /\ wake \in {0, 1}
  /\ wpc \in [Workers -> WorkerPc]
  /\ wjob \in [Workers -> JobId \cup {NoJob}]
  /\ wctx \in [Workers -> {"live", "deadline", "canceled"}]
  /\ wres \in [Workers -> {"none", "ok", "err"}]
  /\ sending \in SUBSET Enqueuers
  /\ todo \in SUBSET Projects /\ missing \in SUBSET Projects

Init ==
  /\ daemon = "down" /\ left = {}
  /\ jobs = [j \in JobId |-> "absent"] /\ disk = jobs
  /\ project \in [JobId -> {CHOOSE p \in Projects : TRUE}]
  /\ nextId = 1
  /\ wake = 0
  /\ wpc = [w \in Workers |-> "exited"] /\ wjob = [w \in Workers |-> NoJob]
  /\ wctx = [w \in Workers |-> "live"]  /\ wres = [w \in Workers |-> "none"]
  /\ sending = {} /\ todo = {} /\ missing = {}

Up        == daemon # "down"
Cancelled == daemon \in {"stopping", "waiting", "drained", "abandoned"}
Running   == {j \in JobId : jobs[j] = "running"}
Pending   == {j \in JobId : jobs[j] = "pending"}
\* Fault: failed rows are retried in place.
FaultFirstPending(j) == jobs[j] \in {"pending", "failed"}

FirstPending(j) == j \in Pending /\ \A k \in Pending : j <= k

\* Fault: the dedup forgets the running job.
FaultHasActiveJob(p) == \E j \in JobId : jobs[j] = "pending" /\ project[j] = p

HasActiveJob(p) == \E j \in JobId : jobs[j] \in Active /\ project[j] = p

\* persistLocked: a save that fails is logged and otherwise ignored.
Persist == \/ disk' = jobs'
           \/ SaveCanFail /\ UNCHANGED disk

(***************************************************************************)
(* The process.                                                            *)
(***************************************************************************)
\* Faults: zombie rows are left as they are; zombie rows are queued again.
FaultZombies(rows) == rows
FaultRequeue(rows) == [j \in JobId |-> IF rows[j] = "running" THEN "pending" ELSE rows[j]]

Reaped(rows) == [j \in JobId |-> IF rows[j] = "running" THEN "failed" ELSE rows[j]]

\* Fault: the reaped rows are not saved.
FaultReapRunning(loaded) == jobs' = Reaped(loaded) /\ UNCHANGED disk

\* ReapRunning: saves only when it changed a row.
ReapRunning(loaded) ==
  /\ jobs' = Reaped(loaded)
  /\ IF jobs' = loaded THEN UNCHANGED disk ELSE Persist

\* recoverStaleJobs returns without reaping when the PID in the lock file, read
\* before AcquireLock, is alive and not shown to run another executable
\* (workers.go:219-228).  DaemonLock models when that happens; here it may
\* happen at any start.
RecoverStaleJobs(loaded) ==
  \/ ReapRunning(loaded) /\ left' = {}
  \/ /\ jobs' = loaded
     /\ left' = {j \in JobId : loaded[j] = "running"}
     /\ UNCHANGED disk

\* Recover: a load that fails is logged by the caller and leaves q.jobs nil.
Recover == \/ RecoverStaleJobs(disk)
           \/ LoadCanFail /\ RecoverStaleJobs([j \in JobId |-> "absent"])

\* Daemon start-up: recovery, workers.Start and the first enqueueMissingJobs.
Boot ==
  /\ daemon = "down"
  /\ daemon' = "up"
  /\ Recover
  /\ wpc' = [w \in Workers |-> "checkctx"]
  /\ todo' = Projects
  /\ UNCHANGED <<project, nextId, wake, wjob, wctx, wres, sending, missing>>

\* A signal, the stop file, or the web restart hook cancels the run context.
Shutdown ==
  /\ daemon = "up"
  /\ daemon' = "stopping"
  /\ wctx' = [w \in Workers |-> IF wpc[w] \in {"run", "record"} /\ wctx[w] = "live"
                                THEN "canceled" ELSE wctx[w]]
  /\ UNCHANGED <<left, rowVars, wake, wpc, wjob, wres, sending, schedVars>>

\* The daemon loop is in its select: no enqueueMissingJobs is under way.
InSelect == daemon \in {"up", "stopping"} /\ todo = {} /\ missing = {} /\ "scheduler" \notin sending

\* It sees ctx.Done and calls workers.Stop, which waits for the workers, but
\* not longer than the grace period.
LoopStops ==
  /\ InSelect /\ Cancelled
  /\ daemon' = "waiting"
  /\ UNCHANGED <<left, rowVars, wake, workerVars, sending, schedVars>>

\* Fault: Stop does not wait for the workers.
FaultWorkersDrained ==
  /\ daemon = "waiting" /\ daemon' = "drained"
  /\ UNCHANGED <<left, rowVars, wake, workerVars, sending, schedVars>>

WorkersDrained ==
  /\ daemon = "waiting"
  /\ \A w \in Workers : wpc[w] = "exited"
  /\ daemon' = "drained"
  /\ UNCHANGED <<left, rowVars, wake, workerVars, sending, schedVars>>

\* Fault: Stop waits without a grace period.
FaultGraceExpired == FALSE

GraceExpired ==
  /\ daemon = "waiting"
  /\ daemon' = "abandoned"
  /\ UNCHANGED <<left, rowVars, wake, workerVars, sending, schedVars>>

\* Everything but jobs.json is gone.
ProcessGone ==
  /\ daemon' = "down" /\ left' = {}
  /\ jobs' = [j \in JobId |-> "absent"]
  /\ wake' = 0
  /\ wpc' = [w \in Workers |-> "exited"] /\ wjob' = [w \in Workers |-> NoJob]
  /\ wctx' = [w \in Workers |-> "live"]  /\ wres' = [w \in Workers |-> "none"]
  /\ sending' = {} /\ todo' = {} /\ missing' = {}
  /\ UNCHANGED <<disk, project, nextId>>

Exit  == daemon \in {"drained", "abandoned"} /\ ProcessGone
Crash == Up /\ ProcessGone

(***************************************************************************)
(* Enqueue, from the scheduler and from the web.                           *)
(***************************************************************************)
\* The critical section of Enqueue: a project with an active job gets none.
\* The bound: when MaxJobs jobs have been created no more are.
Enqueue(e, p) ==
  /\ e \notin sending
  /\ \/ /\ HasActiveJob(p) \/ nextId \notin JobId
        /\ UNCHANGED <<rowVars, sending>>
     \/ /\ ~HasActiveJob(p)
        /\ nextId \in JobId
        /\ jobs' = [jobs EXCEPT ![nextId] = "pending"]
        /\ project' = [project EXCEPT ![nextId] = p]
        /\ nextId' = nextId + 1
        /\ Persist
        /\ sending' = sending \cup {e}

\* The non-blocking send that follows it, outside the lock.
SignalWake(e) ==
  /\ e \in sending
  /\ wake' = 1
  /\ sending' = sending \ {e}
  /\ UNCHANGED <<daemon, left, rowVars, workerVars, schedVars>>

WebEnqueue(h, p) ==
  /\ Up
  /\ Enqueue(h, p)
  /\ UNCHANGED <<daemon, left, wake, workerVars, schedVars>>

\* PruneHistory, then enqueueMissingJobs starts over.  Which finished rows are
\* past the retention is left to time.  The select may still pick the tick
\* after the context was cancelled.
Tick(old) ==
  /\ InSelect
  /\ \A j \in old : jobs[j] \in Terminal
  /\ jobs' = [j \in JobId |-> IF j \in old THEN "absent" ELSE jobs[j]]
  /\ Persist
  /\ todo' = Projects
  /\ UNCHANGED <<daemon, left, project, nextId, wake, workerVars, sending, missing>>

\* One turn of enqueueMissingJobs up to the answer of HasActiveJob; a cancelled
\* context ends the loop.
VisitProject(p) ==
  /\ p \in todo /\ missing = {} /\ "scheduler" \notin sending
  /\ \/ Cancelled /\ todo' = {} /\ UNCHANGED missing
     \/ /\ ~Cancelled
        /\ todo' = todo \ {p}
        /\ missing' = IF HasActiveJob(p) THEN {} ELSE {p}
  /\ UNCHANGED <<daemon, left, rowVars, wake, workerVars, sending>>

EnqueueMissing(p) ==
  /\ p \in missing
  /\ Enqueue("scheduler", p)
  /\ missing' = {}
  /\ UNCHANGED <<daemon, left, wake, workerVars, todo>>

(***************************************************************************)
(* The workers.                                                            *)
(***************************************************************************)
CheckCtx(w) ==
  /\ wpc[w] = "checkctx"
  /\ wpc' = [wpc EXCEPT ![w] = IF Cancelled THEN "exited" ELSE "dequeue"]
  /\ UNCHANGED <<daemon, left, rowVars, wake, wjob, wctx, wres, sending, schedVars>>

\* Dequeue found a job: it is running, and jobCtx derives from the run context.
DequeueJob(w, j) ==
  /\ wpc[w] = "dequeue"
  /\ Cardinality(Running) < MaxConcurrent
  /\ FirstPending(j)
  /\ jobs' = [jobs EXCEPT ![j] = "running"]
  /\ Persist
  /\ wpc'  = [wpc EXCEPT ![w] = "run"]
  /\ wjob' = [wjob EXCEPT ![w] = j]
  /\ wctx' = [wctx EXCEPT ![w] = IF Cancelled THEN "canceled" ELSE "live"]
  /\ UNCHANGED <<daemon, left, project, nextId, wake, wres, sending, schedVars>>

DequeueNothing(w) ==
  /\ wpc[w] = "dequeue"
  /\ Pending = {} \/ Cardinality(Running) >= MaxConcurrent
  /\ wpc' = [wpc EXCEPT ![w] = "idle"]
  /\ UNCHANGED <<daemon, left, rowVars, wake, wjob, wctx, wres, sending, schedVars>>

IdleCancelled(w) ==
  /\ wpc[w] = "idle" /\ Cancelled
  /\ wpc' = [wpc EXCEPT ![w] = "exited"]
  /\ UNCHANGED <<daemon, left, rowVars, wake, wjob, wctx, wres, sending, schedVars>>

\* Fault: the worker drains the token and goes on waiting.
FaultIdleWoken(w) ==
  /\ wpc[w] = "idle" /\ wake = 1
  /\ wake' = 0
  /\ UNCHANGED <<daemon, left, rowVars, workerVars, sending, schedVars>>

IdleWoken(w) ==
  /\ wpc[w] = "idle" /\ wake = 1
  /\ wake' = 0
  /\ wpc' = [wpc EXCEPT ![w] = "checkctx"]
  /\ UNCHANGED <<daemon, left, rowVars, wjob, wctx, wres, sending, schedVars>>

IdleTimer(w) ==
  /\ wpc[w] = "idle"
  /\ wpc' = [wpc EXCEPT ![w] = "checkctx"]
  /\ UNCHANGED <<daemon, left, rowVars, wake, wjob, wctx, wres, sending, schedVars>>

\* Fault: jobCtx has no timeout.
FaultDeadline(w) == FALSE

\* max_analysis_duration is over for this job.  The context lives until runJob
\* returns, so it may also expire after the pipeline has.
Deadline(w) ==
  /\ wpc[w] \in {"run", "record"} /\ wctx[w] = "live"
  /\ wctx' = [wctx EXCEPT ![w] = "deadline"]
  /\ UNCHANGED <<daemon, left, rowVars, wake, wpc, wjob, wres, sending, schedVars>>

PipelineReturn(w, result) ==
  /\ wpc[w] = "run"
  /\ wpc'  = [wpc EXCEPT ![w] = "record"]
  /\ wres' = [wres EXCEPT ![w] = result]
  /\ UNCHANGED <<daemon, left, rowVars, wake, wjob, wctx, sending, schedVars>>

\* runJob looks at the context before it looks at the error.
Outcome(w) ==
  CASE wctx[w] = "deadline" -> "timed_out"
    [] wctx[w] = "canceled" -> "cancelled"
    [] wctx[w] = "live"     -> IF wres[w] = "err" THEN "failed" ELSE "completed"

\* Complete, Failed, TimedOut and Cancel do nothing to a finished job.
RecordOutcome(w) ==
  /\ wpc[w] = "record"
  /\ \/ /\ jobs[wjob[w]] \notin Terminal
        /\ jobs' = [jobs EXCEPT ![wjob[w]] = Outcome(w)]
        /\ Persist
     \/ /\ jobs[wjob[w]] \in Terminal
        /\ UNCHANGED <<jobs, disk>>
  /\ wpc'  = [wpc EXCEPT ![w] = "checkctx"]
  /\ wjob' = [wjob EXCEPT ![w] = NoJob]
  /\ wctx' = [wctx EXCEPT ![w] = "live"]
  /\ wres' = [wres EXCEPT ![w] = "none"]
  /\ UNCHANGED <<daemon, left, project, nextId, wake, sending, schedVars>>

-----------------------------------------------------------------------------
WorkerLoop(w) ==
  \/ CheckCtx(w)
  \/ \E j \in JobId : DequeueJob(w, j)
  \/ DequeueNothing(w)
  \/ IdleCancelled(w)
  \/ IdleWoken(w)
  \/ RecordOutcome(w)

Pipeline(w) == \E result \in {"ok", "err"} : PipelineReturn(w, result)

SchedulerLoop ==
  \/ \E p \in Projects : VisitProject(p)
  \/ \E p \in Projects : EnqueueMissing(p)

Next ==
  \/ Boot
  \/ Shutdown
  \/ LoopStops
  \/ WorkersDrained
  \/ GraceExpired
  \/ Exit
  \/ Crash
  \/ \E h \in Handlers, p \in Projects : WebEnqueue(h, p)
  \/ \E e \in Enqueuers : SignalWake(e)
  \/ \E old \in SUBSET JobId : Tick(old)
  \/ SchedulerLoop
  \/ \E w \in Workers : WorkerLoop(w)
  \/ \E w \in Workers : IdleTimer(w)
  \/ \E w \in Workers : Deadline(w)
  \/ \E w \in Workers : Pipeline(w)

Spec == Init /\ [][Next]_vars

(***************************************************************************)
(* Fairness.  Every goroutine of a running daemon keeps being scheduled    *)
(* and the deadline of a job fires.  The select of the daemon loop chooses *)
(* at random among its ready cases, so it does not ignore ctx.Done         *)
(* forever.  Nothing is assumed of the idle timer, of requests, signals,   *)
(* ticks, or of anybody restarting the daemon.  PipelineFairness adds that *)
(* a pipeline whose context is done returns: its subprocesses are killed   *)
(* with the context.  A pipeline is never assumed to return before that.   *)
(***************************************************************************)
Fairness ==
  /\ \A w \in Workers : WF_vars(WorkerLoop(w)) /\ WF_vars(Deadline(w))
  /\ WF_vars(SchedulerLoop)
  /\ \A e \in Enqueuers : WF_vars(SignalWake(e))
  /\ SF_vars(LoopStops)
  /\ WF_vars(WorkersDrained \/ GraceExpired)
  /\ WF_vars(Exit)

PipelineFairness == \A w \in Workers : WF_vars(wctx[w] # "live" /\ Pipeline(w))

FairSpec == Spec /\ Fairness
-----------------------------------------------------------------------------
(***************************************************************************)
(* Properties.                                                             *)
(***************************************************************************)
\* "It enforces one active (pending or running) job per project" (queue.go:36),
\* in memory and in whatever jobs.json a restart would load, although the
\* scheduler asks HasActiveJob and calls Enqueue in two critical sections and
\* saves may fail.
OneActive(rows) ==
  \A j, k \in JobId :
    rows[j] \in Active /\ rows[k] \in Active /\ project[j] = project[k] => j = k
OneActivePerProject == OneActive(jobs) /\ OneActive(disk)

\* The running rows are the jobs some worker is in the middle of, each held by
\* one worker, and the rows the last start did not reap, which no worker holds:
\* no other zombie row blocks its project or a worker slot, and no job is
\* analysed twice at once.
Busy(w) == wpc[w] \in {"run", "record"}
Held == {wjob[w] : w \in {v \in Workers : Busy(v)}}
RunningMeansHeld ==
  /\ Running = Held \cup left
  /\ Held \cap left = {}
  /\ \A v, w \in Workers : Busy(v) /\ Busy(w) /\ wjob[v] = wjob[w] => v = w

\* A row that was not reaped takes up one of the MaxConcurrent slots until the
\* daemon is started again.
SlotsRemain == Cardinality(left) < MaxConcurrent

\* A wake-up is never lost: when a job waits and not every slot is taken by a row
\* that was not reaped, either a token or an enqueuer about to send one exists, or
\* some worker will come back to Dequeue by itself.  It does not take the
\* one-second timer of an idle worker (workers.go:19-22).
NoLostWakeup ==
  daemon = "up" /\ Pending # {} /\ SlotsRemain =>
    \/ wake = 1
    \/ sending # {}
    \/ \E w \in Workers : wpc[w] # "idle"

\* With saves that succeed, jobs.json never lags behind the queue while the
\* daemon runs: every transition is saved in its own critical section.
DiskIsCurrent == Up => disk = jobs

\* A clean drain leaves no row of this daemon in "running" for the next start to
\* reap: none but those its own start did not reap.
DrainedIsQuiet == daemon = "drained" => Running \subseteq left

\* A finished job keeps its outcome (queue.go:155-158: a late Complete or
\* Cancel must not overwrite an earlier one) until its row is pruned.
OutcomeIsFinal ==
  [][Up /\ daemon' # "down" =>
       \A j \in JobId : jobs[j] \in Terminal => jobs'[j] \in {jobs[j], "absent"}]_vars

\* The queue implements the abstract life of a job: while no daemon runs,
\* jobs.json counts.
Lifecycle == INSTANCE JobLifecycle WITH status <- IF Up THEN jobs ELSE disk
ImplementsLifecycle == Lifecycle!Spec

\* A waiting job of a running daemon is eventually started, or the daemon is
\* told to stop or dies, if pipelines return when their context is done and the
\* rows that start-up did not reap leave a slot free.
PendingIsServed ==
  PipelineFairness =>
    \A j \in JobId : (daemon = "up" /\ jobs[j] = "pending" /\ SlotsRemain)
                     ~> (daemon # "up" \/ jobs[j] # "pending")

\* A running job eventually gets an outcome, or the process is gone, if its
\* pipeline returns when its context is done.  A row that start-up did not reap
\* has no pipeline.
RunningIsRecorded ==
  PipelineFairness =>
    \A j \in JobId : (jobs[j] = "running" /\ j \notin left) ~> jobs[j] # "running"

\* A daemon told to stop is eventually gone, even when a pipeline never
\* returns (workers.go:84-90).
StopCompletes == Cancelled ~> ~Up
=============================================================================
