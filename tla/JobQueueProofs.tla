--------------------------- MODULE JobQueueProofs ---------------------------
(***************************************************************************)
(* Proofs about JobQueue for any number of projects, workers, handlers and *)
(* jobs, and whether or not saves and loads fail unless a theorem says so. *)
(***************************************************************************)
EXTENDS JobQueue, FiniteSetTheorems, TLAPS

\* Rows that have never been created are absent everywhere.
FreshRows == \A j \in JobId : j >= nextId => jobs[j] = "absent" /\ disk[j] = "absent"

\* A busy worker holds a job; of a process that is gone nothing is left.
HeldJobs == \A w \in Workers : Busy(w) => wjob[w] \in JobId
NothingLeft ==
  daemon = "down" => /\ \A j \in JobId : jobs[j] = "absent"
                     /\ \A w \in Workers : wpc[w] = "exited"
                     /\ todo = {} /\ missing = {}

\* OneActivePerProject and RunningMeansHeld are not inductive alone: Enqueue
\* must not meet an old row under a fresh id, and RecordOutcome must find its
\* own row.
IInv == /\ TypeOK
        /\ FreshRows
        /\ HeldJobs
        /\ NothingLeft
        /\ OneActivePerProject
        /\ RunningMeansHeld

-----------------------------------------------------------------------------
\* Reaping turns well-typed rows into well-typed rows none of which is running,
\* and makes no row active.
LEMMA ReapedRows ==
  ASSUME NEW rows \in [JobId -> Status]
  PROVE  /\ Reaped(rows) \in [JobId -> Status]
         /\ \A j \in JobId : /\ Reaped(rows)[j] # "running"
                             /\ Reaped(rows)[j] \in Active => rows[j] \in Active
                             /\ Reaped(rows)[j] = "absent" <=> rows[j] = "absent"
BY DEF Reaped, Status, Active, Terminal

\* What start-up leaves in memory and on disk: of the running rows those that it
\* did not reap.
LEMMA RecoverRows ==
  ASSUME TypeOK, Recover
  PROVE  /\ jobs' \in [JobId -> Status] /\ disk' \in [JobId -> Status]
         /\ left' = {j \in JobId : jobs'[j] = "running"}
         /\ \A j \in JobId : jobs'[j] \in Active => disk[j] \in Active
         /\ \A j \in JobId : disk[j] = "absent" => jobs'[j] = "absent"
         /\ disk' \in {disk, jobs'}
<1> DEFINE nil == [j \in JobId |-> "absent"]
<1>1. PICK loaded \in {disk, nil} : RecoverStaleJobs(loaded)
  BY DEF Recover
<1>2. loaded \in [JobId -> Status] /\ disk \in [JobId -> Status]
  BY DEF TypeOK, Status
<1>3. \A j \in JobId : /\ loaded[j] \in Active => disk[j] \in Active
                       /\ disk[j] = "absent" => loaded[j] = "absent"
  BY DEF Active
<1>4. CASE ReapRunning(loaded) /\ left' = {}
  <2>1. jobs' = Reaped(loaded) /\ disk' \in {disk, jobs'}
    BY <1>4 DEF ReapRunning, Persist
  <2>2. /\ jobs' \in [JobId -> Status]
        /\ \A j \in JobId : /\ jobs'[j] # "running"
                            /\ jobs'[j] \in Active => loaded[j] \in Active
                            /\ jobs'[j] = "absent" <=> loaded[j] = "absent"
    BY <1>2, <2>1, ReapedRows
  <2>3. QED BY <1>2, <1>3, <1>4, <2>1, <2>2
<1>5. CASE /\ jobs' = loaded
           /\ left' = {j \in JobId : loaded[j] = "running"}
           /\ UNCHANGED disk
  BY <1>2, <1>3, <1>5
<1>6. QED BY <1>1, <1>4, <1>5 DEF RecoverStaleJobs

-----------------------------------------------------------------------------
\* Before the first start of the daemon every variable has its type.
LEMMA InitialTypes == Init => TypeOK
<1> SUFFICES ASSUME Init PROVE TypeOK
  OBVIOUS
<1>1. (CHOOSE p \in Projects : TRUE) \in Projects
  BY QueueAssumption
<1>2. nextId \in 1..(MaxJobs + 1)
  BY QueueAssumption DEF Init
<1>3. QED BY <1>1, <1>2 DEF Init, TypeOK, Status, WorkerPc

\* Every variable keeps its type in every behaviour of the daemon.
THEOREM TypeCorrect == Spec => []TypeOK
<1>1. Init => TypeOK
  BY InitialTypes
<1>2. TypeOK /\ [Next]_vars => TypeOK'
  <2> SUFFICES ASSUME TypeOK, [Next]_vars PROVE TypeOK'
    OBVIOUS
  <2> USE DEF TypeOK
  <2>1. CASE Boot
    BY <2>1, RecoverRows DEF Boot, WorkerPc
  <2>2. CASE Shutdown
    BY <2>2 DEF Shutdown, rowVars, schedVars
  <2>3. CASE LoopStops \/ WorkersDrained \/ GraceExpired
    BY <2>3 DEF LoopStops, WorkersDrained, GraceExpired, rowVars, workerVars, schedVars
  <2>4. CASE Exit \/ Crash
    BY <2>4 DEF Exit, Crash, ProcessGone, Status, WorkerPc
  <2>5. ASSUME NEW e \in Enqueuers, NEW p \in Projects, Enqueue(e, p)
        PROVE  (/\ jobs \in [JobId -> Status] /\ disk \in [JobId -> Status]
                /\ project \in [JobId -> Projects]
                /\ nextId \in 1..(MaxJobs + 1) /\ sending \in SUBSET Enqueuers)'
    <3>1. CASE UNCHANGED <<rowVars, sending>>
      BY <3>1 DEF rowVars
    <3>2. CASE ~HasActiveJob(p) /\ nextId \in JobId
      <4>1. nextId' \in 1..(MaxJobs + 1)
        BY <2>5, <3>2, QueueAssumption DEF Enqueue, JobId
      <4>2. jobs' \in [JobId -> Status] /\ disk' \in [JobId -> Status]
        BY <2>5, <3>2 DEF Enqueue, Persist, Status, Active
      <4>3. project' \in [JobId -> Projects] /\ sending' \in SUBSET Enqueuers
        BY <2>5, <3>2 DEF Enqueue
      <4>4. QED BY <4>1, <4>2, <4>3
    <3>3. QED BY <2>5, <3>1, <3>2 DEF Enqueue
  <2>6. ASSUME NEW h \in Handlers, NEW p \in Projects, WebEnqueue(h, p) PROVE TypeOK'
    BY <2>5, <2>6 DEF WebEnqueue, Enqueuers, workerVars, schedVars
  <2>7. ASSUME NEW e \in Enqueuers, SignalWake(e) PROVE TypeOK'
    BY <2>7 DEF SignalWake, rowVars, workerVars, schedVars
  <2>8. ASSUME NEW old \in SUBSET JobId, Tick(old) PROVE TypeOK'
    BY <2>8 DEF Tick, Persist, workerVars, Status
  <2>9. ASSUME NEW p \in Projects, VisitProject(p) PROVE TypeOK'
    BY <2>9 DEF VisitProject, rowVars, workerVars
  <2>10. ASSUME NEW p \in Projects, EnqueueMissing(p) PROVE TypeOK'
    BY <2>5, <2>10 DEF EnqueueMissing, Enqueuers, workerVars
  <2>11. ASSUME NEW w \in Workers, WorkerLoop(w) PROVE TypeOK'
    <3>1. CASE CheckCtx(w) \/ DequeueNothing(w) \/ IdleCancelled(w) \/ IdleWoken(w)
      BY <3>1 DEF CheckCtx, DequeueNothing, IdleCancelled, IdleWoken, rowVars, schedVars, WorkerPc
    <3>2. ASSUME NEW j \in JobId, DequeueJob(w, j) PROVE TypeOK'
      BY <3>2 DEF DequeueJob, Persist, schedVars, WorkerPc, Status, Active
    <3>3. CASE RecordOutcome(w)
      <4>1. Outcome(w) \in Terminal
        BY DEF Outcome, Terminal
      <4>2. QED BY <4>1, <3>3 DEF RecordOutcome, Persist, schedVars, WorkerPc, Status
    <3>4. QED BY <2>11, <3>1, <3>2, <3>3 DEF WorkerLoop
  <2>12. ASSUME NEW w \in Workers, IdleTimer(w) \/ Deadline(w) \/ Pipeline(w) PROVE TypeOK'
    BY <2>12 DEF IdleTimer, Deadline, Pipeline, PipelineReturn, rowVars, workerVars, schedVars, WorkerPc
  <2>13. CASE UNCHANGED vars
    BY <2>13 DEF vars, rowVars, workerVars, schedVars
  <2>14. QED
    BY <2>1, <2>2, <2>3, <2>4, <2>6, <2>7, <2>8, <2>9, <2>10, <2>11, <2>12, <2>13
       DEF Next, SchedulerLoop
<1>3. QED BY <1>1, <1>2, PTL DEF Spec
-----------------------------------------------------------------------------
\* Enqueue (queue.go:104) checks and appends in one critical section: no project
\* gets a second unfinished row and no running row appears.
LEMMA EnqueueKeeps ==
  ASSUME IInv, NEW e \in Enqueuers, NEW p \in Projects, Enqueue(e, p)
  PROVE  /\ FreshRows' /\ OneActivePerProject'
         /\ Running' = Running
<1> USE DEF IInv
<1>1. CASE UNCHANGED <<rowVars, sending>>
  BY <1>1 DEF rowVars, FreshRows, OneActivePerProject, OneActive, Running
<1>2. CASE ~HasActiveJob(p) /\ nextId \in JobId
  <2>1. /\ jobs' = [jobs EXCEPT ![nextId] = "pending"]
        /\ project' = [project EXCEPT ![nextId] = p]
        /\ nextId' = nextId + 1
        /\ disk' = jobs' \/ disk' = disk
    BY <1>2 DEF Enqueue, Persist, HasActiveJob
  <2>2. jobs[nextId] = "absent" /\ disk[nextId] = "absent" /\ nextId \in Nat
    BY <1>2 DEF FreshRows, TypeOK, JobId
  <2>3. \A j \in JobId : j # nextId => jobs'[j] = jobs[j] /\ project'[j] = project[j]
    BY <2>1 DEF TypeOK
  <2>4. jobs'[nextId] = "pending" /\ project'[nextId] = p
    BY <1>2, <2>1 DEF TypeOK
  <2>5. FreshRows'
    <3> SUFFICES ASSUME NEW j \in JobId, j >= nextId + 1
                 PROVE  jobs'[j] = "absent" /\ disk'[j] = "absent"
      BY <2>1 DEF FreshRows
    <3>1. j # nextId /\ j >= nextId
      BY <2>2 DEF JobId
    <3>2. jobs[j] = "absent" /\ disk[j] = "absent"
      BY <3>1 DEF FreshRows
    <3>3. jobs'[j] = "absent"
      BY <2>3, <3>1, <3>2
    <3>4. QED BY <2>1, <3>2, <3>3
  <2>6. Running' = Running
    BY <2>2, <2>3, <2>4 DEF Running
  <2>7. OneActive(jobs)'
    BY <1>2, <2>3, <2>4 DEF OneActivePerProject, OneActive, HasActiveJob
  <2>8. OneActive(disk)'
    <3>1. CASE disk' = jobs'
      BY <2>7, <3>1 DEF OneActive
    <3>2. CASE disk' = disk
      BY <2>2, <2>3, <3>2 DEF OneActivePerProject, OneActive, Active
    <3>3. QED BY <2>1, <3>1, <3>2
  <2>9. QED BY <2>5, <2>6, <2>7, <2>8 DEF OneActivePerProject
<1>3. QED BY <1>1, <1>2 DEF Enqueue

\* A step that leaves the workers, the running rows and the process alone keeps
\* what is said of them.
LEMMA WorkersUntouched ==
  ASSUME RunningMeansHeld, HeldJobs,
         UNCHANGED <<left, workerVars>>, Running' = Running
  PROVE  RunningMeansHeld' /\ HeldJobs'
BY DEF RunningMeansHeld, Held, HeldJobs, Busy, workerVars

\* A step that only moves workers between counters at which they hold no job.
LEMMA IdleMoves ==
  ASSUME TypeOK, RunningMeansHeld, HeldJobs, NEW w \in Workers, NEW pc,
         ~Busy(w), pc \notin {"run", "record"},
         wpc' = [wpc EXCEPT ![w] = pc], UNCHANGED <<left, wjob>>, Running' = Running
  PROVE  RunningMeansHeld' /\ HeldJobs'
<1>1. \A v \in Workers : Busy(v)' <=> Busy(v)
  BY DEF Busy, TypeOK
<1>2. QED BY <1>1 DEF RunningMeansHeld, Held, HeldJobs

\* The scheduler and any number of web requests may race from HasActiveJob to
\* Enqueue, workers may finish jobs, saves and loads may fail and the daemon may
\* die and restart: no project ever has two unfinished jobs, in memory or in
\* jobs.json, and the running rows are the jobs the workers hold and those start-up did not reap.
THEOREM QueueInvariant == Spec => []IInv
<1>1. Init => IInv
  <2> SUFFICES ASSUME Init, TypeOK PROVE IInv
    BY InitialTypes
  <2>1. \A j \in JobId : jobs[j] = "absent" /\ disk[j] = "absent"
    BY DEF Init
  <2>2. QED
    BY <2>1 DEF Init, IInv, FreshRows, HeldJobs, NothingLeft, OneActivePerProject, OneActive,
                RunningMeansHeld, Held, Running, Busy, Active
<1>2. IInv /\ TypeOK' /\ [Next]_vars => IInv'
  <2> SUFFICES ASSUME IInv, TypeOK', [Next]_vars PROVE IInv'
    OBVIOUS
  <2> USE DEF IInv
  <2>1. CASE Boot
    <3>1. /\ left' = {j \in JobId : jobs'[j] = "running"}
          /\ \A j \in JobId : jobs'[j] \in Active => disk[j] \in Active
          /\ \A j \in JobId : disk[j] = "absent" => jobs'[j] = "absent"
          /\ disk' \in {disk, jobs'}
      BY <2>1, RecoverRows DEF Boot
    <3>2. FreshRows'
      BY <2>1, <3>1 DEF Boot, FreshRows
    <3>3. OneActivePerProject'
      BY <2>1, <3>1 DEF Boot, OneActivePerProject, OneActive
    <3>4. \A w \in Workers : ~Busy(w)'
      BY <2>1 DEF Boot, Busy
    <3>5. Running' = left' /\ Held' = {}
      BY <3>1, <3>4 DEF Running, Held
    <3>6. RunningMeansHeld' /\ HeldJobs'
      BY <3>4, <3>5 DEF RunningMeansHeld, Held, HeldJobs
    <3>7. NothingLeft'
      BY <2>1 DEF Boot, NothingLeft
    <3>8. QED BY <3>2, <3>3, <3>6, <3>7
  <2>2. CASE Shutdown
    BY <2>2 DEF Shutdown, rowVars, FreshRows, HeldJobs, NothingLeft, OneActivePerProject,
                OneActive, RunningMeansHeld, Held, Running, Busy
  <2>3. CASE LoopStops \/ WorkersDrained \/ GraceExpired
    BY <2>3 DEF LoopStops, WorkersDrained, GraceExpired, rowVars, workerVars, FreshRows, HeldJobs,
                NothingLeft, OneActivePerProject, OneActive, RunningMeansHeld, Held, Running, Busy
  <2>4. CASE Exit \/ Crash
    <3>1. ProcessGone
      BY <2>4 DEF Exit, Crash
    <3>2. FreshRows' /\ NothingLeft'
      BY <3>1 DEF ProcessGone, FreshRows, NothingLeft
    <3>3. OneActivePerProject'
      BY <3>1 DEF ProcessGone, OneActivePerProject, OneActive, Active
    <3>4. RunningMeansHeld' /\ HeldJobs'
      BY <3>1 DEF ProcessGone, RunningMeansHeld, Held, HeldJobs, Running, Busy
    <3>5. QED BY <3>2, <3>3, <3>4
  <2>5. ASSUME NEW h \in Handlers, NEW p \in Projects, WebEnqueue(h, p) PROVE IInv'
    <3>1. Enqueue(h, p) /\ h \in Enqueuers /\ UNCHANGED <<daemon, left, workerVars>> /\ daemon # "down"
      BY <2>5 DEF WebEnqueue, Enqueuers, Up
    <3>2. FreshRows' /\ OneActivePerProject' /\ Running' = Running
      BY <3>1, EnqueueKeeps
    <3>3. RunningMeansHeld' /\ HeldJobs'
      BY <3>1, <3>2, WorkersUntouched
    <3>4. QED BY <3>1, <3>2, <3>3 DEF NothingLeft
  <2>6. ASSUME NEW e \in Enqueuers, SignalWake(e) PROVE IInv'
    BY <2>6 DEF SignalWake, rowVars, workerVars, schedVars, FreshRows, HeldJobs, NothingLeft,
                OneActivePerProject, OneActive, RunningMeansHeld, Held, Running, Busy
  <2>7. ASSUME NEW old \in SUBSET JobId, Tick(old) PROVE IInv'
    <3>1. /\ \A j \in JobId : jobs'[j] = IF j \in old THEN "absent" ELSE jobs[j]
          /\ \A j \in old : jobs[j] \in Terminal
          /\ disk' = jobs' \/ disk' = disk
          /\ UNCHANGED <<daemon, left, project, nextId, workerVars>>
          /\ daemon # "down"
      BY <2>7 DEF Tick, Persist, InSelect
    <3>2. FreshRows'
      BY <3>1 DEF FreshRows
    <3>3. OneActivePerProject'
      BY <3>1 DEF OneActivePerProject, OneActive, Active
    <3>4. Running' = Running
      BY <3>1 DEF Running, Terminal
    <3>5. RunningMeansHeld' /\ HeldJobs'
      BY <3>1, <3>4, WorkersUntouched
    <3>6. QED BY <3>1, <3>2, <3>3, <3>5 DEF NothingLeft
  <2>8. ASSUME NEW p \in Projects, VisitProject(p) PROVE IInv'
    BY <2>8 DEF VisitProject, rowVars, workerVars, FreshRows, HeldJobs, NothingLeft,
                OneActivePerProject, OneActive, RunningMeansHeld, Held, Running, Busy
  <2>9. ASSUME NEW p \in Projects, EnqueueMissing(p) PROVE IInv'
    <3>1. Enqueue("scheduler", p) /\ "scheduler" \in Enqueuers /\ UNCHANGED <<daemon, left, workerVars>>
      BY <2>9 DEF EnqueueMissing, Enqueuers
    <3>2. FreshRows' /\ OneActivePerProject' /\ Running' = Running
      BY <3>1, EnqueueKeeps
    <3>3. RunningMeansHeld' /\ HeldJobs'
      BY <3>1, <3>2, WorkersUntouched
    <3>4. daemon # "down"
      BY <2>9 DEF EnqueueMissing, NothingLeft
    <3>5. QED BY <3>1, <3>2, <3>3, <3>4 DEF NothingLeft
  <2>10. ASSUME NEW w \in Workers, WorkerLoop(w) PROVE IInv'
    <3>1. CASE CheckCtx(w) \/ DequeueNothing(w) \/ IdleCancelled(w) \/ IdleWoken(w)
      <4>1. PICK pc \in {"exited", "checkctx", "dequeue", "idle"} : wpc' = [wpc EXCEPT ![w] = pc]
        BY <3>1 DEF CheckCtx, DequeueNothing, IdleCancelled, IdleWoken
      <4>2. ~Busy(w) /\ wpc[w] # "exited" /\ UNCHANGED <<daemon, left, rowVars, wjob>>
        BY <3>1 DEF CheckCtx, DequeueNothing, IdleCancelled, IdleWoken, Busy
      <4>3. Running' = Running
        BY <4>2 DEF rowVars, Running
      <4>4. RunningMeansHeld' /\ HeldJobs'
        BY <4>1, <4>2, <4>3, IdleMoves
      <4>5. FreshRows' /\ OneActivePerProject'
        BY <4>2 DEF rowVars, FreshRows, OneActivePerProject, OneActive
      <4>6. NothingLeft'
        BY <4>2 DEF NothingLeft
      <4>7. QED BY <4>4, <4>5, <4>6
    <3>2. ASSUME NEW j \in JobId, DequeueJob(w, j) PROVE IInv'
      <4>1. /\ jobs[j] = "pending" /\ wpc[w] = "dequeue"
            /\ jobs' = [jobs EXCEPT ![j] = "running"]
            /\ wpc' = [wpc EXCEPT ![w] = "run"] /\ wjob' = [wjob EXCEPT ![w] = j]
            /\ disk' = jobs' \/ disk' = disk
            /\ UNCHANGED <<daemon, left, project, nextId>>
        BY <3>2 DEF DequeueJob, FirstPending, Pending, Persist
      <4>2. FreshRows'
        BY <4>1 DEF FreshRows, TypeOK
      <4>3. OneActivePerProject'
        BY <4>1 DEF OneActivePerProject, OneActive, Active, TypeOK
      <4>4. Running' = Running \cup {j} /\ j \notin Running
        BY <4>1 DEF Running, TypeOK
      <4>5. /\ \A v \in Workers : Busy(v)' <=> Busy(v) \/ v = w
            /\ \A v \in Workers : v # w => wjob'[v] = wjob[v]
            /\ wjob'[w] = j /\ ~Busy(w)
        BY <4>1 DEF Busy, TypeOK
      <4>6. Held' = Held \cup {j}
        BY <4>5 DEF Held
      <4>6a. RunningMeansHeld' /\ HeldJobs'
        BY <4>1, <4>4, <4>5, <4>6 DEF RunningMeansHeld, Held, HeldJobs
      <4>7. NothingLeft'
        BY <4>1 DEF NothingLeft
      <4>8. QED BY <4>2, <4>3, <4>6a, <4>7
    <3>3. CASE RecordOutcome(w)
      <4> DEFINE j == wjob[w]
      <4>1. Busy(w) /\ j \in JobId /\ jobs[j] = "running"
        BY <3>3 DEF RecordOutcome, Busy, HeldJobs, RunningMeansHeld, Held, Running
      <4>2. /\ jobs' = [jobs EXCEPT ![j] = Outcome(w)]
            /\ disk' = jobs' \/ disk' = disk
            /\ wpc' = [wpc EXCEPT ![w] = "checkctx"] /\ wjob' = [wjob EXCEPT ![w] = NoJob]
            /\ UNCHANGED <<daemon, left, project, nextId>>
        BY <3>3, <4>1 DEF RecordOutcome, Persist, Terminal
      <4>3. Outcome(w) \in Terminal
        BY DEF Outcome, Terminal, TypeOK
      <4>3a. \A k \in JobId : jobs'[k] = IF k = j THEN Outcome(w) ELSE jobs[k]
        BY <4>1, <4>2 DEF TypeOK
      <4>4. FreshRows'
        BY <4>1, <4>2, <4>3a DEF FreshRows
      <4>5. OneActivePerProject'
        <5>1. \A k \in JobId : jobs'[k] \in Active => jobs[k] \in Active
          BY <4>3, <4>3a DEF Active, Terminal
        <5>2. QED BY <4>2, <5>1 DEF OneActivePerProject, OneActive
      <4>6. Running' = Running \ {j}
        BY <4>1, <4>3, <4>3a DEF Running, Terminal
      <4>7. /\ \A v \in Workers : Busy(v)' <=> Busy(v) /\ v # w
            /\ \A v \in Workers : v # w => wjob'[v] = wjob[v]
        BY <4>2 DEF Busy, TypeOK
      <4>8. Held' = Held \ {j} /\ j \in Held
        BY <4>1, <4>7 DEF RunningMeansHeld, Held
      <4>8a. RunningMeansHeld' /\ HeldJobs'
        BY <4>1, <4>2, <4>6, <4>7, <4>8 DEF RunningMeansHeld, HeldJobs
      <4>9. NothingLeft'
        BY <4>1, <4>2 DEF NothingLeft, Busy
      <4>10. QED BY <4>4, <4>5, <4>8a, <4>9
    <3>4. QED BY <2>10, <3>1, <3>2, <3>3 DEF WorkerLoop
  <2>11. ASSUME NEW w \in Workers, IdleTimer(w) PROVE IInv'
    <3>1. RunningMeansHeld' /\ HeldJobs'
      BY <2>11, IdleMoves DEF IdleTimer, Busy, Running, rowVars
    <3>2. QED
      BY <2>11, <3>1 DEF IdleTimer, rowVars, FreshRows, NothingLeft, OneActivePerProject, OneActive
  <2>12. ASSUME NEW w \in Workers, Deadline(w) \/ Pipeline(w) PROVE IInv'
    <3>1. /\ \A v \in Workers : Busy(v)' <=> Busy(v)
          /\ UNCHANGED <<daemon, left, rowVars, wjob>> /\ Busy(w)
      BY <2>12 DEF Deadline, Pipeline, PipelineReturn, Busy, TypeOK
    <3>2. RunningMeansHeld' /\ HeldJobs'
      BY <3>1 DEF RunningMeansHeld, Held, HeldJobs, Running, rowVars
    <3>3. QED
      BY <3>1, <3>2 DEF rowVars, FreshRows, NothingLeft, OneActivePerProject, OneActive, Busy
  <2>13. CASE UNCHANGED vars
    BY <2>13 DEF vars, rowVars, workerVars, schedVars, FreshRows, HeldJobs, NothingLeft,
                 OneActivePerProject, OneActive, RunningMeansHeld, Held, Running, Busy
  <2>14. QED
    BY <2>1, <2>2, <2>3, <2>4, <2>5, <2>6, <2>7, <2>8, <2>9, <2>10, <2>11, <2>12, <2>13
       DEF Next, SchedulerLoop
<1>3. QED BY <1>1, <1>2, TypeCorrect, PTL DEF Spec

\* The dedup of Enqueue and the terminal guards of queue.go give each project one
\* unfinished job, in memory and in jobs.json, with any saves and loads failing.
THEOREM OneActive_always == Spec => []OneActivePerProject
BY QueueInvariant, PTL DEF IInv

\* Dequeue, the recording of outcomes in runJob and recoverStaleJobs at start-up
\* leave no running row without its one worker, whatever crashes happen, but the
\* rows that a start with the gate of workers.go:219-228 closed left as they were.
THEOREM RunningHeld_always == Spec => []RunningMeansHeld
BY QueueInvariant, PTL DEF IInv

-----------------------------------------------------------------------------
(***************************************************************************)
(* What each step does to the rows, for the properties that compare states.*)
(***************************************************************************)
\* Enqueue appends one row under a fresh id, or does nothing.
LEMMA EnqueueRows ==
  ASSUME IInv, NEW e \in Enqueuers, NEW p \in Projects, Enqueue(e, p)
  PROVE  \/ UNCHANGED <<jobs, sending>>
         \/ /\ nextId \in JobId /\ jobs[nextId] = "absent"
            /\ jobs' = [jobs EXCEPT ![nextId] = "pending"]
            /\ e \in sending'
<1>1. nextId \in JobId => jobs[nextId] = "absent"
  BY DEF IInv, FreshRows, TypeOK, JobId
<1>2. QED BY <1>1 DEF Enqueue, rowVars

\* A late Complete, Failed, TimedOut or Cancel does not overwrite an outcome, and
\* nothing else of a living daemon does (queue.go:155-158): every step leaves a
\* finished row as it is or prunes it.
THEOREM OutcomeIsFinal_always == Spec => OutcomeIsFinal
<1>1. IInv /\ [Next]_vars =>
        [Up /\ daemon' # "down" =>
           \A j \in JobId : jobs[j] \in Terminal => jobs'[j] \in {jobs[j], "absent"}]_vars
  <2> SUFFICES ASSUME IInv, [Next]_vars, Up, daemon' # "down",
                      NEW j \in JobId, jobs[j] \in Terminal
               PROVE  jobs'[j] \in {jobs[j], "absent"}
    OBVIOUS
  <2> USE DEF IInv, TypeOK
  <2>1. CASE Boot \/ Exit \/ Crash
    BY <2>1 DEF Boot, Exit, Crash, ProcessGone, Up
  <2>2. CASE Shutdown \/ LoopStops \/ WorkersDrained \/ GraceExpired
    BY <2>2 DEF Shutdown, LoopStops, WorkersDrained, GraceExpired, rowVars
  <2>3. ASSUME NEW e \in Enqueuers, NEW p \in Projects, Enqueue(e, p)
        PROVE  jobs'[j] \in {jobs[j], "absent"}
    BY <2>3, EnqueueRows DEF Terminal
  <2>4. ASSUME NEW h \in Handlers, NEW p \in Projects, WebEnqueue(h, p)
        PROVE  jobs'[j] \in {jobs[j], "absent"}
    BY <2>3, <2>4 DEF WebEnqueue, Enqueuers
  <2>5. ASSUME NEW e \in Enqueuers, SignalWake(e)
        PROVE  jobs'[j] \in {jobs[j], "absent"}
    BY <2>5 DEF SignalWake, rowVars
  <2>6. ASSUME NEW old \in SUBSET JobId, Tick(old)
        PROVE  jobs'[j] \in {jobs[j], "absent"}
    BY <2>6 DEF Tick
  <2>7. ASSUME NEW p \in Projects, VisitProject(p) \/ EnqueueMissing(p)
        PROVE  jobs'[j] \in {jobs[j], "absent"}
    BY <2>3, <2>7 DEF VisitProject, EnqueueMissing, Enqueuers, rowVars
  <2>8. ASSUME NEW w \in Workers, WorkerLoop(w)
        PROVE  jobs'[j] \in {jobs[j], "absent"}
    <3>1. CASE CheckCtx(w) \/ DequeueNothing(w) \/ IdleCancelled(w) \/ IdleWoken(w)
      BY <3>1 DEF CheckCtx, DequeueNothing, IdleCancelled, IdleWoken, rowVars
    <3>2. ASSUME NEW k \in JobId, DequeueJob(w, k)
          PROVE  jobs'[j] = jobs[j]
      BY <3>2 DEF DequeueJob, FirstPending, Pending, Terminal
    <3>3. CASE RecordOutcome(w)
      BY <3>3 DEF RecordOutcome
    <3>4. QED BY <2>8, <3>1, <3>2, <3>3 DEF WorkerLoop
  <2>9. ASSUME NEW w \in Workers, IdleTimer(w) \/ Deadline(w) \/ Pipeline(w)
        PROVE  jobs'[j] \in {jobs[j], "absent"}
    BY <2>9 DEF IdleTimer, Deadline, Pipeline, PipelineReturn, rowVars
  <2>10. CASE UNCHANGED vars
    BY <2>10 DEF vars, rowVars
  <2>11. QED
    BY <2>1, <2>2, <2>4, <2>5, <2>6, <2>7, <2>8, <2>9, <2>10 DEF Next, SchedulerLoop
<1>2. QED BY <1>1, QueueInvariant, PTL DEF Spec, OutcomeIsFinal

-----------------------------------------------------------------------------
\* With every worker idle only rows that start-up did not reap are running.
LEMMA IdleMeansRoom ==
  ASSUME IInv, SlotsRemain, \A w \in Workers : ~Busy(w)
  PROVE  Cardinality(Running) < MaxConcurrent
BY DEF IInv, RunningMeansHeld, Held, SlotsRemain

\* The number of running rows is a number.
LEMMA RunningCounts == Cardinality(Running) \in Nat
<1>1. IsFiniteSet(JobId)
  BY QueueAssumption, FS_Interval DEF JobId
<1>2. Running \subseteq JobId
  BY DEF Running
<1>3. QED BY <1>1, <1>2, FS_Subset, FS_CardinalityType

\* There is a worker.
LEMMA SomeWorker == Workers # {}
  BY QueueAssumption, FS_EmptySet

\* The token of q.wake, the enqueuers on their way to send it and the workers on
\* their way to Dequeue: one of them is there whenever a job waits, although
\* Enqueue sends outside its lock and drops the token when the channel is full.
THEOREM NoLostWakeup_always == Spec => []NoLostWakeup
<1>1. Init => NoLostWakeup
  BY DEF Init, NoLostWakeup
<1>2. IInv /\ NoLostWakeup /\ [Next]_vars => NoLostWakeup'
  <2> SUFFICES ASSUME IInv, NoLostWakeup, [Next]_vars PROVE NoLostWakeup'
    OBVIOUS
  <2> USE DEF IInv, TypeOK
  <2>1. CASE Boot
    BY <2>1, SomeWorker DEF Boot, NoLostWakeup
  <2>2. CASE Shutdown \/ LoopStops \/ WorkersDrained \/ GraceExpired \/ Exit \/ Crash
    BY <2>2 DEF Shutdown, LoopStops, WorkersDrained, GraceExpired, Exit, Crash, ProcessGone,
                NoLostWakeup
  <2>3. ASSUME NEW e \in Enqueuers, NEW p \in Projects, Enqueue(e, p),
               UNCHANGED <<daemon, left, wake, workerVars>>
        PROVE  NoLostWakeup'
    BY <2>3, EnqueueRows DEF NoLostWakeup, SlotsRemain, Pending, workerVars
  <2>4. ASSUME NEW h \in Handlers, NEW p \in Projects, WebEnqueue(h, p) PROVE NoLostWakeup'
    BY <2>3, <2>4 DEF WebEnqueue, Enqueuers
  <2>5. ASSUME NEW e \in Enqueuers, SignalWake(e) PROVE NoLostWakeup'
    BY <2>5 DEF SignalWake, NoLostWakeup
  <2>6. ASSUME NEW old \in SUBSET JobId, Tick(old) PROVE NoLostWakeup'
    <3>1. Pending' \subseteq Pending
      BY <2>6 DEF Tick, Pending
    <3>2. QED BY <2>6, <3>1 DEF Tick, NoLostWakeup, SlotsRemain, workerVars
  <2>7. ASSUME NEW p \in Projects, VisitProject(p) PROVE NoLostWakeup'
    BY <2>7 DEF VisitProject, NoLostWakeup, SlotsRemain, rowVars, workerVars, Pending
  <2>8. ASSUME NEW p \in Projects, EnqueueMissing(p) PROVE NoLostWakeup'
    BY <2>3, <2>8 DEF EnqueueMissing, Enqueuers
  <2>9. ASSUME NEW w \in Workers, wpc'[w] # "idle" PROVE NoLostWakeup'
    BY <2>9 DEF NoLostWakeup
  <2>10. ASSUME NEW w \in Workers, WorkerLoop(w) PROVE NoLostWakeup'
    <3>1. CASE DequeueNothing(w) /\ SlotsRemain
      <4>1. CASE \E v \in Workers : v # w /\ wpc[v] # "idle"
        BY <2>9, <3>1, <4>1 DEF DequeueNothing
      <4>2. CASE \A v \in Workers : v # w => wpc[v] = "idle"
        <5>1. \A v \in Workers : ~Busy(v)
          BY <3>1, <4>2 DEF DequeueNothing, Busy
        <5>2. Pending = {}
          <6>1. Cardinality(Running) < MaxConcurrent
            BY <3>1, <5>1, IdleMeansRoom
          <6>2. ~(Cardinality(Running) >= MaxConcurrent)
            BY <6>1, RunningCounts, QueueAssumption
          <6>3. QED BY <3>1, <6>2 DEF DequeueNothing
        <5>3. QED BY <3>1, <5>2 DEF DequeueNothing, NoLostWakeup, rowVars, Pending
      <4>3. QED BY <4>1, <4>2
    <3>2. CASE CheckCtx(w) \/ IdleCancelled(w) \/ IdleWoken(w)
      BY <2>9, <3>2 DEF CheckCtx, IdleCancelled, IdleWoken
    <3>3. ASSUME NEW k \in JobId, DequeueJob(w, k) PROVE NoLostWakeup'
      BY <2>9, <3>3 DEF DequeueJob
    <3>4. CASE RecordOutcome(w)
      BY <2>9, <3>4 DEF RecordOutcome
    <3>5. CASE DequeueNothing(w) /\ ~SlotsRemain
      BY <3>5 DEF DequeueNothing, NoLostWakeup, SlotsRemain
    <3>6. QED BY <2>10, <3>1, <3>2, <3>3, <3>4, <3>5 DEF WorkerLoop
  <2>11. ASSUME NEW w \in Workers, IdleTimer(w) \/ Deadline(w) \/ Pipeline(w)
         PROVE  NoLostWakeup'
    BY <2>9, <2>11 DEF IdleTimer, Deadline, Pipeline, PipelineReturn
  <2>12. CASE UNCHANGED vars
    BY <2>12 DEF vars, rowVars, workerVars, NoLostWakeup, SlotsRemain, Pending
  <2>13. QED
    BY <2>1, <2>2, <2>4, <2>5, <2>6, <2>7, <2>8, <2>10, <2>11, <2>12 DEF Next, SchedulerLoop
<1>3. QED BY <1>1, <1>2, QueueInvariant, PTL DEF Spec

\* Once workers.Stop has seen every worker out, none comes back.
WorkersOut == daemon = "drained" => \A w \in Workers : wpc[w] = "exited"

\* A stop that drains (workers.go:84-104) leaves no running row behind that a
\* worker of this daemon held: a worker records the outcome of its job before it
\* exits.
THEOREM DrainedIsQuiet_always == Spec => []DrainedIsQuiet
<1>1. Init => WorkersOut
  BY DEF Init, WorkersOut
<1>2. IInv /\ WorkersOut /\ [Next]_vars => WorkersOut'
  <2> SUFFICES ASSUME IInv, WorkersOut, [Next]_vars, daemon' = "drained"
               PROVE  \A w \in Workers : wpc'[w] = "exited"
    BY DEF WorkersOut
  <2> USE DEF IInv, TypeOK, WorkersOut
  <2>1. CASE Boot \/ Shutdown \/ LoopStops \/ GraceExpired \/ Exit \/ Crash
    BY <2>1 DEF Boot, Shutdown, LoopStops, GraceExpired, Exit, Crash, ProcessGone
  <2>2. CASE WorkersDrained
    BY <2>2 DEF WorkersDrained, workerVars
  <2>3. CASE UNCHANGED <<daemon, left, workerVars>>
    BY <2>3 DEF workerVars
  <2>4. CASE \E h \in Handlers, p \in Projects : WebEnqueue(h, p)
    BY <2>3, <2>4 DEF WebEnqueue
  <2>5. CASE \E e \in Enqueuers : SignalWake(e)
    BY <2>3, <2>5 DEF SignalWake
  <2>6. CASE \E old \in SUBSET JobId : Tick(old)
    BY <2>3, <2>6 DEF Tick
  <2>7. CASE SchedulerLoop
    BY <2>3, <2>7 DEF SchedulerLoop, VisitProject, EnqueueMissing
  <2>8. ASSUME NEW w \in Workers,
               WorkerLoop(w) \/ IdleTimer(w) \/ Deadline(w) \/ Pipeline(w)
        PROVE  wpc[w] # "exited" /\ daemon' = daemon
    BY <2>8 DEF WorkerLoop, CheckCtx, DequeueJob, DequeueNothing, IdleCancelled, IdleWoken,
                RecordOutcome, IdleTimer, Deadline, Pipeline, PipelineReturn
  <2>9. QED BY <2>1, <2>2, <2>3, <2>4, <2>5, <2>6, <2>7, <2>8 DEF Next, vars
<1>3. IInv /\ WorkersOut => DrainedIsQuiet
  BY DEF IInv, WorkersOut, RunningMeansHeld, Held, Busy, DrainedIsQuiet
<1>4. QED BY <1>1, <1>2, <1>3, QueueInvariant, PTL DEF Spec

-----------------------------------------------------------------------------
(***************************************************************************)
(* Refinement.  It needs saves and loads that succeed: after a lost save a *)
(* restart sees an older queue, after a failed load an empty one.          *)
(***************************************************************************)
Reliable == ~SaveCanFail /\ ~LoadCanFail

\* Every critical section that changes the queue saves it.
THEOREM DiskIsCurrent_always == ASSUME Reliable PROVE Spec => []DiskIsCurrent
<1>1. Init => DiskIsCurrent
  BY DEF Init, DiskIsCurrent, Up
<1>2. IInv /\ DiskIsCurrent /\ [Next]_vars => DiskIsCurrent'
  <2> SUFFICES ASSUME IInv, DiskIsCurrent, [Next]_vars PROVE DiskIsCurrent'
    OBVIOUS
  <2> USE Reliable DEF Reliable
  <2>1. Persist => DiskIsCurrent'
    BY DEF Persist, DiskIsCurrent
  <2>2. Boot => DiskIsCurrent'
    BY <2>1 DEF Boot, Recover, RecoverStaleJobs, ReapRunning, DiskIsCurrent
  <2>3. Exit \/ Crash => DiskIsCurrent'
    BY DEF Exit, Crash, ProcessGone, DiskIsCurrent, Up
  <2>4. (Up' => Up) /\ UNCHANGED <<jobs, disk>> => DiskIsCurrent'
    BY DEF DiskIsCurrent
  <2>5. \A e \in Enqueuers, p \in Projects :
          (Up' => Up) /\ Enqueue(e, p) => DiskIsCurrent'
    BY <2>1, <2>4 DEF Enqueue, rowVars
  <2>6. Shutdown \/ LoopStops \/ WorkersDrained \/ GraceExpired => DiskIsCurrent'
    BY <2>4 DEF Shutdown, LoopStops, WorkersDrained, GraceExpired, rowVars, Up, InSelect
  <2>7. \A h \in Handlers, p \in Projects : WebEnqueue(h, p) => DiskIsCurrent'
    BY <2>5 DEF WebEnqueue, Enqueuers
  <2>8. \A e \in Enqueuers : SignalWake(e) => DiskIsCurrent'
    BY <2>4 DEF SignalWake, rowVars, Up
  <2>9. \A old \in SUBSET JobId : Tick(old) => DiskIsCurrent'
    BY <2>1 DEF Tick
  <2>10. \A p \in Projects : VisitProject(p) \/ EnqueueMissing(p) => DiskIsCurrent'
    BY <2>4, <2>5 DEF VisitProject, EnqueueMissing, Enqueuers, rowVars, Up
  <2>11. \A w \in Workers : WorkerLoop(w) => DiskIsCurrent'
    <3>1. \A w \in Workers : CheckCtx(w) \/ DequeueNothing(w) \/ IdleCancelled(w) \/ IdleWoken(w)
                               => DiskIsCurrent'
      BY <2>4 DEF CheckCtx, DequeueNothing, IdleCancelled, IdleWoken, rowVars, Up
    <3>2. \A w \in Workers, j \in JobId : DequeueJob(w, j) => DiskIsCurrent'
      BY <2>1 DEF DequeueJob
    <3>3. \A w \in Workers : RecordOutcome(w) => DiskIsCurrent'
      BY <2>1, <2>4 DEF RecordOutcome, Up
    <3>4. QED BY <3>1, <3>2, <3>3 DEF WorkerLoop
  <2>12. \A w \in Workers : IdleTimer(w) \/ Deadline(w) \/ Pipeline(w) => DiskIsCurrent'
    BY <2>4 DEF IdleTimer, Deadline, Pipeline, PipelineReturn, rowVars, Up
  <2>13. UNCHANGED vars => DiskIsCurrent'
    BY <2>4 DEF vars, rowVars, Up
  <2>14. QED
    BY <2>2, <2>3, <2>6, <2>7, <2>8, <2>9, <2>10, <2>11, <2>12, <2>13 DEF Next, SchedulerLoop
<1>3. QED BY <1>1, <1>2, QueueInvariant, PTL DEF Spec

\* What the abstract specification sees as the status of the jobs.
Seen == IF Up THEN jobs ELSE disk

\* A step of a running daemon that leaves q.jobs alone is invisible.
LEMMA Stutter ==
  ASSUME Up, Up', UNCHANGED <<jobs, project>> PROVE UNCHANGED Lifecycle!vars
BY DEF Lifecycle!vars

\* Enqueue (queue.go:104) submits one job for a project without one, or nothing.
LEMMA EnqueueIsSubmit ==
  ASSUME IInv, Up, Up', NEW e \in Enqueuers, NEW p \in Projects, Enqueue(e, p)
  PROVE  [Lifecycle!Next]_(Lifecycle!vars)
<1>1. CASE UNCHANGED <<rowVars, sending>>
  BY <1>1, Stutter DEF rowVars
<1>2. CASE ~HasActiveJob(p) /\ nextId \in JobId
  <2>1. /\ jobs' = [jobs EXCEPT ![nextId] = "pending"]
        /\ project' = [project EXCEPT ![nextId] = p]
    BY <1>2 DEF Enqueue, HasActiveJob
  <2>2. jobs[nextId] = "absent"
    BY <1>2 DEF IInv, FreshRows, TypeOK, JobId
  <2>3. \A k \in JobId : jobs[k] \in {"pending", "running"} => project[k] # p
    BY <1>2 DEF HasActiveJob, Active
  <2>4. Lifecycle!Submit(nextId, p)
    BY <2>1, <2>2, <2>3 DEF Lifecycle!Submit, Lifecycle!Unfinished
  <2>5. QED BY <1>2, <2>4 DEF Lifecycle!Next
<1>3. QED BY <1>1, <1>2 DEF Enqueue

\* When the process dies, jobs.json is as the queue was.
LEMMA DeathIsUnseen ==
  ASSUME DiskIsCurrent, Up, ProcessGone
  PROVE  UNCHANGED Lifecycle!vars
BY DEF DiskIsCurrent, Up, ProcessGone, Lifecycle!vars

\* A start fails what was running, or leaves every row as it is.
LEMMA BootIsAbort ==
  ASSUME Reliable, Boot
  PROVE  [Lifecycle!Next]_(Lifecycle!vars)
<1>1. ~Up /\ Up' /\ project' = project /\ RecoverStaleJobs(disk)
  BY DEF Reliable, Boot, Recover, Up
<1>2. CASE jobs' = Reaped(disk)
  <2>1. Lifecycle!Abort
    BY <1>1, <1>2 DEF Lifecycle!Abort, Reaped
  <2>2. QED BY <2>1 DEF Lifecycle!Next
<1>3. CASE jobs' = disk
  BY <1>1, <1>3 DEF Lifecycle!vars
<1>4. QED BY <1>1, <1>2, <1>3 DEF RecoverStaleJobs, ReapRunning

\* The queue with its workers, crashes and restarts implements the abstract life
\* of a job: started at most once, never resumed when the daemon dies under it but
\* failed or left as it is by the next start (workers.go:214-235), kept while
\* unfinished, one unfinished job per project.
THEOREM Refinement == ASSUME Reliable PROVE Spec => ImplementsLifecycle
<1>1. Init => Lifecycle!Init
  <2> SUFFICES ASSUME Init PROVE Lifecycle!Init
    OBVIOUS
  <2>1. ~Up /\ disk = [j \in JobId |-> "absent"]
    BY DEF Init, Up
  <2>2. project \in [JobId -> Projects]
    BY InitialTypes DEF TypeOK
  <2>3. QED BY <2>1, <2>2 DEF Lifecycle!Init
<1>2. IInv /\ IInv' /\ DiskIsCurrent /\ DiskIsCurrent' /\ [Next]_vars
      => [Lifecycle!Next]_(Lifecycle!vars)
  <2> SUFFICES ASSUME IInv, IInv', DiskIsCurrent, DiskIsCurrent', [Next]_vars
               PROVE  [Lifecycle!Next]_(Lifecycle!vars)
    OBVIOUS
  <2>1. CASE Boot
    BY <2>1, Reliable, BootIsAbort
  <2>2. CASE Exit \/ Crash
    BY <2>2, DeathIsUnseen DEF Exit, Crash, Up
  <2>3. CASE Shutdown \/ LoopStops \/ WorkersDrained \/ GraceExpired
    BY <2>3, Stutter DEF Shutdown, LoopStops, WorkersDrained, GraceExpired, InSelect, Up, rowVars
  <2>4. ASSUME NEW h \in Handlers, NEW p \in Projects, WebEnqueue(h, p)
        PROVE  [Lifecycle!Next]_(Lifecycle!vars)
    BY <2>4, EnqueueIsSubmit DEF WebEnqueue, Enqueuers, Up
  <2>5. ASSUME NEW e \in Enqueuers, SignalWake(e)
        PROVE  UNCHANGED Lifecycle!vars
    BY <2>5 DEF SignalWake, rowVars, Lifecycle!vars, Up
  <2>6. ASSUME NEW old \in SUBSET JobId, Tick(old)
        PROVE  Lifecycle!Next
    <3>1. /\ Up /\ Up' /\ project' = project
          /\ \A j \in old : jobs[j] \in Terminal
          /\ jobs' = [j \in JobId |-> IF j \in old THEN "absent" ELSE jobs[j]]
      BY <2>6 DEF Tick, InSelect, Up
    <3>2. Lifecycle!Forget(old)
      BY <3>1 DEF Lifecycle!Forget, Lifecycle!Finished, Terminal
    <3>3. QED BY <3>2 DEF Lifecycle!Next
  <2>7. ASSUME NEW p \in Projects, VisitProject(p)
        PROVE  UNCHANGED Lifecycle!vars
    BY <2>7 DEF VisitProject, rowVars, Lifecycle!vars, Up
  <2>8. ASSUME NEW p \in Projects, EnqueueMissing(p)
        PROVE  [Lifecycle!Next]_(Lifecycle!vars)
    <3>1. Up /\ Up' /\ Enqueue("scheduler", p)
      BY <2>8 DEF EnqueueMissing, IInv, NothingLeft, Up
    <3>2. QED BY <3>1, EnqueueIsSubmit DEF Enqueuers
  <2>9. ASSUME NEW w \in Workers, WorkerLoop(w)
        PROVE  [Lifecycle!Next]_(Lifecycle!vars)
    <3>1. CASE CheckCtx(w) \/ DequeueNothing(w) \/ IdleCancelled(w) \/ IdleWoken(w)
      BY <3>1 DEF CheckCtx, DequeueNothing, IdleCancelled, IdleWoken, rowVars, Lifecycle!vars, Up
    <3>2. ASSUME NEW j \in JobId, DequeueJob(w, j) PROVE Lifecycle!Next
      <4>1. /\ jobs[j] = "pending" /\ jobs' = [jobs EXCEPT ![j] = "running"]
            /\ project' = project /\ wpc[w] = "dequeue" /\ daemon' = daemon
        BY <3>2 DEF DequeueJob, FirstPending, Pending
      <4>2. Up /\ Up'
        BY <4>1 DEF IInv, NothingLeft, Up
      <4>3. Lifecycle!Start(j)
        BY <4>1, <4>2 DEF Lifecycle!Start
      <4>4. QED BY <4>3 DEF Lifecycle!Next
    <3>3. CASE RecordOutcome(w)
      <4> DEFINE j == wjob[w]
      <4>1. /\ wpc[w] = "record" /\ daemon' = daemon /\ project' = project
            /\ j \in JobId /\ jobs[j] = "running"
        BY <3>3 DEF RecordOutcome, IInv, HeldJobs, RunningMeansHeld, Held, Running, Busy
      <4>2. jobs' = [jobs EXCEPT ![j] = Outcome(w)]
        BY <3>3, <4>1 DEF RecordOutcome, Terminal
      <4>3. Outcome(w) \in Lifecycle!Finished
        BY DEF Outcome, Lifecycle!Finished, IInv, TypeOK
      <4>4. Up /\ Up'
        BY <4>1 DEF IInv, NothingLeft, Up
      <4>5. Lifecycle!Finish(j, Outcome(w))
        BY <4>1, <4>2, <4>4 DEF Lifecycle!Finish
      <4>6. QED BY <4>1, <4>3, <4>5 DEF Lifecycle!Next
    <3>4. QED BY <2>9, <3>1, <3>2, <3>3 DEF WorkerLoop
  <2>10. ASSUME NEW w \in Workers, IdleTimer(w) \/ Deadline(w) \/ Pipeline(w)
         PROVE  UNCHANGED Lifecycle!vars
    BY <2>10 DEF IdleTimer, Deadline, Pipeline, PipelineReturn, rowVars, Lifecycle!vars, Up
  <2>11. CASE UNCHANGED vars
    BY <2>11 DEF vars, rowVars, Lifecycle!vars, Up
  <2>12. QED
    BY <2>1, <2>2, <2>3, <2>4, <2>5, <2>6, <2>7, <2>8, <2>9, <2>10, <2>11 DEF Next, SchedulerLoop
<1>3. QED
  BY <1>1, <1>2, QueueInvariant, DiskIsCurrent_always, PTL
     DEF Spec, ImplementsLifecycle, Lifecycle!Spec
=============================================================================
