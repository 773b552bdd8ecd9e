# dreamer in TLA+

`dreamer` is a Go daemon that reads the chat histories of coding assistants,
asks a language model for recurring mistakes, and proposes guardrails for each
configured project. This directory models the parts of it in which the order of
events matters, checks them with TLC, and proves the central facts with TLAPS.

- [The system](#the-system): its parts, their state, how they interact
- [The modules](#the-modules): what models what
- [The runs](#the-runs): what TLC checks, with which bounds and fairness
- [The proofs](#the-proofs): what holds for every value of the constants
- [Disagreements](#disagreements): where code and words differ
- [Not modelled](#not-modelled) and the [plan](#plan)

`PROJECT.json` is the index: the components with their sources, the runs, the
source lines of every definition, the hazards with the properties that cover
them, and for each property a mutation of the code (an operator `Fault...`,
never part of `Spec`) under which TLC finds the property violated.

## The system

| component | state | operations | hard behaviour |
|---|---|---|---|
| job queue (`internal/jobqueue`) | `q.jobs`, `jobs.json`, wake channel | Enqueue, Dequeue, Complete, Failed, TimedOut, PruneHistory, Recover, ReapRunning | scheduler and web race to enqueue; saves fail; a crash leaves running rows |
| worker pool and daemon loop (`cmd/workers.go`, `cmd/daemon.go`, `cmd/scheduler.go`) | goroutines, run context, tick | worker loop, runJob, Stop, enqueueMissingJobs, runDaemonLoop | wake-ups; deadlines against results; shutdown with pipelines that hang |
| daemon lock (`internal/fsutil/lock.go`) | the lock file | AcquireLock, release, readLockMetadata | stale locks, reuse of PIDs, two starts at once |
| start, stop, stop file (`cmd/daemon.go`, `cmd/stop.go`, `cmd/daemon_stopfile.go`) | stop file, lock file, processes | stop, graceful stop, kill, watcher | one daemon process follows another |
| project state (`internal/state`, `internal/output`) | `state.json`, `todos.md` | Load, Save, MergePipelineResult, ProjectLock, GenerateTodos | handlers and hour-long runs write the same files, `todos.md` without a lock |
| finding lifecycle (`internal/web/handlers/lifecycle.go`, `internal/web/apply`) | lifecycle and reversal of each finding, target files | apply, undo, dismiss, resolve, undismiss, unresolve | two files are written one after the other |
| pipeline (`internal/pipeline`) | run context, chat keys, discovery cache, kept Phase 1 | Run and its stages | snapshot at the start, merge at the end; what a later run may skip |
| analyzer (`internal/analyzer`) | session pool, errgroup, chunk results | Acquire, Release, Close, RunChunks | parallel sessions, cancellation, partial failure |
| background jobs (`internal/backgroundjobs`) | job store, run records, per-job locks | Executor.Run, Store.Update, RunStore | overlapping runs, a lock that refuses, deaths half-way |
| timers of the operating system (`backgroundjobs/reconcile.go`, `scheduler_linux.go`) | a timer and a service unit per job | Install, Remove, ListOwn, ReconcileSchedules, SelfRepair | decisions on a snapshot, calls that fail half-way, four front ends |
| state cache and event bus (`internal/state/cache.go`, `internal/pipeline/events.go`) | cached files with their times, subscriber channels | GetState, GetHistory, Invalidate, Publish, Subscribe | stale fills, drops, channels that close |
| pages (`web/static/js/dashboard.js`, `projects/findings.html`) | what a page shows | a load per event and per action | loads overlap, fail, and end in any order |
| agents over ACP (`internal/analyzer/providers/acpcore`) | the agent's process, pending calls, streams | Start, session.Run, Close, readLoop | a process that may hang or die, one pipe for all sessions |
| the rest | | | functions of their input, adapters, pages |

How they interact. The daemon loop and the web server enqueue jobs; a worker
takes a job and runs the pipeline under a deadline; the pipeline reads chats,
runs the analyzer and merges its result into `state.json`, which the web
handlers write too. A per-project lock in memory orders the writers of one
process. The lock file is to keep a second daemon away, so that the queue may regard
the `running` rows it finds as those of a dead process, unless the process named in
the old lock is alive. Signals, the stop file
and the restart hook of the web server cancel the one run context they all share.
`dreamer analyze` runs the pipeline in a process of its own, without the lock.
The writers of `state.json` invalidate the cache of the web server and publish on
the event bus, whose subscribers are the pages. Background jobs are apart from the
analysis: systemd starts `dreamer jobs run`, and the web server, the commands and
the interactive list change the same job file from processes of their own.

What makes each part correct:

- **Queue**: one unfinished job per project; running rows are the jobs workers
  hold; no wake-up is lost; an outcome is final; nothing unfinished is forgotten
  by a crash; the daemon ends although a pipeline hangs.
- **Lock**: a daemon that got past the races of AcquireLock is alone for as long as it
  lives; a start is refused, and running rows are left alone, only for a live daemon.
- **State**: only the operator moves a finding; no run undoes a decision; what an
  undo needs is kept until the undo; no finding is lost between the two files but by
  two runs that rewrite `todos.md` at once.
- **Pipeline caches**: a skipped run passes over nothing that no warning names; an
  unchanged project costs no provider call; a replayed Phase 1 fits the chats it stands
  for.
- **Analyzer**: the books of the pool are right; nobody waits for ever; no session
  process outlives the run; a result says whether it is complete.
- **Background jobs**: no front end undoes what another saved; only an enabled job
  runs; timers follow jobs; health is of the last run; new records survive pruning.
- **Cache and bus**: a load is answered with every change the page had heard of when it
  began, and the cache never goes back; no send meets a closed channel.
- **ACP**: no call waits for an answer that cannot come; a text is whole; every Run
  returns whatever the agent does.

## The modules

| module | models | refines or is used by |
|---|---|---|
| `JobLifecycle` | the life of an analysis job as its users see it | abstract |
| `JobQueue` | queue, jobs.json, workers, scheduler, web enqueue, shutdown, crash | implements `JobLifecycle` |
| `FindingLifecycle` | where the operator sees a finding, what can be undone | abstract |
| `ProjectState` | state.json, todos.md and a target file, written by handlers and runs | implements `FindingLifecycle` |
| `DaemonLock` | lock file, stop file, processes with PIDs | |
| `ChunkedAnalysis` | session pool, Phase 1 in both modes, Phase 2 | |
| `AnalysisCache` | chat keys, discovery cache, kept Phase 1 across runs | |
| `BackgroundJobs` | the job store, timers, runs and their records, from all four front ends | |
| `WebView` | the cached state files, their writers, the event bus and the pages | |
| `AcpTransport` | provider, sessions, transport and reader of an ACP agent, and the agent | |
| `MC...` | constants for TLC | extends its module |
| `...Proofs` | invariants and proofs | extends its module and `TLAPS` |

### JobQueue

An action is one critical section of `Queue.mu`, or one step of a goroutine
between two of them. `jobs` is `q.jobs`, `disk` is `jobs.json`; a row that has
been pruned or not yet appended is `absent`. The worker's program counter
follows the loop of `cmd/workers.go`: `CheckCtx`, `DequeueJob` or
`DequeueNothing`, then `IdleWoken`, `IdleTimer` or `IdleCancelled`, or the
pipeline, which a `Deadline` may overtake (`PipelineReturn`, `RecordOutcome`).
`Enqueue` and the send on the wake channel are two steps, as the code sends after
it unlocks; so are `HasActiveJob` and `Enqueue` of a scheduler tick
(`VisitProject`, `EnqueueMissing`). Every transition saves in its own section and
the save may fail (`SaveCanFail`): the code logs the failure and goes on, so
`jobs.json` stays behind until the next save. `Boot` is Recover with
recoverStaleJobs, which returns without reaping when the PID of the old lock is alive
and not shown to be another program (`workers.go:219-228`): here any start may do so,
and `left` is the set of running rows it then leaves, which no worker holds.
`DaemonLock` says when that happens. `Crash` may fall anywhere, `Shutdown` to `Exit`
is the order of `runDaemonLoop` and `workers.Stop` with its grace period.

### ProjectState

`disk` is `state.json`; an entry keeps status, whether an apply plan is recorded,
and the reversal of an apply. A handler takes the lock and loads (`Load`),
refuses (`Refuse`) or acts (`ApplyFile`, `UndoFile`, `SetAside`, `TakeBack`), and
saves. The target file is written before the save, so a failed save or a death
leaves the two apart. A run loads its snapshot without the lock (`StartRun`); at its
end GenerateTodos reads `todos.md` (`ReadTodos`) and writes the whole file from what
it read (`WriteTodos`), without a lock either, and the run takes the lock and merges
(`Merge`); `draft` is what it holds between the two. `FailRun` and `AbandonRun` are
its other ends. A run in `Foreign` belongs to a `dreamer analyze` process, whose lock
is another one. `Calls` is which calls clients make on a finding in which status: all
of them in both runs. `deleted` and `raced` are history variables: the findings whose
entry an undismiss or unresolve has deleted, and those listed while another run was
between its reading and its writing of `todos.md`. `FindingLifecycle` has both
weaknesses of the code in the open: a finding that was taken back (`dropped`) may be
revived by an analysis that began earlier, and applying a finding that was set aside
replaces its undo.

### DaemonLock

Each step is one call on the file system or the process table. `Create`, `Write`,
`Inspect`, `Judge` and `Remove` are the loop of AcquireLock; `ReadLock` to
`RemoveLock` is `dreamer stop`; `WatchStopFile` to `Release` the end of a daemon.
PIDs come from `PidOf`, so a PID may be reused by another program (`Others`) or by
a later daemon. Everything overlaps: starts, stop commands, signals and ends come in
any order, and `Die` and `StopDies` end a daemon or a stop command at any step.
`rows` is who holds the running rows of `jobs.json`, `queue` what each daemon has
taken over in memory; `Boot` is the gate of recoverStaleJobs. `calm` is a history
variable: the daemons that wrote their PID while nobody else was about to write,
judge or remove the lock (`Undisturbed`).

### ChunkedAnalysis

One critical section of the pool's mutex per action, and one action per call that
leaves it: the factory, the prompt, the release. A waiter has a watchdog that
broadcasts when its context is done, as lines 97-108 of `sessionpool.go` do. A
prompt ends in one of five ways, the outcomes the orchestrator distinguishes:
clean, not parseable, without a summary, an error, a rate limit. In sequential
mode one chunk follows the other on one session. `Gather` reads the results,
`Phase2Begin` and `Phase2Returns` are Phase 2, `ClosePool` the deferred Close.

### AnalysisCache

A chat is its version; an append raises it, and the version stands for content,
hash and modification time. `Discover`, `LoadState`, `CheckDiscovery`,
`HashSources`, `ReadTranscripts`, `Analyze`, `SaveResult`, `UpdateDiscovery` are
the stages of `Run` in their order, each an action because chats grow and HEAD
moves between them; `SaveEmpty`, `FailAnalysis`, `ReportHit` and `Abort` are its
other ends, `Restart` the death of the process. A chat is read up to `Budget`, with a
warning when there is more; transcripts of `Subagents` are hashed and recorded like
all others and not read, as the code does by default; a dropped chunk loses its
chats with a warning. `seen`, `told` and `served` are history variables: the versions
a saved result accounts for, those a warning beside one names, and what the last
saved result was for. `HashesMayFail` and `ReadsMayFail` let a chat's file be
unreadable for a moment.

### BackgroundJobs

Every front end makes calls (`create`, `edit`, `pause`, `resume`, `delete`,
`reconcile`, `run`), and a call is a sequence of accesses to something shared:
`LockStore` and `SaveStore` are Store.Update, `StoreError` its ways to fail,
`Install` and `Remove` the calls of `systemctl`, each with a way to fail half-way.
Where the front ends differ the model does: `AfterChange`, `Captured` and
`WritesBack` say what the web handlers, the commands and the interactive list
install, when, and whether they record it. A reconciliation loads (`LoadSnapshot`),
lists the timers and applies `Wanted` one action after the other. A run goes through
`FindJob`, `LoadJob`, `SelfRepair`, `BeginRun`, `Claim`, `EndSession`, `AppendRun`,
`Prune`, `Rewrite`, `Release`. `Crash` takes all threads of a process; `Remove` may
kill the run of the service it stops. `mayRun`, `calm`, `tidy`, `written` and `ended`
are history variables, one per property. `AtomicLocks` states that two processes are
not inside AcquireLock at the same moment; `DaemonLock` shows what happens then.

### WebView

A file is the set of writers whose change it holds, which also stands for the time
and size the cache compares. Each writer is the sequence save, invalidate, publish
of its code, in that code's order and with that code's omissions: handlers
(`Begin` to `Return`), a run (`StartRun` to `Complete`), a chat deletion, and a
`dreamer analyze` process, which only saves. `Send` delivers or drops one event to
one subscriber, `Forward` writes it to the connection. `Hear` is the code of the page:
at every event it listens for it begins a load, whether or not another is under way;
`Reload` is opening the page, reloading it, or what follows an action of its own, and
`Ignore` an event it does not listen for. A load is `Look`, `Load`, `Stat`, between
which writers move, for the state and on a dashboard once more for the history.
`Arrive` shows whatever answer comes, in any order; `Fail` loses one, and nobody asks
again. `heard`, `served` and `ends` are history variables: the changes a page was told
of, the cache's last answers, and what each run has published.

### AcpTransport

A call is filed (`Store`), sent (`Enter`, `Write`), awaited (`Receive`, `GiveUp`) and
removed (`Leave`, part of the action that follows it). `Begin` to `Finish` is
`session.Run`, `Start`, `Started`, `Shut` and `Reap` the provider's Start and Close.
`HangUp` and `Wake` are the two halves of `markClosed`, which a call may come
between. The pipes are bounded sequences; `Write` blocks on a full one with the lock
of all senders, as the code does. The agent may do or not do anything that keeps to
the protocol. `StartCtx` chooses who cancels the context the process was started
with: "start", as the pipeline does, or "run", a context that lasts.

## The runs

| run | question | bounds |
|---|---|---|
| `queue_safe` | does the queue implement the life of a job, with jobs.json current, no zombie row and no lost wake-up? | 2 projects, 2 workers, 1 web request, 3 jobs, saves succeed |
| `queue_live` | is a waiting job started, a running one recorded, a stop completed, an outcome final, although saves and loads fail? | 2 projects, 1 worker, 2 jobs |
| `state_calls` | whatever clients call beside a run: who moves a finding, what can be undone, what can be applied? | 2 findings, 1 handler, 1 run, cap of 1 hash, saves fail, crashes |
| `state_todos` | does a run lose a finding for good, beside `dreamer analyze`? | 3 findings, 2 runs of which 1 foreign, cap of 1 hash, saves fail, crashes |
| `lock_overlap` | what does the lock give a daemon, who is refused, whose rows are spared, in any order of everything? | 2 daemons, 2 stops, 1 other program with the PID of a daemon |
| `analysis_chunks` | is the pool right and does every run end, without leaks? | 3 chunks, 2 sessions, both modes |
| `cache_skip` | is nothing skipped in silence, and an unchanged project skipped? | 2 chats and a subagent's transcript, one chat outgrows the budget, 2 commits |
| `jobs_timers` | do timers follow the job, does every edit stay, do orphans go? | 1 job, 2 schedules, a thread of the web server, an interactive list, a command; all calls may fail or die |
| `jobs_runs` | who runs, what is recorded, what is the health? | 1 job, 3 records of which 1 is kept, a command and the OS scheduler run, the command pauses |
| `web_view` | is a load answered with what its page was told of, and does the cache go back? | 1 page, 2 overlapping loads, channels of 1, 1 load without an event, a handler and a chat deletion, or a run and `dreamer analyze` |
| `acp_runs` | does every Run return, whole, and no call strand? | 2 sessions, pipes of 1 and 2 lines, 1 word of the agent besides its answers |
| `acp_start` | is a started agent left alone until the deadline? It is not: see [disagreements](#disagreements) | 1 session |

Why these bounds are enough. A race on the queue takes one project, two enqueuers and
two workers; a second project makes a free worker and a row of another project possible,
a third job makes pruning and a second job of one project possible. A file race takes a
holder and one other actor; two findings that share a target file are what an undo can
get wrong; a third finding is one that neither of two runs has found. A daemon's lock is
disturbed by one other start or one stop that judged an older lock; the second stop is
the one that meets the first, and the other program has the PID of a daemon. One waiter
beside two holders is what a session pool of two can do to a third chunk. Two versions
of a chat are the one a run found and one that came after it, a third the one that no
longer fits the budget; a second chat makes a state of one mixed with a state of the
other. A disagreement about one job's timer takes one job, the front that changes it,
the one that does not see the change, and a reconciliation; two schedules tell an old
timer from a new one. Two runs and three records are what pruning to one record can drop
the wrong of. Two loads are what can overlap in a cache entry, of one page or of two, as
the cache does not know pages; more than two writers, or other pairs, take turns on one
lock. `WebView_pages.cfg` identifies the two loads (`SYMMETRY`) and states that differ
only in `ends` and `shown` (`VIEW`), two variables that no step and no property of the
run reads. Two sessions are one that blocks the pipe and one that is blocked; one word
is enough to be lost.

Some runs state assumptions in their `.cfg`; they are about clients and
surroundings and not about the code: `HashesMayFail` and `ReadsMayFail` in
`AnalysisCache`, `AtomicLocks` and `Uses` (which front makes which calls) in
`BackgroundJobs`, `Casts` (which writers take part together) in `WebView`. Where
executables cannot be named, `ExecKnown` in `DaemonLock` is false. What happens without
them is under [disagreements](#disagreements). Of a running row that a start left, the
properties of `JobQueue` say what they can: `SlotsRemain` is a premise of
`NoLostWakeup` and `PendingIsServed`, as such a row takes a slot until the next start.
`CHECK_DEADLOCK FALSE` stands where the modelled system ends: all processes of
`DaemonLock` are gone, a run has returned, every writer and page has had its turn, the
agent is dead, the bound on records is met.

### Fairness

`JobQueue` assumes that goroutines run. Weak fairness: every worker's own steps,
the deadline timer of a job, the loop of the scheduler, the send on the wake
channel, the end of `workers.Stop`, the exit. Strong fairness: `LoopStops`, the
`select` of `runDaemonLoop` taking its cancelled context although ticks keep
coming, which Go's random choice among ready cases justifies. None is assumed of
ticks, requests, crashes, restarts, the idle timer or signals. A pipeline may hang;
`PipelineFairness`, that it returns once its context is done, is a premise of
`PendingIsServed` and `RunningIsRecorded` only, and `StopCompletes` does without.
The one-second timer of an idle worker is not fair either: wake-ups suffice.

`ChunkedAnalysis` assumes that goroutines, watchdogs and `RunChunks` run. That a
provider's call ends, `ProviderFairness`, is a premise of `EveryRunReturns`.

`AcpTransport` assumes one thing, `WF_vars(Code)`: while some step of this program,
a timeout or the killing of a process is possible, not everything stands still. It
is weaker than fairness of each goroutine and enough, because each caller makes a
bounded number of calls and the agent says a bounded number of words, so that every
behaviour stops by itself. Nothing is assumed of the agent, and nobody need begin a
session. `Deadline` says that the context of the whole run ends, as the worker's
deadline makes it (`cmd/workers.go`).

## The proofs

| theorem | property | assumptions |
|---|---|---|
| `JobQueueProofs!TypeCorrect` | `TypeOK` | |
| `JobQueueProofs!QueueInvariant` | inductive invariant | |
| `JobQueueProofs!OneActive_always` | `OneActivePerProject` | |
| `JobQueueProofs!RunningHeld_always` | `RunningMeansHeld` | |
| `JobQueueProofs!OutcomeIsFinal_always` | `OutcomeIsFinal` | |
| `JobQueueProofs!NoLostWakeup_always` | `NoLostWakeup` | |
| `JobQueueProofs!DrainedIsQuiet_always` | `DrainedIsQuiet` | |
| `JobQueueProofs!DiskIsCurrent_always` | `DiskIsCurrent` | saves and loads succeed |
| `JobQueueProofs!Refinement` | `ImplementsLifecycle` | saves and loads succeed |
| `ProjectStateProofs!TypeOK_always` | `TypeOK` | |
| `ProjectStateProofs!NoFindingLost_always` | `NoFindingLost` | |
| `ProjectStateProofs!CanBeApplied_always` | `CanBeApplied` | |
| `ProjectStateProofs!CopyInvariant` | inductive invariant | no `dreamer analyze` process |
| `ProjectStateProofs!RunsLeaveLifecycle_always` | `RunsLeaveLifecycle` | no `dreamer analyze` process |
| `ProjectStateProofs!ReversalIsKept_always` | `ReversalIsKept` | no `dreamer analyze` process |
| `ProjectStateProofs!Refinement` | `ImplementsFindingLifecycle` | no `dreamer analyze` process |
| `DaemonLockProofs!RefusedForDaemon_always` | `RefusedForDaemon` | own PIDs, executables known |
| `DaemonLockProofs!SparedForDaemon_always` | `SparedForDaemon` | own PIDs, executables known |
| `DaemonLockProofs!EstablishedIsAlone_always` | `EstablishedIsAlone` | executables known |
| `ChunkedAnalysisProofs!TypeOK_always` | `TypeOK` | |
| `ChunkedAnalysisProofs!PoolAccounting_always` | `PoolAccounting` | |
| `ChunkedAnalysisProofs!NoStrandedWaiter_always` | `NoStrandedWaiter` | |
| `ChunkedAnalysisProofs!NoSessionLeaks_always` | `NoSessionLeaks` | |
| `ChunkedAnalysisProofs!ResultIsHonest_always` | `ResultIsHonest` | |
| `AnalysisCacheProofs!TypeOK_always` | `TypeOK` | |
| `AnalysisCacheProofs!NothingSkippedSilently_always` | `NothingSkippedSilently` | hashes and reads succeed |
| `AnalysisCacheProofs!NoOpRerun_always` | `NoOpRerun` | hashes and reads succeed |
| `AnalysisCacheProofs!ReplayIsCurrent_always` | `ReplayIsCurrent` | hashes and reads succeed |
| `BackgroundJobsProofs!OnlyEnabledJobsRun_always` | `OnlyEnabledJobsRun` | |
| `BackgroundJobsProofs!EditsAreKept_always` | `EditsAreKept` | locks exclude (`AtomicLocks`) |
| `BackgroundJobsProofs!HealthIsOfLastRun_always` | `HealthIsOfLastRun` | locks exclude |
| `BackgroundJobsProofs!OrphansAreRemoved_always` | `OrphansAreRemoved` | |
| `BackgroundJobsProofs!TimersFollowJobs_always` | `TimersFollowJobs` | no edit in the interactive list (`FrontsUse`) |
| `BackgroundJobsProofs!TypeOK_always` | `TypeOK` | |
| `BackgroundJobsProofs!NewestRunsKept_always` | `NewestRunsKept` | locks exclude |
| `WebViewProofs!TypeOK_always` | `TypeOK` | |
| `WebViewProofs!NoSendOnClosed_always` | `NoSendOnClosed` | |
| `WebViewProofs!AnswersNeverGoBack_always` | `AnswersNeverGoBack` | |
| `WebViewProofs!HeardIsAnswered_always` | `HeardIsAnswered` | |
| `AcpTransportProofs!TypeOK_always` | `TypeOK` | |
| `AcpTransportProofs!NoStrandedCall_always` | `NoStrandedCall` | |
| `AcpTransportProofs!TextIsWhole_always` | `TextIsWhole` | |

They hold for any number of projects, workers, requests, jobs, findings, runs,
processes, PIDs, chats, commits, versions, front ends, pages, loads under way, writers,
sessions and lengths of pipes and channels. The assumptions are those of the runs, and
each has its reason:

- *Saves and loads succeed*: after a lost save a restart sees an older queue, which
  the code accepts (it logs the error and goes on). All other theorems about the
  queue hold with saves and loads that fail.
- *No `dreamer analyze` process*: its lock is another one, so its merge and a call of
  the dashboard can overwrite each other; `ProjectState_analyze` shows it.
  `NoFindingLost` and `CanBeApplied` hold with any number of such processes.
- *Executables known*: where the platform cannot name the executable of a process
  (`DaemonLock_noexec`). Processes, stop commands among them, die at any step.
- *Own PIDs*: no two of the model's daemons share a PID, while another program may get
  the PID of a dead one. A daemon with the PID of the one it follows would take itself
  for the holder.
- `AtomicLocks`: the store's lock and those of runs are taken by the same
  AcquireLock as the daemon's, whose race `DaemonLock_starts` shows;
  `BackgroundJobs_locks` shows what it does here. `AbsenceAssumption` says only that
  the model values for "no row" and "no timer" are none.
- `FrontsUse`: a timer starts `jobs run` and nothing else, and an edit in the
  interactive list installs the timer of a paused job (`BackgroundJobs_listedit`).
- *Hashes and reads succeed*: `AnalysisCache_unreadable`. Chunks may be dropped, chats
  cut off and subagents' transcripts left out.

Their arguments:

**JobQueue.** One active job per project is proved of memory and disk together, as
a failed save leaves them apart and a restart reads the disk. It is not inductive
alone: `IInv` adds that rows from `nextId` on are absent in both (`FreshRows`: a new
job meets no old row), that a busy worker holds a job of its own and the running
rows are just those and the ones of `left` (`HeldJobs`, `RunningMeansHeld`: an outcome
goes to its own row), and that a process that is gone leaves no worker or half-made enqueue
behind (`NothingLeft`). A row that a start did not reap is in `left` and in no
worker's hands; the refinement sees it as the job it is, still running until a start
fails it, and a dead daemon's jobs as the rows of `jobs.json`. `OutcomeIsFinal`
follows from `IInv`, as a row that a worker reports on or a start reaps is a running
one. `NoLostWakeup` is inductive beside it: a step that fills the queue leaves a token
or an enqueuer, one that drops a token finds one there, and a worker that takes the
last one is on its way to Dequeue. For `DrainedIsQuiet` no worker comes back once all
are seen out (`WorkersOut`), and a running row outside `left` has a worker.

**ProjectState.** The state file is written from copies, so the invariant is about
copies. `CopyInv`: a local actor past its load holds the lock (`Guarded`), and
`Consistent` says what its copy may differ in from the disk: a handler's in its one
finding and by the move it was asked for (`Moves`), a merged one in no entry the disk
has and in what it adds to the findings no call has deleted, which are open. That a
snapshot's entry is open or absent where the disk has none and nothing was deleted is
why the merge of an hour-old snapshot moves nothing. The refinement reads the deleted
entries that are still absent as `dropped`. `CanBeApplied` has an invariant of its own,
`CaptureInv`: on disk and in every copy, however stale, a recorded hash has its plan
unless its entry was deleted, because a run adds both to one snapshot and a merge loses
neither. `NoFindingLost` rests on `Listed`: what a run has read of `todos.md` and what
is there now differ only by what was listed while two runs were in it.

**DaemonLock.** `RefusedForDaemon` and `SparedForDaemon` rest on `NamedInv`: a PID in
the lock file is that of its creator, so neither a start that judges the lock nor one
that boots has its own PID before it. `EstablishedIsAlone` rests on `CalmInv`: once a
daemon has written its PID with nobody else about to write, judge or remove the lock,
whoever comes later reads that PID (`Keeps`: starts that judge and stops that wait
have seen it), finds its process alive and of this program (`HolderIsLive`, by
`PidsApart`: two live processes never share a PID), and so neither removes the file
nor gets past AcquireLock.

**AnalysisCache.** Skipping is right because keys are compared with what was known when
the chats were found. `Accounted`: a version in the saved keys or in the discovery cache
is either covered by a saved result or older than the chat is now. `Settled`: of a chat
found, what the caches know is no newer than what was found, and where it is the same it
is covered; it is fixed at `Discover` and survives all appends. `Reaches` runs from the
chats found over the keys hashed to the versions read: each stage sees versions no older
than the one before, which is why hashing before reading is the right order and the
reverse would not be. Of a chat over the budget a part is read (`InPart`) and a warning
names the whole (`ReadInPart`): what is accounted for (`Done`) is what saved results
cover and what their warnings name. `NoOpRerun` needs `KeysOfServed` besides: the saved
keys are those of the last served run.

**ChunkedAnalysis.** `PoolAccounting` and `NoStrandedWaiter` are conjuncts of the
invariant `Inv`, which adds what they rest on: a chunk has a session exactly while it
runs its prompt (`Handed`), the free sessions are all different (`Distinct`), and the
processes are those of the sessions the pool knows and of those made but not yet
handed over (`Processes`), so that closing the pool leaves none. In sequential mode
a chunk begins when those before it are done and well (`Ordered`); that is why
nothing of Phase 1 moves any more when the result is made (`Resting`), even after
the loop broke off. `CallShape` says what all steps of one chunk have in common.

**BackgroundJobs.** `PcInv` says of every place of a call which calls can be there,
and that a run past its check is in `mayRun`; the load is the only way past it.
`EditsAreKept` needs more: `LockInv`, that the call with the store's lock is the only
one and has loaded what is still on disk, and `CreateInv`, that a job that is being
created is not there yet. Without `AtomicLocks` the first fails, and the property.
The other theorems need types and, per action, what it makes of its call field by
field (`Turns`, `RunSteps`). `HealthInv`: whoever is in a run has its job's lock alone
until the outcome is saved, and a row that differs from the last outcome is about to
have it reported. `CalmInv`: in a reconciliation that nothing came between, every
timer without a job is on its list or being removed, and what it will install has a
job; it needs no lock. `TidyInv`: as long as calls do not overlap and succeed, each
job's timer is the one it should have, except that of the job the one call is `Behind`
with, and `Fits` says of each place of that call that what it will still do is right.
`RecordInv`: a run's record has a time of its own and is in no file until it is
appended (`Fresh`), so no file has one twice. That makes readAll's sort provable
without an induction: a record's place is the number of records that are not older,
which is a bijection (`ReadAllSorts`). `NewestInv` adds that a call about to rewrite a
file holds the newest of exactly what is in it (`RewritesCurrent`), and that of all
records written each is in the file or has `Keep` newer ones there.

**WebView.** `NotOlder` carries `AnswersNeverGoBack`: one load reads at a time, under
the lock from `Load` to `Stat`, and what it has read and what the cache holds is at
least what was answered last. `HeardIsAnswered` adds `Settled`: a change whose writer
has invalidated, or that any page or channel knows of, is in the file, in the entry
and in every answer to come, although the file is read before its time; and `Kept`: a
load has in its answer what its page had heard of when it began. Both hold for any
number of loads at a time; in which order their answers arrive is the page's affair,
which `WebView_overlap` shows.

**AcpTransport.** `Held` is per caller: a filed call is in `pending` with an empty or
a fresh channel (`Filed`), one stored while the reader hangs up is woken or sees the
flag (`Woken`), and a channel belongs to one call (`Alone`). `Whole` is per session:
there is at most one prompt among the pipes, the agent and the answers
(`OnePrompt`, `OwnCall`), and the chunks in the stream and in the pipe before the
answer are those sent (`Counted`); no answer overtakes a chunk since the pipe is a
sequence and the reader one.

### Only model-checked

Liveness (`PendingIsServed`, `RunningIsRecorded`, `StopCompletes`, the two
`EveryRunReturns`), because TLAPS does not reason about fairness and ENABLED. Every
invariant and every action property of the runs is a theorem. The violation that
`acp_start` finds and the configurations kept beside the runs are TLC's.

## Disagreements

One run finds the program at odds with its documentation.

`acp_start`: the pipeline gives Start a context that it cancels as soon as Start has
returned (`pipeline.go:620-628`, and `replay.go:254-256` alike), and `acpcore` starts
the agent with `exec.CommandContext` on that context (`transport.go:396`), so the
agent is killed before its first session. `docs/PROVIDERS.md:30` calls it "the
long-lived child process"; the sibling adapter detaches from the context and says
why (`opencodehttp.go:171-172`). `acp_runs` checks the rest of the adapter under a
context that lasts as long as the run.

More configurations are kept beside the runs, each with a property that the code, or a
word about it, suggests and that does not hold; each shows the shortest behaviour in
which the property fails. They are for whoever wants to see it: `tlc -config X.cfg
MC<module>` (with `-continue` where a configuration names two).

| configuration | property | what it shows |
|---|---|---|
| `ProjectState_undismiss` | `DeletedStaysDeleted` | an operator dismisses, a run takes its snapshot, the operator undismisses, the run merges: the entry, absent from the disk, is copied whole from the snapshot (`merge.go:84`) and dismissed again; `lifecycle.go:332-333` returns it to "the open pool" |
| `ProjectState_cap` | `HashesBounded` | the merge unites the capped hash list with the one on disk (`merge.go:69`), so the cap of `cache.go:151-155` has no effect |
| `ProjectState_plan` | `AdviceHelps` | undismiss deletes the entry with its apply plan while the hash stays recorded (`lifecycle.go:354`), so no later run restores the plan, as the message at `lifecycle.go:152` says one would |
| `ProjectState_analyze` | `RunsLeaveLifecycle` | `dreamer analyze` has a lock of its own (`pipeline.go:936`) |
| `ProjectState_reapply` | `PreimageIsKept` | the guard at `lifecycle.go:160-162` looks at status `applied` only: apply, dismiss, apply replaces the reversal, and the findings page offers it (`findings.html:47-51`) |
| `ProjectState_listing` | `FindingsListed` | a run of the daemon and a `dreamer analyze` rewrite `todos.md` from what each has read (`generator.go:62-75`): the slower drops what the other listed, and both record the hashes |
| `DaemonLock_starts` | `MutualExclusion` | a start that reads a lock file between its creation and the write of its PID takes it for corrupt and removes it (`lock.go:78`); `queue.go:274` relies on there being one daemon |
| `DaemonLock_restart` | `StopSparesTheLock` | a stop removes the lock by name, that of a daemon started meanwhile (`stop.go:87`) |
| `DaemonLock_stopfile` | `NoStaleStopFile` | a stop command writes the stop file when the daemon, ending by itself, has removed it and not yet the lock: the command sees the lock go and leaves the file to the next daemon, against `daemon_stopfile.go:71-73`. A stop command that is killed leaves it as well |
| `DaemonLock_noexec` | `EstablishedIsAlone` | where executables cannot be named, stop takes a live daemon's lock for stale (`stop.go:81`) |
| `DaemonLock_handover` | `ZombiesReaped` | recovery of stale rows is gated on a stale PID (`workers.go:219`), against the comment above it: a daemon that starts while another ends keeps the other's rows, which nobody then finishes |
| `AnalysisCache_gaps` | `SkipMeansAnalyzed` | the keys of all chats are saved (`pipeline.go:807`), also of one that was cut off at the budget (`transcript.go:105`), of a subagent's transcript (`transcript.go:89`) and of those of a dropped chunk; `pipeline.go:710-712` avoids just that for the kept Phase 1 |
| `AnalysisCache_unreadable` | `NothingSkippedSilently` | a chat that cannot be hashed or read for a moment is recorded with the rest, without a word |
| `BackgroundJobs_repairs` | `ReconcileRepairs` | a web pause removes the timer and leaves its record, a web resume that fails installs none: enabled, recorded, no timer, and `checkInstallNeeded` looks at the record only (`reconcile.go:136`). `jobs_reconcile.go:23-25` promises to correct "missing installs", the warning at `handlers/jobs.go:1171` to retry |
| `BackgroundJobs_listedit` | `TimersFollowJobs` | the interactive list installs the timer of a paused job switched on (`jobs_interactive.go:331`) |
| `BackgroundJobs_locks` | `EditsAreKept` | the store's lock inherits the race of `DaemonLock_starts`, so one save may undo another |
| `WebView_overlap` | `HeardIsShown` | two loads of a page overlap (`dashboard.js:51`, `findings.html:79`, `:124`) and the older answer arrives last; with `LoadsFail` a load that failed is not repeated (`findings.html:70`) |
| `WebView_unshown` | `HeardRunIsCounted` | nothing invalidates the cache between SaveHistory and run.done, which `cache.go:154-157` asks for |
| | `HeardDeletionIsAnswered` | chat.deleted leaves before the state is saved (`chats.go:246`) |
| `WebView_ends` | `StartIsAnswered` | a run that finds nothing changed publishes run.start and no end (`pipeline.go:881`) |
| | `OneEnd` | a run that succeeds after its deadline publishes run.done and run.error (`workers.go:185`) |
| `AcpTransport_write` | `EveryRunReturns` | a write to a full pipe ignores the context of its Run (`transport.go:199`): without the run's deadline nothing frees it |

Met while modelling and not in a configuration: a job created between the load and the
listing of a reconciliation loses its timer as an orphan; Remove stops the service, so
pausing or deleting a job kills its run, which leaves no record; after a deadline or a
cancellation the job's last run and health stay as before (`runner.go:532`);
max_chunk_bytes raised as the warning of a cut-off chat advises, or subagents'
transcripts switched on, changes nothing until a chat or HEAD does, because the keys
that let a run be skipped do not cover the configuration; the dashboard does not listen
for finding.undone (`dashboard.js:52-57`); a daemon that finds its own PID in the lock
of a dead one, as in a container, takes itself for the holder and is refused; undismiss
and unresolve publish no event; no page listens for `apply.state_save_failed`; a server
started as `dreamer web` hears of no save of the daemon; errors of a failed send lack
the `ErrUnavailable` that `acpcore.go:25-26` promises.

## Not modelled

The analyzer's prompts, parsing and validation, the provider adapters that run one
process or request per prompt, chat readers, the sandbox, the MCP server, rendering of
`todos.md` and pages: functions of their input, or protocols of other programs; the
models take their outcomes from small sets. Logging, diagnostics, capture and replay
of calls never change a result.

Within the modelled parts: `CancelRunning`, which only tests call; the second merge of a
run that fails after Phase 1; usage counters; anchored apply strategies; lock files of
versions that did not record an executable; the search for a server by its port; in
`AnalysisCache` the rule packs and the lookback window, which only the key of the kept
Phase 1 covers, and the deletion of chats; in `WebView` the reconnection of an event
stream; two runs of one project at a time, which `JobQueue` excludes within the daemon;
the schedulers of macOS and Windows, which implement the interface `scheduler_linux.go`
does; the limit on the number of jobs; the audit log; what permissions an agent is
given; the content of messages. Schedules are names: which moments they stand for, and
the next of them, is not modelled, nor are the precedence of configuration layers and
the packing of chunks.

## Plan

Done, in this order: `JobQueue`, `ProjectState`, `DaemonLock`, `ChunkedAnalysis`,
`AnalysisCache` with the abstract `JobLifecycle` and `FindingLifecycle`, then
`BackgroundJobs`, `WebView` and `AcpTransport`, their runs and the proofs above.

Left:

1. Compositions: `DaemonLock` with `JobQueue` (which starts leave which rows),
   `ChunkedAnalysis` with `AnalysisCache` (which chunks a run may lose and still save;
   RunPhase2Only on a kept Phase 1), `ProjectState` with `WebView`.
2. Operators against a reference definition: next run of a schedule, precedence of
   configuration layers, packing of chunks.
