--------------------------- MODULE BackgroundJobs ---------------------------
(***************************************************************************)
(* Background jobs: prompts that the operating system's scheduler runs.    *)
(* The jobs are rows of one file that every process of dreamer changes     *)
(* under a file lock (internal/backgroundjobs/store.go); each has a timer  *)
(* in the scheduler (scheduler_linux.go), a lock that its runs take        *)
(* (runner.go) and a file of run records (runs.go).  Four kinds of process *)
(* work on them: the web server (web/handlers/jobs.go), the commands       *)
(* (cmd/jobs.go, cmd/jobs_run.go, cmd/jobs_reconcile.go), the interactive  *)
(* list (cmd/jobs_interactive.go) and the runs the scheduler starts.       *)
(*                                                                         *)
(* An action is one access to something shared: the store's lock, a load,  *)
(* a save, a call of the scheduler, an append.  A lock of a dead process   *)
(* counts as free: the next AcquireLock removes it.  That AcquireLock      *)
(* gives a lock to one process at a time is an assumption here,            *)
(* AtomicLocks: module DaemonLock shows when it does not.                  *)
(***************************************************************************)
EXTENDS Naturals, Sequences, FiniteSets

CONSTANTS
  Jobs,        \* job IDs; each is random and given out once
  Specs,       \* schedules a job may have
  Procs,       \* threads of control that make one call at a time
  ProcessOf,   \* the process each of them belongs to
  Front,       \* "web", "cli", "tui" or "os"
  Uses,        \* the calls each of them makes
  Keep,        \* run records a prune keeps
  MaxRuns,     \* bound on the run records made
  AtomicLocks, \* no two processes are in AcquireLock at the same moment
  NoSpec, Absent, NoTimer

Calls    == {"create", "edit", "pause", "resume", "delete", "reconcile", "run"}
Fronts   == {"web", "cli", "tui", "os"}
\* timed_out and cancelled are one: the context or the session was over.
Outcomes == {"completed", "failed", "cut_short"}

ASSUME JobsAssumption ==
  /\ ProcessOf \in [Procs -> Procs]
  /\ Front \in [Procs -> Fronts]
  /\ Uses \in [Procs -> SUBSET Calls]
  /\ Keep \in Nat \ {0} /\ MaxRuns \in Nat
  /\ AtomicLocks \in BOOLEAN /\ NoSpec \notin Specs
  /\ Jobs # {} /\ Specs # {}

VARIABLES
  jobs,       \* jobs.json
  born,       \* jobs that have been created
  storeLock,  \* the calls that hold store.lock
  timers,     \* the scheduler's timer of each job
  runLock,    \* the runs that hold locks/<job>.lock
  runs,       \* runs/<job>.jsonl, in the order of the file
  runsLock,   \* the calls that rewrite it
  now,        \* the time of the last run record
  call,       \* where each call stands, and its local variables
  \* what the properties remember
  mayRun,     \* runs whose job has been enabled since they were asked for
  calm,       \* reconciliations nothing has failed in or come between
  tidy,       \* nothing has failed so far and no two calls have overlapped
  written,    \* run records written, those a torn rewrite lost excepted
  ended       \* outcome of the run of each job that ended last

storeVars == <<jobs, born, storeLock>>
runVars   == <<runLock, runs, runsLock, written>>
vars == <<jobs, born, storeLock, timers, runLock, runs, runsLock, now, call,
          mayRun, calm, tidy, written, ended>>

Job    == [enabled : BOOLEAN, spec : Specs, rec : Specs \cup {NoSpec},
           state : Outcomes \cup {"idle"}]
Timer  == [spec : Specs, on : BOOLEAN]
Action == [job : Jobs, kind : {"install", "remove", "orphan"}, spec : Specs]

\* A row or a timer that is not there is none that is.
ASSUME AbsenceAssumption == Absent \notin Job /\ NoTimer \notin Timer

AnySpec == CHOOSE s \in Specs : TRUE

(* A call: what it is and for which job; the store as it has loaded it;    *)
(* schedule and switch for Scheduler.Install; the actions a reconciliation *)
(* has left; the record of a run, by its time, and its status; what a prune  *)
(* is about to write.                                                      *)
NoCall == [pc |-> "idle", op |-> "run", job |-> CHOOSE j \in Jobs : TRUE,
           snap |-> [j \in Jobs |-> Absent],
           arg |-> [spec |-> AnySpec, on |-> TRUE], todo |-> {},
           run |-> 0, status |-> "failed", kept |-> <<>>]

Init ==
  /\ jobs = [j \in Jobs |-> Absent] /\ born = {}
  /\ timers = [j \in Jobs |-> NoTimer]
  /\ runs = [j \in Jobs |-> <<>>] /\ now = 0
  /\ storeLock = {}
  /\ runLock = [j \in Jobs |-> {}] /\ runsLock = [j \in Jobs |-> {}]
  /\ call = [p \in Procs |-> NoCall]
  /\ mayRun = {} /\ calm = {} /\ tidy = TRUE
  /\ written = [j \in Jobs |-> {}]
  /\ ended = [j \in Jobs |-> "idle"]

RunsOn(row) == IF row = Absent THEN FALSE ELSE row.enabled
Enabled(j)  == RunsOn(jobs[j])
IsOn(j)     == IF timers[j] = NoTimer THEN FALSE ELSE timers[j].on

At(p, l) == call[p].pc = l

(* The calls when that of p has become c, or is over.                      *)
With(p, c) == [call EXCEPT ![p] = IF c.pc = "idle" THEN NoCall ELSE c]
Become(p, c) == call' = With(p, c)
Goto(p, l) == Become(p, [call[p] EXCEPT !.pc = l])

(* AcquireLock: open to a call, or refused because another process has it. *)
(* Threads of one process wait for each other on a mutex of its store.     *)
Threads(q) == {p \in Procs : ProcessOf[p] = ProcessOf[q]}
OpenTo(p, holders)    == \/ holders = {}
                         \/ ~AtomicLocks /\ holders \cap Threads(p) = {}
RefusedTo(p, holders) == p \notin holders /\ holders \ Threads(p) # {}

(***************************************************************************)
(* Asking for a call.                                                      *)
(***************************************************************************)
Start(p, c, j, l, s) ==
  /\ At(p, "idle") /\ c \in Uses[p]
  /\ Become(p, [NoCall EXCEPT !.pc = l, !.op = c, !.job = j, !.arg.spec = s])
  /\ UNCHANGED <<storeVars, timers, runVars, now, ended>>

StartCreate(p, j, s) ==
  /\ Start(p, "create", j, "update", s)
  /\ j \notin born
  /\ \A q \in Procs : call[q].op = "create" => call[q].job # j

StartEdit(p, j, s) == Start(p, "edit", j, "update", s) /\ j \in born

(* The interactive list switches the job as the list shows it.             *)
StartSwitch(p, c, j) ==
  /\ c \in {"pause", "resume"} /\ j \in born
  /\ IF Front[p] = "tui"
     THEN /\ jobs[j] # Absent /\ Enabled(j) = (c = "pause")
          /\ Start(p, c, j, "update", jobs[j].spec)
     ELSE Start(p, c, j, "update", AnySpec)

StartDelete(p, j) == Start(p, "delete", j, "remove", AnySpec) /\ jobs[j] # Absent

StartReconcile(p) ==
  Start(p, "reconcile", CHOOSE j \in Jobs : TRUE, "load", AnySpec)

(* runGuards: the web server has one run of a job at a time.               *)
Guarded(p, j) ==
  /\ Front[p] = "web"
  /\ \E q \in Threads(p) : ~At(q, "idle") /\ call[q].op = "run" /\ call[q].job = j

StartRun(p, j) ==
  /\ Start(p, "run", j, "find", AnySpec)
  /\ IF Front[p] = "os" THEN IsOn(j) ELSE jobs[j] # Absent
  /\ ~Guarded(p, j)

(***************************************************************************)
(* Store.Update: the lock, the load, the mutation, the save.  A call comes *)
(* here to make its change ("update"), to record what the scheduler now    *)
(* has ("record"), or to report the outcome of a run ("report").           *)
(***************************************************************************)
Updating(p) == call[p].pc \in {"update", "record", "report"}

FaultLockStore(p) ==    \* Update loads before it has the lock
  /\ Updating(p)
  /\ IF call[p].snap = NoCall.snap /\ jobs # NoCall.snap
     THEN Become(p, [call[p] EXCEPT !.snap = jobs]) /\ UNCHANGED storeLock
     ELSE OpenTo(p, storeLock) /\ storeLock' = {p} /\ UNCHANGED call
  /\ UNCHANGED <<jobs, born, timers, runVars, now, ended>>

LockStore(p) ==
  /\ Updating(p) /\ OpenTo(p, storeLock)
  /\ storeLock' = storeLock \cup {p}
  /\ Become(p, [call[p] EXCEPT !.snap = jobs])
  /\ UNCHANGED <<jobs, born, timers, runVars, now, ended>>

NewJob(s) == [enabled |-> TRUE, spec |-> s, rec |-> NoSpec, state |-> "idle"]

(* What the callback makes of the row of its job, when there is one.       *)
Edited(c, row) ==
  IF c.pc = "record"
  THEN [row EXCEPT !.rec = IF c.op = "pause" THEN NoSpec ELSE c.arg.spec]
  ELSE IF c.pc = "report" THEN [row EXCEPT !.state = c.status]
  ELSE CASE c.op = "edit"   -> [row EXCEPT !.spec = c.arg.spec]
         [] c.op = "pause"  -> [row EXCEPT !.enabled = FALSE]
         [] c.op = "resume" -> [row EXCEPT !.enabled = TRUE]
         [] OTHER           -> Absent

Mutated(c) ==
  LET row == c.snap[c.job] IN
  IF c.pc = "update" /\ c.op = "create"
  THEN [c.snap EXCEPT ![c.job] = NewJob(c.arg.spec)]
  ELSE IF row = Absent THEN c.snap
  ELSE [c.snap EXCEPT ![c.job] = Edited(c, row)]

(* Where a call goes on after its change is saved, and when it is not.     *)
AfterChange(p, row) ==
  LET c == call[p] IN
  IF c.op # "create" /\ row = Absent THEN "idle"
  ELSE CASE c.op = "create" -> "install"
         [] c.op = "delete" -> "idle"
         [] c.op = "edit" ->
              IF Front[p] = "tui" /\ row.spec = c.arg.spec THEN "idle" ELSE "install"
         [] OTHER -> IF Front[p] = "cli" THEN "reload"
                     ELSE IF c.op = "pause" THEN "remove" ELSE "install"

AfterUpdate(c, changed) ==
  CASE c.pc = "report" -> "append"
    [] c.pc = "update" -> changed
    [] OTHER -> CASE c.op = "reconcile" -> "next"
                  [] c.op = "run"       -> "start"
                  [] OTHER              -> "idle"

(* The schedule and the switch that Install will be given.                 *)
FaultCaptured(p, row) ==    \* an edit of a paused job switches its timer on
  LET c == call[p] IN
  IF c.op = "resume" /\ Front[p] = "web" /\ row # Absent
  THEN [spec |-> row.spec, on |-> TRUE] ELSE c.arg

Captured(p, row) ==
  LET c == call[p] IN
  IF c.pc # "update" \/ row = Absent THEN c.arg
  ELSE CASE c.op = "edit" /\ Front[p] # "tui" -> [c.arg EXCEPT !.on = row.enabled]
         [] c.op = "resume" /\ Front[p] = "web" -> [spec |-> row.spec, on |-> TRUE]
         [] OTHER -> c.arg

SaveStore(p) ==
  LET c   == call[p]
      row == c.snap[c.job] IN
  /\ Updating(p) /\ p \in storeLock
  /\ jobs' = Mutated(c)
  /\ born' = born \cup {j \in Jobs : jobs'[j] # Absent}
  /\ storeLock' = storeLock \ {p}
  /\ Become(p, [c EXCEPT !.pc = AfterUpdate(c, AfterChange(p, row)),
                         !.arg = Captured(p, row), !.snap = NoCall.snap])
  /\ UNCHANGED <<timers, runVars, now, ended>>

(* The lock is refused, or the load, the mutation or the save fails.       *)
StoreError(p) ==
  LET c == call[p] IN
  /\ Updating(p)
  /\ \/ RefusedTo(p, storeLock) /\ UNCHANGED storeLock
     \/ p \in storeLock /\ storeLock' = storeLock \ {p}
  /\ ended' = IF At(p, "report") THEN [ended EXCEPT ![c.job] = "lost"] ELSE ended
  /\ Become(p, [c EXCEPT !.pc = AfterUpdate(c, "idle"), !.snap = NoCall.snap])
  /\ UNCHANGED <<jobs, born, timers, runVars, now>>

(***************************************************************************)
(* The scheduler of the operating system, as scheduler_linux.go drives it. *)
(* Install rewrites the unit files and switches the timer on when asked;   *)
(* nothing in it switches a timer off.  Either call may fail half-way.     *)
(***************************************************************************)
SetTimer(j, s, on) == [timers EXCEPT ![j] = [spec |-> s, on |-> on]]

(* The commands load the job again before they call the scheduler.         *)
Reload(p) ==
  LET row == jobs[call[p].job] IN
  /\ At(p, "reload")
  /\ IF row = Absent
     THEN Goto(p, "idle")
     ELSE Become(p, [call[p] EXCEPT
                       !.pc = IF call[p].op = "pause" THEN "remove" ELSE "install",
                       !.arg.spec = row.spec])
  /\ UNCHANGED <<storeVars, timers, runVars, now, ended>>

(* The handlers of the web server do not record what they have installed.  *)
WritesBack(p) == call[p].op \in {"reconcile", "run"} \/ Front[p] # "web"

Install(p) ==
  LET c == call[p] IN
  /\ At(p, "install")
  /\ timers' = SetTimer(c.job, c.arg.spec, c.arg.on \/ IsOn(c.job))
  /\ Goto(p, IF WritesBack(p) THEN "record" ELSE "idle")
  /\ UNCHANGED <<storeVars, runVars, now, ended>>

InstallFails(p) ==
  LET c == call[p] IN
  /\ At(p, "install")
  /\ timers' \in {timers, SetTimer(c.job, c.arg.spec, IsOn(c.job))}
  /\ Goto(p, AfterUpdate(c, "idle"))
  /\ UNCHANGED <<storeVars, runVars, now, ended>>

Elements(f) == {f[i] : i \in 1 .. Len(f)}

(***************************************************************************)
(* The death of the calls in S, while the others become those of "calls".  *)
(* Their locks count as free and what they had not saved is lost; a file   *)
(* of records half rewritten stays so, and "written" starts again with it. *)
(***************************************************************************)
Die(S, calls) ==
  /\ call' = [q \in Procs |-> IF q \in S THEN NoCall ELSE calls[q]]
  /\ storeLock' = storeLock \ S
  /\ runLock' = [j \in Jobs |-> runLock[j] \ S]
  /\ runsLock' = [j \in Jobs |-> runsLock[j] \ S]
  /\ ended' = [j \in Jobs |-> IF \E q \in S : At(q, "report") /\ call[q].job = j
                              THEN "lost" ELSE ended[j]]
  /\ LET torn     == {j \in Jobs : runsLock[j] \cap S # {}}
         writer(j) == CHOOSE q \in S : q \in runsLock[j]
     IN
     /\ \E n \in [torn -> 0 .. Keep] :
          runs' = [j \in Jobs |-> IF j \in torn
                                  THEN SubSeq(call[writer(j)].kept, 1, n[j])
                                  ELSE runs[j]]
     /\ written' = [j \in Jobs |-> IF j \in torn THEN Elements(runs'[j]) ELSE written[j]]
  /\ UNCHANGED <<jobs, born, now>>

(* Remove stops the timer and the service, which kills the run under way;  *)
(* failures of systemctl stop are ignored.                                 *)
Removing(p, l) ==
  LET underway == {q \in Procs : /\ Front[q] = "os" /\ ~At(q, "idle")
                                 /\ call[q].job = call[p].job} IN
  \E S \in {{}, underway} : Die(S, With(p, [call[p] EXCEPT !.pc = l]))

AfterRemove(p, l) == CASE call[p].op = "delete"    -> "update"
                       [] call[p].op = "reconcile" -> "next"
                       [] OTHER                    -> l

Remove(p) ==
  /\ At(p, "remove")
  /\ timers' = [timers EXCEPT ![call[p].job] = NoTimer]
  /\ Removing(p, AfterRemove(p, IF Front[p] = "web" THEN "idle" ELSE "record"))

RemoveFails(p) ==
  LET j == call[p].job IN
  /\ At(p, "remove")
  /\ timers' \in {timers, [timers EXCEPT ![j] = NoTimer]}
                  \cup {SetTimer(j, s, FALSE) :
                          s \in {s \in Specs : timers[j] \in [spec : {s}, on : BOOLEAN]}}
  /\ Removing(p, AfterRemove(p, IF Front[p] = "tui" THEN "record" ELSE "idle"))

(***************************************************************************)
(* Reconciliation: a snapshot, a list of the timers, then one action after *)
(* the other.                                                              *)
(***************************************************************************)
NeedsInstall(row) == row.rec # row.spec

FaultWanted(seen, listed) ==    \* nothing to do for a store without jobs
  {[job |-> j, kind |-> "orphan", spec |-> AnySpec] :
     j \in {i \in Jobs : /\ listed /\ seen[i] = Absent /\ timers[i] # NoTimer
                        /\ \E k \in Jobs : seen[k] # Absent}}

Wanted(seen, listed) ==
  LET On   == {j \in Jobs : RunsOn(seen[j])}
      Off  == {j \in Jobs : seen[j] # Absent} \ On
      Gone == {j \in Jobs : seen[j] = Absent}
  IN   {[job |-> j, kind |-> "install", spec |-> seen[j].spec] :
          j \in {i \in On : NeedsInstall(seen[i])}}
  \cup {[job |-> j, kind |-> "remove", spec |-> AnySpec] :
          j \in {i \in Off : seen[i].rec # NoSpec}}
  \cup {[job |-> j, kind |-> "orphan", spec |-> AnySpec] :
          j \in {i \in Gone : listed /\ timers[i] # NoTimer}}

LoadSnapshot(p) ==
  /\ At(p, "load") /\ call[p].op = "reconcile"
  /\ Become(p, [call[p] EXCEPT !.pc = "list", !.snap = jobs])
  /\ UNCHANGED <<storeVars, timers, runVars, now, ended>>

ListTimers(p, listed) ==
  /\ At(p, "list")
  /\ Become(p, [call[p] EXCEPT !.pc = "next", !.todo = Wanted(call[p].snap, listed),
                               !.snap = NoCall.snap])
  /\ UNCHANGED <<storeVars, timers, runVars, now, ended>>

(* Orphans come last.                                                      *)
NextAction(p) ==
  /\ At(p, "next")
  /\ \E a \in call[p].todo :
       /\ a.kind = "orphan" => \A b \in call[p].todo : b.kind = "orphan"
       /\ Become(p, [call[p] EXCEPT
                       !.pc = IF a.kind = "install" THEN "install" ELSE "remove",
                       !.job = a.job, !.arg.spec = a.spec, !.todo = @ \ {a}])
  /\ UNCHANGED <<storeVars, timers, runVars, now, ended>>

EndReconcile(p) ==
  /\ At(p, "next") /\ call[p].todo = {}
  /\ Goto(p, "idle")
  /\ UNCHANGED <<storeVars, timers, runVars, now, ended>>

(***************************************************************************)
(* Executor.Run.  The commands look the job up before they build the       *)
(* executor, which loads it again; the session works on what it loaded.    *)
(***************************************************************************)
FindJob(p) ==
  /\ At(p, "find")
  /\ Goto(p, IF jobs[call[p].job] = Absent /\ Front[p] # "tui" THEN "idle" ELSE "load")
  /\ UNCHANGED <<storeVars, timers, runVars, now, ended>>

NewRecord(p, l) ==
  /\ now < MaxRuns
  /\ now' = now + 1
  /\ Become(p, [call[p] EXCEPT !.pc = l, !.run = now'])

FaultLoadJob(p) ==    \* a disabled job runs
  /\ At(p, "load") /\ call[p].op = "run"
  /\ jobs[call[p].job] # Absent
  /\ Goto(p, "repair")
  /\ UNCHANGED <<storeVars, timers, runVars, now, ended>>

LoadJob(p) ==
  LET row == jobs[call[p].job] IN
  /\ At(p, "load") /\ call[p].op = "run"
  /\ \/ RunsOn(row) /\ Goto(p, "repair") /\ UNCHANGED now
     \/ \* skipped, absent, or schedule, permissions or provider invalid
        NewRecord(p, "trace")
  /\ UNCHANGED <<storeVars, timers, runVars, ended>>

SelfRepair(p) ==
  LET row == jobs[call[p].job] IN
  /\ At(p, "repair")
  /\ IF RunsOn(row) /\ NeedsInstall(row)
     THEN Become(p, [call[p] EXCEPT !.pc = "install", !.arg.spec = row.spec])
     ELSE Goto(p, "start")
  /\ UNCHANGED <<storeVars, timers, runVars, now, ended>>

BeginRun(p) ==
  /\ At(p, "start")
  /\ NewRecord(p, "claim")
  /\ UNCHANGED <<storeVars, timers, runVars, ended>>

FaultClaim(p) ==    \* a run goes on without the lock
  LET j == call[p].job IN
  /\ At(p, "claim")
  /\ runLock' = [runLock EXCEPT ![j] = @ \cup {p}]
  /\ Goto(p, "session")
  /\ UNCHANGED <<storeVars, timers, runs, runsLock, written, now, ended>>

Claim(p) ==
  LET j == call[p].job IN
  /\ At(p, "claim")
  /\ \/ /\ OpenTo(p, runLock[j])
        /\ runLock' = [runLock EXCEPT ![j] = @ \cup {p}]
        /\ Goto(p, "session")
     \/ runLock[j] # {} /\ UNCHANGED runLock /\ Goto(p, "trace")
  /\ UNCHANGED <<storeVars, timers, runs, runsLock, written, now, ended>>

(* The context of a run ends with the web server or with --timeout; the    *)
(* scheduler gives it neither.                                             *)
ContextMayEnd(p) == Front[p] \in {"web", "cli"}

(* The outcome is not reported after a panic, which counts as a failure,   *)
(* nor when the context is over: Store.Update then returns at once.        *)
EndSession(p, status, reported) ==
  /\ At(p, "session")
  /\ reported \/ status = "failed" \/ ContextMayEnd(p)
  /\ Become(p, [call[p] EXCEPT !.pc = IF reported THEN "report" ELSE "append",
                               !.status = status])
  /\ ended' = IF reported THEN [ended EXCEPT ![call[p].job] = status] ELSE ended
  /\ UNCHANGED <<storeVars, timers, runVars, now>>

(***************************************************************************)
(* RunStore: a record is appended; every claimed run then prunes the file  *)
(* to the newest records.                                                  *)
(***************************************************************************)
AppendRun(p) ==
  LET c == call[p] IN
  /\ c.pc \in {"append", "trace"}
  /\ \/ /\ OpenTo(p, runsLock[c.job])
        /\ runs' = [runs EXCEPT ![c.job] = Append(@, c.run)]
        /\ written' = [written EXCEPT ![c.job] = @ \cup {c.run}]
     \/ RefusedTo(p, runsLock[c.job]) /\ UNCHANGED <<runs, written>>
  /\ Become(p, [c EXCEPT !.pc = IF c.pc = "append" THEN "prune" ELSE "idle",
                         !.run = 0, !.status = NoCall.status])
  /\ UNCHANGED <<storeVars, timers, runLock, runsLock, now, ended>>

(* readAll sorts the records, most recent first.                           *)
ReadAll(f) ==
  CHOOSE g \in [1 .. Len(f) -> Elements(f)] :
    \A i, k \in 1 .. Len(f) : i < k => g[i] > g[k]

FaultPrune(p) ==    \* reads before it has the lock
  LET all == ReadAll(runs[call[p].job]) IN
  /\ At(p, "prune") /\ Len(all) > Keep
  /\ Become(p, [call[p] EXCEPT !.pc = "rewrite", !.kept = SubSeq(all, 1, Keep)])
  /\ UNCHANGED <<storeVars, timers, runVars, now, ended>>

Prune(p) ==
  LET j   == call[p].job
      all == ReadAll(runs[j]) IN
  /\ At(p, "prune")
  /\ \/ /\ OpenTo(p, runsLock[j]) /\ Len(all) > Keep
        /\ runsLock' = [runsLock EXCEPT ![j] = @ \cup {p}]
        /\ Become(p, [call[p] EXCEPT !.pc = "rewrite", !.kept = SubSeq(all, 1, Keep)])
     \/ /\ IF Len(all) > Keep THEN RefusedTo(p, runsLock[j])
                              ELSE runsLock[j] \subseteq Procs \ Threads(p)
        /\ Goto(p, "release")
        /\ UNCHANGED runsLock
  /\ UNCHANGED <<storeVars, timers, runLock, runs, written, now, ended>>

Rewrite(p) ==
  LET j == call[p].job IN
  /\ At(p, "rewrite")
  /\ runs' = [runs EXCEPT ![j] = call[p].kept]
  /\ runsLock' = [runsLock EXCEPT ![j] = @ \ {p}]
  /\ Become(p, [call[p] EXCEPT !.pc = "release", !.kept = <<>>])
  /\ UNCHANGED <<storeVars, timers, runLock, written, now, ended>>

Release(p) ==
  /\ At(p, "release")
  /\ runLock' = [runLock EXCEPT ![call[p].job] = @ \ {p}]
  /\ Goto(p, "idle")
  /\ UNCHANGED <<storeVars, timers, runs, runsLock, written, now, ended>>

Crash(q) ==
  /\ \E p \in Threads(q) : ~At(p, "idle")
  /\ Die(Threads(q), call)
  /\ UNCHANGED timers

(***************************************************************************)
(* What the properties remember of a step of p; fine says that it did not  *)
(* fail.                                                                   *)
(***************************************************************************)
Note(p, fine) ==
  /\ mayRun' = {q \in Procs : LET c == call'[q] IN
                                /\ c.op = "run" /\ c.pc # "idle"
                                /\ q \in mayRun \/ RunsOn(jobs'[c.job])}
  /\ calm' = IF /\ fine /\ call'[p].op = "reconcile"
                /\ p \in calm \/ At(p, "load")
             THEN {p} ELSE {}
  /\ tidy' = (tidy /\ fine /\ \A q \in Procs \ {p} : At(q, "idle"))

Works(p) ==
  \/ \E j \in Jobs : \/ \E s \in Specs : StartCreate(p, j, s) \/ StartEdit(p, j, s)
                     \/ \E c \in {"pause", "resume"} : StartSwitch(p, c, j)
                     \/ StartDelete(p, j)
                     \/ StartRun(p, j)
  \/ StartReconcile(p)
  \/ LockStore(p) \/ SaveStore(p)
  \/ Reload(p) \/ Install(p) \/ Remove(p)
  \/ LoadSnapshot(p) \/ ListTimers(p, TRUE) \/ NextAction(p) \/ EndReconcile(p)
  \/ FindJob(p) \/ LoadJob(p) \/ SelfRepair(p) \/ BeginRun(p) \/ Claim(p)
  \/ \E st \in Outcomes, r \in BOOLEAN : EndSession(p, st, r)
  \/ AppendRun(p) \/ Prune(p) \/ Rewrite(p) \/ Release(p)

Fails(p) == \/ StoreError(p) \/ InstallFails(p) \/ RemoveFails(p)
            \/ ListTimers(p, FALSE) \/ Crash(p)

Next == \E p \in Procs : \/ Works(p) /\ Note(p, TRUE)
                         \/ Fails(p) /\ Note(p, FALSE)

Spec == Init /\ [][Next]_vars

(***************************************************************************)
(* Properties.                                                             *)
(***************************************************************************)
Labels == {"idle", "update", "record", "report", "reload", "install", "remove",
           "load", "list", "next", "find", "repair", "start", "claim",
           "session", "append", "trace", "prune", "rewrite", "release"}
Call == [pc : Labels, op : Calls, job : Jobs, snap : [Jobs -> Job \cup {Absent}],
         arg : Timer, todo : SUBSET Action, run : Nat, status : Outcomes,
         kept : Seq(Nat)]

TypeOK ==
  /\ jobs \in [Jobs -> Job \cup {Absent}] /\ born \subseteq Jobs
  /\ timers \in [Jobs -> Timer \cup {NoTimer}]
  /\ runs \in [Jobs -> Seq(Nat)] /\ now \in 0 .. MaxRuns
  /\ storeLock \subseteq Procs
  /\ runLock \in [Jobs -> SUBSET Procs] /\ runsLock \in [Jobs -> SUBSET Procs]
  /\ call \in [Procs -> Call]

(* A save changes what its caller asked for and nothing else: of one job,  *)
(* its switch, its schedule, the record of its timer or its health.  What  *)
(* other processes have saved meanwhile stays, and a deleted job does not  *)
(* come back.  (Store.Update loads under the lock it saves under.)         *)
Fields == {"enabled", "spec", "rec", "state"}
OneChange(j) ==
  \/ j \notin born
  \/ jobs[j] # Absent /\ jobs'[j] = Absent
  \/ /\ jobs[j] # Absent /\ jobs'[j] # Absent
     /\ \E f \in Fields : \A g \in Fields \ {f} : jobs'[j][g] = jobs[j][g]
EditsAreKept ==
  [][\A j \in Jobs : jobs'[j] # jobs[j] =>
       OneChange(j) /\ \A k \in Jobs \ {j} : jobs'[k] = jobs[k]]_vars

(* A prompt runs only for a job that was enabled at some moment since the  *)
(* run was asked for, however stale its timer.  (Calls that overlap, and   *)
(* calls of the scheduler that fail, leave timers on for paused and        *)
(* deleted jobs; the executor loads the job itself.)                       *)
OnlyEnabledJobsRun ==
  \A p \in Procs : call[p].pc \in {"claim", "session", "report"} => p \in mayRun

(* When no run has the job's lock, the health of a job is the outcome of   *)
(* the run that ended last, unless that run died or its update was refused.*)
(* (The update comes before the lock is released.)                         *)
HealthIsOfLastRun ==
  \A j \in Jobs : jobs[j] # Absent /\ runLock[j] = {} /\ ended[j] # "lost"
                    => jobs[j].state = ended[j]

(* Of the records written, the newest Keep are in the file, whoever        *)
(* appends while another prunes; only a process that dies while it         *)
(* rewrites them loses some.  (Prune reads and rewrites under the lock     *)
(* that Append takes, and sorts what the last prune left in reverse.)      *)
NewestRunsKept ==
  \A j \in Jobs : \A r \in written[j] \ Elements(runs[j]) :
    Cardinality({k \in Elements(runs[j]) : k > r}) >= Keep

(* As long as nothing fails and no two calls overlap, the timers are those *)
(* of the enabled jobs, with their schedules, after any sequence of calls  *)
(* from any front.  (Each front decides anew what to install, what to      *)
(* remove and what to record.)                                             *)
TimersFollowJobs ==
  tidy /\ (\A p \in Procs : At(p, "idle")) =>
    \A j \in Jobs : /\ IsOn(j) = Enabled(j)
                    /\ Enabled(j) => timers[j].spec = jobs[j].spec

(* A reconciliation that nothing fails in and nothing comes between leaves *)
(* no timer of a deleted job, whatever calls have met before.              *)
OrphansAreRemoved ==
  \A p \in calm : At(p, "next") /\ call[p].todo = {} =>
    \A j \in Jobs : jobs[j] = Absent => timers[j] = NoTimer

(* It leaves a timer, switched on and of the right schedule, for every     *)
(* enabled job.                                                            *)
ReconcileRepairs ==
  \A p \in calm : At(p, "next") /\ call[p].todo = {} =>
    \A j \in Jobs : Enabled(j) => timers[j] = [spec |-> jobs[j].spec, on |-> TRUE]
=============================================================================
