----------------------------- MODULE DaemonLock -----------------------------
(***************************************************************************)
(* The lock that keeps a second daemon away, and the two ways in which one *)
(* daemon follows another: a start that finds a stale lock, and `dreamer   *)
(* stop` (internal/fsutil/lock.go, cmd/daemon.go, cmd/stop.go,             *)
(* cmd/daemon_stopfile.go).                                                *)
(*                                                                         *)
(* A process is one run of a program, with the PID it gets; a PID serves   *)
(* again after its process is gone.  Every step is one call on the file    *)
(* system or the process table; starts, stop commands, signals and deaths  *)
(* of all of them interleave freely.  Left out: lock files of old versions *)
(* without an executable, the removal of a stale lock by `dreamer start`   *)
(* itself, and the search for a web server by its port in `dreamer stop`.  *)
(***************************************************************************)
EXTENDS Naturals

CONSTANTS
  Daemons,     \* daemon processes
  Others,      \* processes of other programs
  Stops,       \* runs of dreamer stop
  PidOf,       \* the PID of each process
  ExecKnown    \* whether the platform can name the executable of a process

Processes == Daemons \cup Others

ASSUME LockAssumption ==
  /\ Daemons \cap Others = {} /\ Stops \cap Processes = {}
  /\ PidOf \in [Processes -> Nat \ {0}]
  /\ ExecKnown \in BOOLEAN
  /\ "none" \notin Daemons

VARIABLES
  lockFile,   \* dreamer.daemon.lock: who created it, and the PID in it or 0
  stopFile,   \* whether dreamer.daemon.stop exists
  pc,         \* where each process is
  stale,      \* the PID each daemon saw before it took the lock, or 0
  seen,       \* the PID a daemon or a stop command has read last, or 0
  tries,      \* stale locks each daemon has removed
  rows,       \* daemons with a running row in jobs.json
  queue,      \* daemons with a running row in the queue of each daemon
  calm        \* history: daemons that wrote their PID into the lock while nobody
              \*   else was about to write or remove it

jobVars == <<rows, queue>>
vars == <<lockFile, stopFile, pc, stale, seen, tries, jobVars, calm>>

maxLockRetries == 3

Acquiring   == {"create", "write", "inspect", "judge", "remove"}
WindingDown == {"stopping", "cleanup", "release", "exiting"}
Dead        == {"new", "gone", "refused"}
Waiting     == {"judge", "ask", "wait", "verify", "kill", "exitwait", "cleanup"}

NoFile == [by |-> "none", pid |-> 0]

\* Every variable has its type: the lock file carries no PID but that of the
\* daemon that created it, and a daemon retries at most three times.
TypeOK ==
  /\ lockFile = NoFile \/ \E d \in Daemons : lockFile.by = d /\ lockFile.pid \in {0, PidOf[d]}
  /\ stopFile \in BOOLEAN
  /\ \A d \in Daemons : pc[d] \in Acquiring \cup WindingDown \cup Dead \cup {"boot", "up"}
  /\ \A o \in Others : pc[o] \in {"new", "up", "gone"}
  /\ \A s \in Stops : pc[s] \in Waiting \cup {"new", "gone", "killed"}
  /\ stale \in [Daemons -> Nat] /\ seen \in [Daemons \cup Stops -> Nat]
  /\ tries \in [Daemons -> 0..maxLockRetries]
  /\ rows \subseteq Daemons /\ queue \in [Daemons -> SUBSET Daemons]
  /\ calm \subseteq Daemons

Init ==
  /\ lockFile = NoFile
  /\ stopFile = FALSE
  /\ pc = [p \in Processes \cup Stops |-> "new"]
  /\ stale = [d \in Daemons |-> 0]
  /\ seen = [p \in Daemons \cup Stops |-> 0]
  /\ tries = [d \in Daemons |-> 0]
  /\ rows = {} /\ queue = [d \in Daemons |-> {}]
  /\ calm = {}

(***************************************************************************)
(* The process table.                                                      *)
(***************************************************************************)
With(pid) == {p \in Processes : PidOf[p] = pid /\ pc[p] \notin Dead}

IsProcessAlive(pid) == With(pid) # {}

\* processExecutable and ExecPathsMatch.
OtherExec(pid) == ExecKnown /\ With(pid) \cap Others # {}
SameExec(pid)  == ExecKnown /\ With(pid) \cap Others = {}

Holding(d) == pc[d] \in {"boot", "up", "stopping", "cleanup", "release"}

Goto(p, label) == pc' = [pc EXCEPT ![p] = label]

-----------------------------------------------------------------------------
(***************************************************************************)
(* A daemon starts.                                                        *)
(***************************************************************************)
\* initDaemonRuntime reads the lock before it takes it.
Start(d) ==
  /\ pc[d] = "new"
  /\ ~IsProcessAlive(PidOf[d])
  /\ stale' = [stale EXCEPT ![d] = lockFile.pid]
  /\ Goto(d, "create")
  /\ UNCHANGED <<lockFile, stopFile, seen, tries, jobVars, calm>>

Create(d) ==
  /\ pc[d] = "create"
  /\ \/ /\ lockFile = NoFile
        /\ lockFile' = [by |-> d, pid |-> 0]
        /\ Goto(d, "write")
     \/ /\ lockFile # NoFile
        /\ Goto(d, "inspect")
        /\ UNCHANGED lockFile
  /\ UNCHANGED <<stopFile, stale, seen, tries, jobVars, calm>>

\* No other daemon is in, or past, the calls that write or remove the lock or
\* judge it, and no stop command is past its look at it.
Undisturbed(d) ==
  /\ \A e \in Daemons \ {d} : pc[e] \in Dead \cup {"create", "inspect", "exiting"}
  /\ \A s \in Stops : pc[s] \notin Waiting

\* The write goes to the file that was created, which may have no name by now.
Write(d) ==
  /\ pc[d] = "write"
  /\ lockFile' = IF lockFile.by = d THEN [lockFile EXCEPT !.pid = PidOf[d]] ELSE lockFile
  /\ calm' = IF lockFile.by = d /\ Undisturbed(d) THEN calm \cup {d} ELSE calm
  /\ Goto(d, "boot")
  /\ UNCHANGED <<stopFile, stale, seen, tries, jobVars>>

\* A write or sync that fails removes whatever has the name.
WriteFails(d) ==
  /\ pc[d] = "write"
  /\ lockFile' = NoFile
  /\ Goto(d, "gone")
  /\ UNCHANGED <<stopFile, stale, seen, tries, jobVars, calm>>

\* readLockMetadata; no file and a file without a PID are errors.
Inspect(d) ==
  /\ pc[d] = "inspect"
  /\ seen' = [seen EXCEPT ![d] = lockFile.pid]
  /\ Goto(d, IF lockFile.pid = 0 THEN "remove" ELSE "judge")
  /\ UNCHANGED <<lockFile, stopFile, stale, tries, jobVars, calm>>

\* Faults: the other way round; any process alive holds the lock.
FaultLooksHeld(pid) == IsProcessAlive(pid) /\ ~SameExec(pid)
FaultAnyAlive(pid)  == IsProcessAlive(pid)

LooksHeld(pid) == IsProcessAlive(pid) /\ ~OtherExec(pid)

Judge(d) ==
  /\ pc[d] = "judge"
  /\ Goto(d, IF LooksHeld(seen[d]) THEN "refused" ELSE "remove")
  /\ UNCHANGED <<lockFile, stopFile, stale, seen, tries, jobVars, calm>>

Remove(d) ==
  /\ pc[d] = "remove"
  /\ lockFile' = NoFile
  /\ tries' = [tries EXCEPT ![d] = @ + 1]
  /\ Goto(d, IF tries[d] + 1 = maxLockRetries THEN "gone" ELSE "create")
  /\ UNCHANGED <<stopFile, stale, seen, jobVars, calm>>

\* Fault: any process alive has its rows left alone.
FaultBoot(d) ==
  /\ pc[d] = "boot"
  /\ queue' = [queue EXCEPT ![d] = IF IsProcessAlive(stale[d]) THEN rows ELSE {}]
  /\ rows' = queue'[d]
  /\ Goto(d, "up")
  /\ UNCHANGED <<lockFile, stopFile, stale, seen, tries, calm>>

\* Recover and recoverStaleJobs.
Boot(d) ==
  /\ pc[d] = "boot"
  /\ queue' = [queue EXCEPT ![d] = IF stale[d] # 0 /\ LooksHeld(stale[d]) THEN rows ELSE {}]
  /\ rows' = queue'[d]
  /\ Goto(d, "up")
  /\ UNCHANGED <<lockFile, stopFile, stale, seen, tries, calm>>

(***************************************************************************)
(* A daemon runs and stops.                                                *)
(***************************************************************************)
\* A worker takes a job or records its outcome, and the whole queue is saved.  A
\* worker that Stop gave up on may do the latter until the process ends.
Work(d) ==
  /\ \/ pc[d] \in {"up", "stopping"} /\ queue' = [queue EXCEPT ![d] = @ \cup {d}]
     \/ pc[d] \in {"up"} \cup WindingDown /\ d \in queue[d] /\ queue' = [queue EXCEPT ![d] = @ \ {d}]
  /\ rows' = queue'[d]
  /\ UNCHANGED <<lockFile, stopFile, pc, stale, seen, tries, calm>>

\* watchDaemonStopFile.
WatchStopFile(d) ==
  /\ pc[d] = "up" /\ stopFile
  /\ stopFile' = FALSE
  /\ Goto(d, "stopping")
  /\ UNCHANGED <<lockFile, stale, seen, tries, jobVars, calm>>

\* A signal or the web's restart hook cancels the run context.
Signal(d) ==
  /\ pc[d] = "up"
  /\ Goto(d, "stopping")
  /\ UNCHANGED <<lockFile, stopFile, stale, seen, tries, jobVars, calm>>

\* Workers.Stop returns with the workers drained, or after its grace period
\* with a job that is still running.
StopWorkers(d) ==
  /\ pc[d] = "stopping"
  /\ Goto(d, "cleanup")
  /\ UNCHANGED <<lockFile, stopFile, stale, seen, tries, jobVars, calm>>

\* The deferred calls of newDaemonCommand, last in first out.
RemoveStopFile(d) ==
  /\ pc[d] = "cleanup"
  /\ stopFile' = FALSE
  /\ Goto(d, "release")
  /\ UNCHANGED <<lockFile, stale, seen, tries, jobVars, calm>>

Release(d) ==
  /\ pc[d] = "release"
  /\ lockFile' = NoFile
  /\ Goto(d, "exiting")
  /\ UNCHANGED <<stopFile, stale, seen, tries, jobVars, calm>>

\* The process ends, or dies at any point.
Die(d) ==
  /\ pc[d] \notin Dead
  /\ Goto(d, "gone")
  /\ queue' = [queue EXCEPT ![d] = {}]
  /\ UNCHANGED <<lockFile, stopFile, stale, seen, tries, rows, calm>>

\* Another program gets a free PID, and ends.
OtherProgram(o) ==
  /\ \/ pc[o] = "new" /\ ~IsProcessAlive(PidOf[o]) /\ Goto(o, "up")
     \/ pc[o] = "up" /\ Goto(o, "gone")
  /\ UNCHANGED <<lockFile, stopFile, stale, seen, tries, jobVars, calm>>
-----------------------------------------------------------------------------
(***************************************************************************)
(* dreamer stop.                                                           *)
(***************************************************************************)
ReadLock(s) ==
  /\ pc[s] = "new"
  /\ seen' = [seen EXCEPT ![s] = lockFile.pid]
  /\ Goto(s, IF lockFile.pid = 0 THEN "gone" ELSE "judge")
  /\ UNCHANGED <<lockFile, stopFile, stale, tries, jobVars, calm>>

JudgeLock(s) ==
  /\ pc[s] = "judge"
  /\ Goto(s, IF IsProcessAlive(seen[s]) /\ SameExec(seen[s]) THEN "ask" ELSE "cleanup")
  /\ UNCHANGED <<lockFile, stopFile, stale, seen, tries, jobVars, calm>>

\* requestGracefulStop writes the stop file, or cannot.
Ask(s) ==
  /\ pc[s] = "ask"
  /\ \/ stopFile' = TRUE /\ Goto(s, "wait")
     \/ UNCHANGED stopFile /\ Goto(s, "kill")
  /\ UNCHANGED <<lockFile, stale, seen, tries, jobVars, calm>>

LockRemoved(s) ==
  /\ pc[s] = "wait" /\ lockFile = NoFile
  /\ Goto(s, "verify")
  /\ UNCHANGED <<lockFile, stopFile, stale, seen, tries, jobVars, calm>>

GraceTimeout(s) ==
  /\ pc[s] = "wait"
  /\ stopFile' = FALSE
  /\ Goto(s, "kill")
  /\ UNCHANGED <<lockFile, stale, seen, tries, jobVars, calm>>

Verify(s) ==
  /\ pc[s] = "verify"
  /\ Goto(s, IF IsProcessAlive(seen[s]) THEN "kill" ELSE "cleanup")
  /\ UNCHANGED <<lockFile, stopFile, stale, seen, tries, jobVars, calm>>

\* killDaemon: SIGTERM stops a daemon that is up as the signal it is and kills
\* others; taskkill kills.
Kill(s) ==
  /\ pc[s] = "kill"
  /\ \/ \E p \in With(seen[s]) :
          /\ pc' = [pc EXCEPT ![s] = "exitwait", ![p] = "gone"]
          /\ queue' = [d \in Daemons |-> IF d = p THEN {} ELSE queue[d]]
     \/ \E p \in With(seen[s]) \cap Daemons :
          /\ Holding(p) \/ pc[p] = "exiting"
          /\ pc' = [pc EXCEPT ![s] = "exitwait", ![p] = IF @ = "up" THEN "stopping" ELSE @]
          /\ UNCHANGED queue
     \/ /\ ~IsProcessAlive(seen[s])
        /\ \E next \in {"exitwait", "gone"} : Goto(s, next)
        /\ UNCHANGED queue
  /\ UNCHANGED <<lockFile, stopFile, stale, seen, tries, rows, calm>>

\* waitForProcessExit, which may give up.
Exited(s) ==
  /\ pc[s] = "exitwait"
  /\ \/ ~IsProcessAlive(seen[s]) /\ Goto(s, "cleanup")
     \/ IsProcessAlive(seen[s]) /\ Goto(s, "gone")
  /\ UNCHANGED <<lockFile, stopFile, stale, seen, tries, jobVars, calm>>

RemoveLock(s) ==
  /\ pc[s] = "cleanup"
  /\ lockFile' = NoFile
  /\ Goto(s, "gone")
  /\ UNCHANGED <<stopFile, stale, seen, tries, jobVars, calm>>

\* The command is interrupted or killed.
StopDies(s) ==
  /\ pc[s] \in Waiting
  /\ Goto(s, "killed")
  /\ UNCHANGED <<lockFile, stopFile, stale, seen, tries, jobVars, calm>>
-----------------------------------------------------------------------------
Acquire(d) ==
  \/ Start(d) \/ Create(d) \/ Write(d) \/ WriteFails(d)
  \/ Inspect(d) \/ Judge(d) \/ Remove(d)

Live(d) ==
  \/ Boot(d) \/ Work(d) \/ WatchStopFile(d) \/ Signal(d) \/ StopWorkers(d)
  \/ RemoveStopFile(d) \/ Release(d) \/ Die(d)

StopCommand(s) ==
  \/ ReadLock(s) \/ JudgeLock(s) \/ Ask(s) \/ LockRemoved(s) \/ GraceTimeout(s)
  \/ Verify(s) \/ Kill(s) \/ Exited(s) \/ RemoveLock(s) \/ StopDies(s)

Next ==
  \/ \E d \in Daemons : Acquire(d) \/ Live(d)
  \/ \E o \in Others : OtherProgram(o)
  \/ \E s \in Stops : StopCommand(s)

Spec == Init /\ [][Next]_vars
-----------------------------------------------------------------------------
(***************************************************************************)
(* Properties.                                                             *)
(***************************************************************************)
\* A daemon that wrote its PID into the lock while nobody else was about to write
\* or remove it keeps the lock, and is the only daemon past AcquireLock, until it
\* releases it or ends, whatever starts, stop commands, signals and deaths come:
\* the part of "by definition no other writer exists" (jobqueue/queue.go:274) the
\* lock file does provide.
EstablishedIsAlone ==
  \A d \in calm : Holding(d) =>
    /\ lockFile = [by |-> d, pid |-> PidOf[d]]
    /\ \A e \in Daemons : Holding(e) => e = d

\* A start is refused only for a live daemon: "Stale locks -- from a crashed
\* process, or from a PID that has since been reused by an unrelated program --
\* are automatically cleaned up" (lock.go:17-19).
RefusedForDaemon ==
  [][\A d \in Daemons : pc[d] = "judge" /\ pc'[d] = "refused" =>
       \E e \in Daemons \ {d} : PidOf[e] = seen[d] /\ pc[e] \notin Dead]_vars

\* Running rows are left alone by a start only for a live daemon, whose PID was
\* in the lock before the start took it: the guard "against PID reuse after a
\* crash" (cmd/workers.go:220-221) takes no other program for it.
SparedForDaemon ==
  [][\A d \in Daemons : pc[d] = "boot" /\ pc'[d] = "up" /\ queue'[d] # {} =>
       \E e \in Daemons \ {d} : PidOf[e] = stale[d] /\ pc[e] \notin Dead]_vars

(***************************************************************************)
(* What the code says of the lock and does not keep.                       *)
(***************************************************************************)
\* At most one daemon is past AcquireLock: "we hold the daemon lock, so by
\* definition no other writer exists" (jobqueue/queue.go:274).
MutualExclusion == \A d, e \in Daemons : Holding(d) /\ Holding(e) => d = e

\* dreamer stop removes no lock a live daemon holds: what it removes it calls
\* the "stale daemon lockfile" (cmd/stop.go:88).
StopSparesTheLock ==
  [][\A s \in Stops, d \in Daemons :
       pc[s] = "cleanup" /\ pc'[s] = "gone" /\ Holding(d) => lockFile.by # d]_vars

\* "The stop file is removed if the daemon never picked it up (e.g. it was
\* already dead or wedged)" (cmd/daemon_stopfile.go:71-73): while it exists, a
\* stop command waits for its effect or a daemon is yet to remove it, unless a
\* stop command was killed.
NoStaleStopFile ==
  stopFile /\ (\A s \in Stops : pc[s] # "killed") =>
    \/ \E s \in Stops : pc[s] \in Waiting
    \/ \E d \in Daemons : pc[d] \in {"up", "stopping", "cleanup"}

\* A daemon that is up has no running row of another one in its queue: "Any row
\* still in Running state is a zombie ... Reap unconditionally rather than
\* gating on stalePID" (cmd/workers.go:209-213).
ZombiesReaped == \A d \in Daemons : pc[d] = "up" => queue[d] \subseteq {d}
=============================================================================
