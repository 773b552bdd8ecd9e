-------------------------- MODULE DaemonLockProofs --------------------------
(***************************************************************************)
(* Proofs about DaemonLock for any number of daemons, stop commands and    *)
(* other programs, whose steps interleave freely, with PIDs that are       *)
(* reused and processes of all three kinds that die at any step.           *)
(***************************************************************************)
EXTENDS DaemonLock, TLAPS

\* The part of TypeOK the arguments below rest on.
Typed ==
  /\ lockFile \in [by : Daemons \cup {"none"}, pid : Nat]
  /\ DOMAIN pc = Processes \cup Stops /\ pc = [p \in Processes \cup Stops |-> pc[p]]
  /\ DOMAIN seen = Daemons \cup Stops /\ seen = [p \in Daemons \cup Stops |-> seen[p]]
  /\ stale = [d \in Daemons |-> stale[d]]
  /\ queue = [d \in Daemons |-> queue[d]]
  /\ calm \subseteq Daemons

\* A step moves one process, or a stop command and the process it signals.
LEMMA TypedStep ==
  ASSUME Typed, [Next]_vars
  PROVE  Typed'
<1> USE LockAssumption DEF Typed, Processes
<1>1. CASE UNCHANGED vars
  BY <1>1 DEF vars, jobVars
<1>2. ASSUME NEW d \in Daemons, Acquire(d) PROVE Typed'
  BY <1>2 DEF Acquire, Start, Create, Write, WriteFails, Inspect, Judge, Remove, Goto, NoFile,
              jobVars
<1>3. ASSUME NEW d \in Daemons, Live(d) PROVE Typed'
  BY <1>3 DEF Live, Boot, Work, WatchStopFile, Signal, StopWorkers, RemoveStopFile, Release,
              Die, Goto, NoFile, jobVars
<1>4. ASSUME NEW o \in Others, OtherProgram(o) PROVE Typed'
  BY <1>4 DEF OtherProgram, Goto, jobVars
<1>5. ASSUME NEW s \in Stops, StopCommand(s) PROVE Typed'
  <2>1. CASE Kill(s)
    BY <2>1 DEF Kill, Goto
  <2>2. CASE ~Kill(s)
    BY <1>5, <2>2 DEF StopCommand, ReadLock, JudgeLock, Ask, LockRemoved, GraceTimeout, Verify,
                Exited, RemoveLock, StopDies, Goto, NoFile, jobVars
  <2>3. QED BY <2>1, <2>2
<1>6. QED BY <1>1, <1>2, <1>3, <1>4, <1>5 DEF Next

-----------------------------------------------------------------------------
(***************************************************************************)
(* A refusal names a live daemon.  The lock file never carries the name of *)
(* a daemon that is still acquiring it, so with PIDs of their own a daemon *)
(* does not take itself for the holder.                                    *)
(***************************************************************************)
Before == {"new", "create", "inspect", "judge", "remove"}

OwnPids == \A d, e \in Daemons : PidOf[d] = PidOf[e] => d = e

NamedInv ==
  /\ lockFile.pid # 0 => lockFile.by \in Daemons /\ lockFile.pid = PidOf[lockFile.by]
  /\ \A d \in Daemons : pc[d] \in Before => lockFile.by # d
  /\ \A d \in Daemons : pc[d] = "judge" => seen[d] # PidOf[d]
  /\ \A d \in Daemons : stale[d] # PidOf[d]

\* Apart from Acquire, no step writes a PID or brings a daemon where it has yet
\* to create the lock.
Quiet ==
  /\ lockFile' \in {lockFile, NoFile}
  /\ \A d \in Daemons : /\ pc'[d] \in Before => pc'[d] = pc[d]
                        /\ seen'[d] = seen[d] /\ stale'[d] = stale[d]

\* The steps of a running daemon, of other programs and of stop commands.
LEMMA QuietStep ==
  ASSUME Typed,
         \/ \E d \in Daemons : Live(d)
         \/ \E o \in Others : OtherProgram(o)
         \/ \E s \in Stops : StopCommand(s)
  PROVE  Quiet
<1> USE LockAssumption DEF Typed, Processes, Quiet, Before
<1>1. ASSUME NEW d \in Daemons, Live(d) PROVE Quiet
  <2>1. CASE Boot(d) \/ StopWorkers(d) \/ Die(d) \/ Signal(d)
    BY <2>1 DEF Boot, StopWorkers, Die, Signal, Goto
  <2>2. CASE Work(d)
    BY <2>2 DEF Work
  <2>3. CASE WatchStopFile(d) \/ RemoveStopFile(d)
    BY <2>3 DEF WatchStopFile, RemoveStopFile, Goto
  <2>4. CASE Release(d)
    BY <2>4 DEF Release, Goto
  <2>5. QED BY <1>1, <2>1, <2>2, <2>3, <2>4 DEF Live
<1>2. ASSUME NEW o \in Others, OtherProgram(o) PROVE Quiet
  BY <1>2 DEF OtherProgram, Goto
<1>3. ASSUME NEW s \in Stops, StopCommand(s) PROVE Quiet
  <2>1. CASE ReadLock(s)
    BY <2>1 DEF ReadLock, Goto
  <2>2. CASE JudgeLock(s) \/ LockRemoved(s) \/ Verify(s) \/ Exited(s) \/ StopDies(s)
    <3>1. UNCHANGED <<lockFile, seen, stale>>
      BY <2>2 DEF JudgeLock, LockRemoved, Verify, Exited, StopDies
    <3>2. \E next : Goto(s, next)
      BY <2>2 DEF JudgeLock, LockRemoved, Verify, Exited, StopDies
    <3>3. QED BY <3>1, <3>2 DEF Goto
  <2>3. CASE Ask(s) \/ GraceTimeout(s)
    BY <2>3 DEF Ask, GraceTimeout, Goto
  <2>4. CASE RemoveLock(s)
    BY <2>4 DEF RemoveLock, Goto
  <2>5. CASE Kill(s)
    <3>1. UNCHANGED <<lockFile, seen, stale>>
      BY <2>5 DEF Kill
    <3>2. ASSUME NEW p \in With(seen[s]), pc' = [pc EXCEPT ![s] = "exitwait", ![p] = "gone"]
          PROVE  Quiet
      BY <3>1, <3>2 DEF With
    <3>3. ASSUME NEW p \in With(seen[s]),
                 pc' = [pc EXCEPT ![s] = "exitwait", ![p] = IF @ = "up" THEN "stopping" ELSE @]
          PROVE  Quiet
      BY <3>1, <3>3 DEF With
    <3>4. ASSUME NEW next, Goto(s, next) PROVE Quiet
      BY <3>1, <3>4 DEF Goto
    <3>5. QED BY <2>5, <3>2, <3>3, <3>4 DEF Kill
  <2>6. QED BY <1>3, <2>1, <2>2, <2>3, <2>4, <2>5 DEF StopCommand
<1>4. QED BY <1>1, <1>2, <1>3

\* All a stop command does to a daemon is to end it or have it stop
\* (stop.go:71-86).
LEMMA StopEffect ==
  ASSUME Typed, NEW s \in Stops, StopCommand(s), NEW d \in Daemons
  PROVE  pc'[d] = pc[d] \/ pc'[d] = "gone" \/ (pc[d] = "up" /\ pc'[d] = "stopping")
<1> USE LockAssumption DEF Typed, Processes
<1>1. CASE Kill(s)
  <2>1. ASSUME NEW p \in With(seen[s]), pc' = [pc EXCEPT ![s] = "exitwait", ![p] = "gone"]
        PROVE  pc'[d] = pc[d] \/ pc'[d] = "gone"
    BY <2>1 DEF With
  <2>2. ASSUME NEW p \in With(seen[s]),
               pc' = [pc EXCEPT ![s] = "exitwait", ![p] = IF @ = "up" THEN "stopping" ELSE @]
        PROVE  pc'[d] = pc[d] \/ (pc[d] = "up" /\ pc'[d] = "stopping")
    BY <2>2 DEF With
  <2>3. ASSUME NEW next, Goto(s, next) PROVE pc'[d] = pc[d]
    BY <2>3 DEF Goto
  <2>4. QED BY <1>1, <2>1, <2>2, <2>3 DEF Kill
<1>2. ASSUME ~Kill(s) PROVE \E next : Goto(s, next)
  BY <1>2 DEF StopCommand, ReadLock, JudgeLock, Ask, LockRemoved, GraceTimeout, Verify, Exited,
     RemoveLock, StopDies
<1>3. ASSUME ~Kill(s) PROVE pc'[d] = pc[d]
  BY <1>2, <1>3 DEF Goto
<1>4. QED BY <1>1, <1>3

\* NamedInv is inductive.
LEMMA NamedStep ==
  ASSUME OwnPids, Typed, NamedInv, [Next]_vars
  PROVE  NamedInv'
<1> USE LockAssumption DEF Typed, Processes, NamedInv, Before, OwnPids
<1>1. CASE UNCHANGED vars
  BY <1>1 DEF vars
<1>2. ASSUME NEW d \in Daemons, Acquire(d) PROVE NamedInv'
  <2>1. CASE Start(d)
    BY <2>1 DEF Start, Goto
  <2>2. CASE Create(d)
    <3>1. CASE lockFile = NoFile
      <4>1. lockFile' = [by |-> d, pid |-> 0] /\ pc' = [pc EXCEPT ![d] = "write"]
            /\ UNCHANGED <<seen, stale>>
        BY <2>2, <3>1 DEF Create, Goto
      <4>2. QED BY <4>1
    <3>2. CASE lockFile # NoFile
      <4>1. pc' = [pc EXCEPT ![d] = "inspect"] /\ pc[d] = "create"
            /\ UNCHANGED <<lockFile, seen, stale>>
        BY <2>2, <3>2 DEF Create, Goto
      <4>2. QED BY <4>1
    <3>3. QED BY <3>1, <3>2
  <2>3. CASE Write(d)
    BY <2>3 DEF Write, Goto
  <2>4. CASE WriteFails(d)
    BY <2>4 DEF WriteFails, Goto, NoFile
  <2>5. CASE Inspect(d)
    BY <2>5 DEF Inspect, Goto
  <2>6. CASE Judge(d)
    BY <2>6 DEF Judge, Goto
  <2>7. CASE Remove(d)
    BY <2>7 DEF Remove, Goto, NoFile
  <2>8. QED BY <1>2, <2>1, <2>2, <2>3, <2>4, <2>5, <2>6, <2>7 DEF Acquire
<1>3. ASSUME Quiet PROVE NamedInv'
  BY <1>3 DEF Quiet, NoFile
<1>4. QED BY <1>1, <1>2, <1>3, QuietStep DEF Next

\* Initially nobody holds or acquires the lock.
LEMMA InitNamed ==
  ASSUME Init
  PROVE  Typed /\ NamedInv
<1>1. lockFile = NoFile /\ NoFile.pid = 0 /\ NoFile.by = "none"
  BY DEF Init, NoFile
<1>2. \A d \in Daemons : pc[d] = "new" /\ d # "none"
  BY LockAssumption DEF Init, Processes
<1>3. Typed
  BY <1>1 DEF Init, Typed, NoFile
<1>4. \A d \in Daemons : stale[d] # PidOf[d]
  BY LockAssumption DEF Init, Processes
<1>5. QED BY <1>1, <1>2, <1>3, <1>4 DEF NamedInv

\* Where the platform can name executables and no two daemons have the same PID,
\* only a live daemon has another one refused, however starts and stops overlap.
THEOREM RefusedForDaemon_always == ExecKnown /\ OwnPids => (Spec => RefusedForDaemon)
<1> SUFFICES ASSUME ExecKnown, OwnPids PROVE Spec => RefusedForDaemon
  OBVIOUS
<1> DEFINE Refuses == \A d \in Daemons : pc[d] = "judge" /\ pc'[d] = "refused" =>
                        \E e \in Daemons \ {d} : PidOf[e] = seen[d] /\ pc[e] \notin Dead
<1>1. Init => Typed /\ NamedInv
  BY InitNamed
<1>2. Typed /\ NamedInv /\ [Next]_vars => Typed' /\ NamedInv'
  BY TypedStep, NamedStep
<1>3. Typed /\ NamedInv /\ [Next]_vars => [Refuses]_vars
  <2> SUFFICES ASSUME Typed, NamedInv, Next, NEW d \in Daemons,
                      pc[d] = "judge", pc'[d] = "refused"
               PROVE  \E e \in Daemons \ {d} : PidOf[e] = seen[d] /\ pc[e] \notin Dead
    BY DEF vars
  <2>1. Judge(d)
    <3> USE LockAssumption DEF Typed, Processes
    <3>1. \A e \in Daemons : Acquire(e) => e = d
      BY DEF Acquire, Start, Create, Write, WriteFails, Inspect, Judge, Remove, Goto
    <3>2. \A e \in Daemons : ~Live(e)
      BY DEF Live, Boot, Work, WatchStopFile, Signal, StopWorkers, RemoveStopFile, Release,
             Die, Goto, Dead
    <3>3. \A o \in Others : ~OtherProgram(o)
      BY DEF OtherProgram, Goto
    <3>4. \A s \in Stops : ~StopCommand(s)
      BY StopEffect
    <3>5. Acquire(d)
      BY <3>1, <3>2, <3>3, <3>4 DEF Next
    <3>6. QED
      BY <3>5 DEF Acquire, Start, Create, Write, WriteFails, Inspect, Remove
  <2>2. LooksHeld(seen[d])
    BY <2>1, LockAssumption DEF Judge, Goto, Typed, Processes
  <2>3. PICK p \in With(seen[d]) : p \notin Others
    BY <2>2 DEF LooksHeld, IsProcessAlive, OtherExec
  <2>4. p \in Daemons /\ PidOf[p] = seen[d] /\ pc[p] \notin Dead
    BY <2>3 DEF With, Processes
  <2>5. p # d
    BY <2>4 DEF NamedInv
  <2>6. QED BY <2>4, <2>5
<1>4. QED BY <1>1, <1>2, <1>3, PTL DEF Spec, RefusedForDaemon

\* Where the platform can name executables and no two daemons have the same PID,
\* recoverStaleJobs leaves rows running only for another daemon that is alive, in
\* whatever order starts, stops and ends come: a PID that another program has got
\* since does not keep zombie rows (workers.go:219-228).
THEOREM SparedForDaemon_always == ExecKnown /\ OwnPids => (Spec => SparedForDaemon)
<1> SUFFICES ASSUME ExecKnown, OwnPids PROVE Spec => SparedForDaemon
  OBVIOUS
<1> DEFINE Spares == \A d \in Daemons : pc[d] = "boot" /\ pc'[d] = "up" /\ queue'[d] # {} =>
                        \E e \in Daemons \ {d} : PidOf[e] = stale[d] /\ pc[e] \notin Dead
<1>1. Init => Typed /\ NamedInv
  BY InitNamed
<1>2. Typed /\ NamedInv /\ [Next]_vars => Typed' /\ NamedInv'
  BY TypedStep, NamedStep
<1>3. Typed /\ NamedInv /\ [Next]_vars => [Spares]_vars
  <2> SUFFICES ASSUME Typed, NamedInv, Next, NEW d \in Daemons,
                      pc[d] = "boot", pc'[d] = "up", queue'[d] # {}
               PROVE  \E e \in Daemons \ {d} : PidOf[e] = stale[d] /\ pc[e] \notin Dead
    BY DEF vars
  <2>1. Boot(d)
    <3> USE LockAssumption DEF Typed, Processes
    <3>1. \A e \in Daemons : ~Acquire(e)
      BY DEF Acquire, Start, Create, Write, WriteFails, Inspect, Judge, Remove, Goto
    <3>2. \A e \in Daemons : Live(e) => Boot(d)
      BY DEF Live, Boot, Work, WatchStopFile, Signal, StopWorkers, RemoveStopFile, Release,
             Die, Goto, Dead
    <3>3. \A o \in Others : ~OtherProgram(o)
      BY DEF OtherProgram, Goto
    <3>4. \A s \in Stops : ~StopCommand(s)
      BY StopEffect
    <3>5. QED BY <3>1, <3>2, <3>3, <3>4 DEF Next
  <2>2. LooksHeld(stale[d])
    BY <2>1 DEF Boot, Typed
  <2>3. PICK p \in With(stale[d]) : p \notin Others
    BY <2>2 DEF LooksHeld, IsProcessAlive, OtherExec
  <2>4. p \in Daemons /\ PidOf[p] = stale[d] /\ pc[p] \notin Dead
    BY <2>3 DEF With, Processes
  <2>5. p # d
    BY <2>4 DEF NamedInv
  <2>6. QED BY <2>4, <2>5
<1>4. QED BY <1>1, <1>2, <1>3, PTL DEF Spec, SparedForDaemon
-----------------------------------------------------------------------------
(***************************************************************************)
(* A daemon that is established keeps the lock.  Its own PID is in the     *)
(* file and it is alive, so every start that still has to look is refused, *)
(* and a stop command can only ask it, kill it or give up, where the       *)
(* platform names executables: otherwise a stop command takes its lock for *)
(* a stale one.                                                            *)
(***************************************************************************)
Held == {"boot", "up", "stopping", "cleanup", "release"}

PidsApart ==
  \A p, q \in Processes : PidOf[p] = PidOf[q] /\ pc[p] \notin Dead /\ pc[q] \notin Dead => p = q

\* What the other processes cannot have got to while d holds the lock.
Keeps(d) ==
  /\ lockFile = [by |-> d, pid |-> PidOf[d]]
  /\ \A e \in Daemons \ {d} : pc[e] \notin {"write", "remove"} \cup Held
  /\ \A e \in Daemons : pc[e] = "judge" => seen[e] = PidOf[d]
  /\ \A s \in Stops : pc[s] \in Waiting => seen[s] = PidOf[d] /\ pc[s] \notin {"verify", "cleanup"}

CalmInv ==
  /\ PidsApart
  /\ \A d \in calm : pc[d] \in Held \cup {"exiting", "gone"}
  /\ \A d \in calm : pc[d] \in Held => Keeps(d)

\* A daemon that holds the lock is never judged dead or another program.
LEMMA HolderIsLive ==
  ASSUME PidsApart, NEW d \in Daemons, pc[d] \in Held
  PROVE  IsProcessAlive(PidOf[d]) /\ With(PidOf[d]) = {d}
BY DEF PidsApart, IsProcessAlive, With, Held, Dead, Processes

\* PIDs of live processes stay apart: a process starts only with a free one.
LEMMA PidsStep ==
  ASSUME Typed, PidsApart, [Next]_vars
  PROVE  PidsApart'
<1> USE LockAssumption DEF Typed, Processes
<1>1. ASSUME \A p \in Processes : pc'[p] \notin Dead => pc[p] \notin Dead PROVE PidsApart'
  BY <1>1 DEF PidsApart
<1>2. ASSUME NEW p \in Processes, ~IsProcessAlive(PidOf[p]),
             \A q \in Processes : q # p => pc'[q] = pc[q]
      PROVE  PidsApart'
  BY <1>2 DEF PidsApart, IsProcessAlive, With
<1>3. CASE UNCHANGED vars
  BY <1>1, <1>3 DEF vars
<1>4. ASSUME NEW d \in Daemons, Acquire(d) PROVE PidsApart'
  <2>1. CASE Start(d)
    BY <1>2, <2>1 DEF Start, Goto
  <2>2. CASE ~Start(d)
    BY <1>1, <1>4, <2>2 DEF Acquire, Create, Write, WriteFails, Inspect, Judge, Remove, Goto, Dead
  <2>3. QED BY <2>1, <2>2
<1>5. ASSUME NEW d \in Daemons, Live(d) PROVE PidsApart'
  BY <1>1, <1>5 DEF Live, Boot, Work, WatchStopFile, Signal, StopWorkers, RemoveStopFile,
                    Release, Die, Goto, Dead
<1>6. ASSUME NEW o \in Others, OtherProgram(o) PROVE PidsApart'
  BY <1>1, <1>2, <1>6 DEF OtherProgram, Goto, Dead
<1>7. ASSUME NEW s \in Stops, StopCommand(s) PROVE PidsApart'
  <2>1. CASE Kill(s)
    BY <1>1, <2>1 DEF Kill, With, Goto, Dead
  <2>2. CASE ~Kill(s)
    BY <1>1, <1>7, <2>2 DEF StopCommand, ReadLock, JudgeLock, Ask, LockRemoved, GraceTimeout,
                    Verify, Exited, RemoveLock, StopDies, Goto
  <2>3. QED BY <2>1, <2>2
<1>8. QED BY <1>3, <1>4, <1>5, <1>6, <1>7 DEF Next

\* A step that leaves the lock and what was read of it alone, and by which no
\* other process gets nearer to removing it, keeps a daemon's hold.
LEMMA Retreat ==
  ASSUME NEW d \in Daemons, Keeps(d), lockFile' = lockFile,
         \A e \in Daemons : /\ seen'[e] = seen[e]
                            /\ pc'[e] \in {"write", "remove", "judge"} => pc'[e] = pc[e]
                            /\ pc'[e] \in Held => pc[e] \in Held,
         \A s \in Stops : pc'[s] \in Waiting =>
                            /\ pc[s] \in Waiting /\ seen'[s] = seen[s]
                            /\ pc'[s] \in {"verify", "cleanup"} => pc[s] = pc'[s]
  PROVE  Keeps(d)'
BY DEF Keeps, Held

\* So does a single step of a daemon that does not turn to the lock.
LEMMA RetreatOfDaemon ==
  ASSUME Typed, NEW d \in Daemons, Keeps(d), UNCHANGED <<lockFile, seen>>,
         NEW e \in Daemons, NEW next, Goto(e, next),
         next \notin {"write", "remove", "judge"}, next \in Held => pc[e] \in Held
  PROVE  Keeps(d)'
<1> USE LockAssumption DEF Typed, Processes
<1>1. \A p \in Processes : pc'[p] = IF p = e THEN next ELSE pc[p]
  BY DEF Goto
<1>2. \A s \in Stops : pc'[s] = pc[s]
  BY DEF Goto
<1>3. \A c \in Daemons : /\ pc'[c] \in {"write", "remove", "judge"} => pc'[c] = pc[c]
                         /\ pc'[c] \in Held => pc[c] \in Held
  BY <1>1
<1>4. QED BY <1>2, <1>3, Retreat

\* No step of another process takes the lock from an established daemon.
LEMMA KeepsStep ==
  ASSUME ExecKnown, Typed, PidsApart, NEW d \in Daemons, Keeps(d), pc[d] \in Held,
         pc'[d] \in Held, [Next]_vars
  PROVE  Keeps(d)'
<1> USE LockAssumption DEF Typed, Processes
<1>1. IsProcessAlive(PidOf[d]) /\ With(PidOf[d]) = {d} /\ LooksHeld(PidOf[d]) /\ SameExec(PidOf[d])
  BY HolderIsLive DEF LooksHeld, OtherExec, SameExec
<1>2. lockFile.by = d /\ lockFile.pid = PidOf[d] /\ PidOf[d] # 0 /\ lockFile # NoFile
  BY DEF Keeps, NoFile
<1>3. CASE UNCHANGED vars
  BY <1>3, Retreat DEF vars
<1>4. ASSUME NEW e \in Daemons, Acquire(e) PROVE Keeps(d)'
  <2>1. pc[e] \notin Held /\ e # d
    BY <1>4 DEF Acquire, Start, Create, Write, WriteFails, Inspect, Judge, Remove, Held
  <2>2. pc[e] \notin {"write", "remove"}
    BY <2>1 DEF Keeps
  <2>3. CASE Start(e)
    BY <2>3, Retreat DEF Start, Goto, Held
  <2>4. CASE Create(e)
    <3>1. pc' = [pc EXCEPT ![e] = "inspect"] /\ UNCHANGED <<lockFile, seen>>
      BY <1>2, <2>4 DEF Create, Goto
    <3>2. QED BY <2>4, <3>1, Retreat DEF Create, Held
  <2>5. CASE Inspect(e)
    BY <1>2, <2>5 DEF Inspect, Goto, Keeps, Held
  <2>6. CASE Judge(e)
    <3>1. seen[e] = PidOf[d]
      BY <2>6 DEF Judge, Keeps
    <3>2. pc' = [pc EXCEPT ![e] = "refused"]
      BY <1>1, <2>6, <3>1 DEF Judge, Goto
    <3>3. QED BY <2>6, <3>2, Retreat DEF Judge, Held
  <2>7. QED BY <1>4, <2>2, <2>3, <2>4, <2>5, <2>6 DEF Acquire, Write, WriteFails, Remove
<1>5. ASSUME NEW e \in Daemons, Live(e) PROVE Keeps(d)'
  <2>1. CASE Release(e)
    BY <2>1 DEF Release, Goto, Keeps, Held
  <2>2. CASE Boot(e) \/ WatchStopFile(e) \/ Signal(e) \/ StopWorkers(e)
    <3>1. PICK next \in {"up", "stopping", "cleanup"} : Goto(e, next)
      BY <2>2 DEF Boot, WatchStopFile, Signal, StopWorkers
    <3>2. UNCHANGED <<lockFile, seen>> /\ pc[e] \in Held
      BY <2>2 DEF Boot, WatchStopFile, Signal, StopWorkers, Held
    <3>3. QED BY <3>1, <3>2, RetreatOfDaemon
  <2>3. CASE Work(e)
    BY <2>3, Retreat DEF Work
  <2>4. CASE RemoveStopFile(e) \/ Die(e)
    <3>1. PICK next \in {"release", "gone"} : Goto(e, next)
      BY <2>4 DEF RemoveStopFile, Die
    <3>2. UNCHANGED <<lockFile, seen>> /\ (next \in Held => pc[e] \in Held)
      BY <2>4, <3>1 DEF RemoveStopFile, Die, Held, Goto
    <3>3. QED BY <3>1, <3>2, RetreatOfDaemon
  <2>5. QED BY <1>5, <2>1, <2>2, <2>3, <2>4 DEF Live
<1>6. ASSUME NEW o \in Others, OtherProgram(o) PROVE Keeps(d)'
  <2>1. UNCHANGED seen /\ \E next : Goto(o, next)
    BY <1>6 DEF OtherProgram
  <2>2. \A p \in Daemons \cup Stops : pc'[p] = pc[p]
    BY <2>1 DEF Goto
  <2>3. lockFile' = lockFile
    BY <1>6 DEF OtherProgram
  <2>4. QED BY <2>1, <2>2, <2>3, Retreat
<1>7. ASSUME NEW s \in Stops, StopCommand(s) PROVE Keeps(d)'
  <2>1. pc[s] \in Waiting => seen[s] = PidOf[d] /\ pc[s] \notin {"verify", "cleanup"}
    BY DEF Keeps
  <2>2. CASE ReadLock(s)
    BY <1>2, <2>2 DEF ReadLock, Goto, Keeps, Waiting, Held
  <2>3. CASE JudgeLock(s)
    <3>1. pc' = [pc EXCEPT ![s] = "ask"]
      BY <1>1, <2>1, <2>3 DEF JudgeLock, Goto, Waiting
    <3>2. QED BY <2>3, <3>1, Retreat DEF JudgeLock, Waiting, Held
  <2>4. CASE Ask(s) \/ GraceTimeout(s)
    BY <2>4, Retreat DEF Ask, GraceTimeout, Goto, Waiting, Held
  <2>5. ~LockRemoved(s) /\ ~Verify(s) /\ ~RemoveLock(s)
    BY <1>2, <2>1 DEF LockRemoved, Verify, RemoveLock, Waiting
  <2>6. CASE Kill(s)
    <3>1. seen[s] = PidOf[d] /\ UNCHANGED <<lockFile, seen>> /\ pc[s] \in Waiting
      BY <2>1, <2>6 DEF Kill, Waiting
    <3>2. PICK next \in {"gone", "stopping", pc[d]} : pc' = [pc EXCEPT ![s] = "exitwait", ![d] = next]
      BY <1>1, <2>6, <3>1 DEF Kill
    <3>3. QED BY <3>1, <3>2, Retreat DEF Waiting, Held
  <2>7. CASE Exited(s)
    <3>1. pc' = [pc EXCEPT ![s] = "gone"]
      BY <1>1, <2>1, <2>7 DEF Exited, Goto, Waiting
    <3>2. QED BY <2>7, <3>1, Retreat DEF Exited, Waiting, Held
  <2>8. CASE StopDies(s)
    BY <2>8, Retreat DEF StopDies, Goto, Waiting, Held
  <2>9. QED BY <1>7, <2>2, <2>3, <2>4, <2>5, <2>6, <2>7, <2>8 DEF StopCommand
<1>8. QED BY <1>3, <1>4, <1>5, <1>6, <1>7 DEF Next

\* A daemon is established by its Write, and by nothing else.
LEMMA CalmStep ==
  ASSUME Typed, [Next]_vars, NEW d \in Daemons, d \in calm', d \notin calm
  PROVE  Write(d) /\ lockFile.by = d /\ Undisturbed(d)
<1> USE LockAssumption DEF Typed, Processes
<1>1. CASE UNCHANGED vars
  BY <1>1 DEF vars
<1>2. ASSUME NEW e \in Daemons, Acquire(e) PROVE Write(d) /\ lockFile.by = d /\ Undisturbed(d)
  BY <1>2 DEF Acquire, Start, Create, Write, WriteFails, Inspect, Judge, Remove
<1>3. ASSUME NEW e \in Daemons PROVE ~Live(e)
  BY DEF Live, Boot, Work, WatchStopFile, Signal, StopWorkers, RemoveStopFile, Release, Die
<1>4. ASSUME NEW o \in Others PROVE ~OtherProgram(o)
  BY DEF OtherProgram
<1>5. ASSUME NEW s \in Stops PROVE ~StopCommand(s)
  BY DEF StopCommand, ReadLock, JudgeLock, Ask, LockRemoved, GraceTimeout, Verify, Kill, Exited,
         RemoveLock, StopDies
<1>6. QED BY <1>1, <1>2, <1>3, <1>4, <1>5 DEF Next

\* A daemon past AcquireLock does not get there again.
LEMMA NoWayBack ==
  ASSUME Typed, [Next]_vars, NEW d \in Daemons, pc[d] \in Held \cup {"exiting", "gone"}
  PROVE  /\ pc'[d] \in Held \cup {"exiting", "gone"}
         /\ pc'[d] \in Held => pc[d] \in Held
<1> USE LockAssumption DEF Typed, Processes, Held
<1>1. CASE UNCHANGED vars
  BY <1>1 DEF vars
<1>2. ASSUME NEW e \in Daemons, Acquire(e) PROVE pc'[d] = pc[d]
  BY <1>2 DEF Acquire, Start, Create, Write, WriteFails, Inspect, Judge, Remove, Goto
<1>3. ASSUME NEW e \in Daemons, Live(e)
      PROVE  pc'[d] \in Held \cup {"exiting", "gone"} /\ (pc'[d] \in Held => pc[d] \in Held)
  BY <1>3 DEF Live, Boot, Work, WatchStopFile, Signal, StopWorkers, RemoveStopFile, Release, Die,
              Goto, Dead
<1>4. ASSUME NEW o \in Others, OtherProgram(o) PROVE pc'[d] = pc[d]
  BY <1>4 DEF OtherProgram, Goto
<1>5. ASSUME NEW s \in Stops, StopCommand(s)
      PROVE  pc'[d] \in Held \cup {"exiting", "gone"} /\ (pc'[d] \in Held => pc[d] \in Held)
  BY <1>5, StopEffect
<1>6. QED BY <1>1, <1>2, <1>3, <1>4, <1>5 DEF Next

\* Where the platform can name executables, a daemon that wrote its PID while
\* nobody else was about to write or remove the lock has it to itself until it
\* releases it or ends, whatever starts, stop commands, signals and deaths of
\* daemons and stop commands come in whatever order (lock.go:43-109, stop.go:30-89).
THEOREM EstablishedIsAlone_always == ExecKnown => (Spec => []EstablishedIsAlone)
<1> SUFFICES ASSUME ExecKnown PROVE Spec => []EstablishedIsAlone
  OBVIOUS
<1>1. Init => Typed /\ CalmInv
  <2> SUFFICES ASSUME Init PROVE Typed /\ CalmInv
    OBVIOUS
  <2>1. Typed
    BY InitNamed
  <2>2. PidsApart
    BY DEF Init, PidsApart, Dead
  <2>3. QED BY <2>1, <2>2 DEF Init, CalmInv
<1>2. Typed /\ CalmInv /\ [Next]_vars => Typed' /\ CalmInv'
  <2> SUFFICES ASSUME Typed, CalmInv, [Next]_vars PROVE Typed' /\ CalmInv'
    OBVIOUS
  <2>1. Typed' /\ PidsApart'
    BY TypedStep, PidsStep DEF CalmInv
  <2>2. ASSUME NEW d \in calm'
        PROVE  pc'[d] \in Held \cup {"exiting", "gone"} /\ (pc'[d] \in Held => Keeps(d)')
    <3>1. d \in Daemons
      BY <2>1 DEF Typed
    <3>2. CASE d \in calm
      <4>1. pc'[d] \in Held \cup {"exiting", "gone"} /\ (pc'[d] \in Held => pc[d] \in Held)
        BY <3>1, <3>2, NoWayBack DEF CalmInv
      <4>2. ASSUME pc'[d] \in Held PROVE Keeps(d)'
        BY <3>1, <3>2, <4>1, <4>2, KeepsStep DEF CalmInv
      <4>3. QED BY <4>1, <4>2
    <3>3. CASE d \notin calm
      <4>1. Write(d) /\ lockFile.by = d /\ Undisturbed(d)
        BY <3>1, <3>3, CalmStep
      <4>2. /\ lockFile' = [by |-> d, pid |-> PidOf[d]] /\ seen' = seen
            /\ pc'[d] = "boot" /\ \A p \in Daemons \cup Stops : p # d => pc'[p] = pc[p]
        BY <3>1, <4>1, LockAssumption DEF Write, Goto, Typed, Processes
      <4>3. \A e \in Daemons \ {d} : pc'[e] \notin {"write", "remove", "judge"} \cup Held
        BY <4>1, <4>2 DEF Undisturbed, Dead, Held
      <4>4. \A s \in Stops : pc'[s] \notin Waiting
        BY <3>1, <4>1, <4>2, LockAssumption DEF Undisturbed, Processes
      <4>5. Keeps(d)'
        BY <3>1, <4>2, <4>3, <4>4 DEF Keeps
      <4>6. QED BY <4>2, <4>5 DEF Held
    <3>4. QED BY <3>2, <3>3
  <2>3. QED BY <2>1, <2>2 DEF CalmInv
<1>3. Typed /\ CalmInv => EstablishedIsAlone
  BY DEF Typed, CalmInv, Keeps, Held, EstablishedIsAlone, Holding
<1>4. QED BY <1>1, <1>2, <1>3, PTL DEF Spec
=============================================================================
