------------------------ MODULE BackgroundJobsProofs ------------------------
(***************************************************************************)
(* Proofs about BackgroundJobs, for any jobs, schedules, processes, fronts *)
(* and numbers of records.                                                 *)
(*                                                                         *)
(* OnlyEnabledJobsRun needs to know where a run may stand (PcInv): a run   *)
(* that has passed the check of LoadJob was enabled then, and stays in     *)
(* mayRun.  EditsAreKept needs that the store's lock has one holder, and   *)
(* that the store is still as the holder has loaded it (LockInv).          *)
(* HealthIsOfLastRun needs that a run has its job's lock alone until its   *)
(* outcome is saved (HealthInv).  OrphansAreRemoved follows the timers     *)
(* without a job through a reconciliation (CalmInv), TimersFollowJobs the  *)
(* one job whose timer a call is about to set right (TidyInv); both need   *)
(* types and what each action makes of its call, field by field.           *)
(* TypeOK and NewestRunsKept are about the files of run records.  A record *)
(* is in a file once (RecordInv), so what readAll sorts has no two records *)
(* of one time; a record's place is then the number of those not older,    *)
(* and that the sort exists needs no induction.  NewestRunsKept adds that  *)
(* a pruning call's copy is that of the file while it has the file's lock  *)
(* (NewestInv).                                                            *)
(***************************************************************************)
EXTENDS BackgroundJobs, FiniteSetTheorems, FunctionTheorems, SequenceTheorems, TLAPS

(* A call is a record of these fields.  Their values need no types here.   *)
IsCall(c) ==
  c = [pc |-> c.pc, op |-> c.op, job |-> c.job, snap |-> c.snap, arg |-> c.arg,
       todo |-> c.todo, run |-> c.run, status |-> c.status, kept |-> c.kept]
CallsShaped == /\ call = [p \in Procs |-> call[p]]
               /\ \A p \in Procs : IsCall(call[p])

(* Where a run is from the check of LoadJob to its report, where it may be *)
(* at all, and where the other calls may be.                               *)
Checked   == {"repair", "install", "record", "start", "claim", "session", "report"}
RunPcs    == Checked \cup {"idle", "find", "load", "trace", "append", "prune",
                           "rewrite", "release"}
ChangePcs == {"update", "record", "reload", "install", "remove", "load", "list",
              "next"}

Placed(c) == /\ IF c.op = "run" THEN c.pc \in RunPcs ELSE c.pc \in ChangePcs
             /\ c.pc \in {"list", "next"} => c.op = "reconcile"
PcInv == \A p \in Procs :
  /\ Placed(call[p])
  /\ call[p].op = "run" /\ call[p].pc \in Checked => p \in mayRun

(* What a step of p does to its call c, which becomes d.                   *)
Legal(p, c, d) ==
  \/ d = NoCall
  \/ c.pc = "idle" /\ d.op = "run" /\ d.pc = "find"
  \/ /\ c.pc = "idle" /\ d.op # "run" /\ d.pc \in {"update", "remove", "load"}
     /\ d.op = "create" => d.job \in Jobs /\ \E s : StartCreate(p, d.job, s)
  \/ /\ c.op # "run" /\ d.op = c.op /\ d.pc \in ChangePcs
     /\ d.pc \in {"list", "next"} => d.op = "reconcile"
     /\ d.op = "create" => d.job = c.job /\ (d.pc = "update" => c.pc = "update")
  \/ /\ c.op = "run" /\ d.op = "run" /\ d.job = c.job /\ d.pc \in RunPcs
     /\ d.pc \in Checked => c.pc \in Checked \/ RunsOn(jobs'[c.job])

(* What a step of p does to the calls.                                     *)
CallStep(p) == /\ CallsShaped'
               /\ Legal(p, call[p], call'[p])
               /\ \A q \in Procs \ {p} : call'[q] \in {call[q], NoCall}

-----------------------------------------------------------------------------
(* The empty call is shaped like a call and idle.                          *)
LEMMA NoCallShape == IsCall(NoCall) /\ NoCall.pc = "idle" /\ NoCall.op = "run"
                     /\ NoCall.arg = [spec |-> AnySpec, on |-> TRUE]
  BY DEF NoCall, IsCall

(* A step that replaces one call by a shaped one leaves the calls shaped.  *)
LEMMA BecomeStep ==
  ASSUME CallsShaped, NEW p \in Procs, NEW c, IsCall(c), Become(p, c)
  PROVE  /\ CallsShaped'
         /\ call'[p] = IF c.pc = "idle" THEN NoCall ELSE c
         /\ \A q \in Procs \ {p} : call'[q] \in {call[q], NoCall}
  BY NoCallShape DEF CallsShaped, Become, With

(* So does one that moves a call and changes nothing else of it.           *)
LEMMA GotoStep ==
  ASSUME CallsShaped, NEW p \in Procs, NEW l, Goto(p, l)
  PROVE  /\ CallsShaped'
         /\ \/ call'[p] = NoCall
            \/ /\ l # "idle" /\ call'[p].pc = l /\ call'[p].op = call[p].op
               /\ call'[p].job = call[p].job
         /\ \A q \in Procs \ {p} : call'[q] \in {call[q], NoCall}
<1> DEFINE d == [call[p] EXCEPT !.pc = l]
<1>1. /\ IsCall(d) /\ d.pc = l /\ d.op = call[p].op /\ d.job = call[p].job
  <2>1. IsCall(call[p])  BY DEF CallsShaped
  <2> QED  BY <2>1 DEF IsCall
<1>2. Become(p, d)  BY DEF Goto
<1> HIDE DEF d
<1> QED  BY <1>1, <1>2, BecomeStep

(* The death of some calls.                                                *)
LEMMA DieStep ==
  ASSUME CallsShaped, NEW S, NEW calls, Die(S, calls),
         \A q \in Procs : IsCall(calls[q])
  PROVE  /\ CallsShaped'
         /\ \A q \in Procs : call'[q] \in {calls[q], NoCall}
  BY NoCallShape DEF CallsShaped, Die

(* The record a call becomes, field by field.                              *)
LEMMA WithPc ==
  ASSUME NEW c, IsCall(c), NEW x
  PROVE  LET d == [c EXCEPT !.pc = x] IN
         /\ IsCall(d) /\ d.pc = x /\ d.op = c.op /\ d.job = c.job
         /\ d.snap = c.snap /\ d.arg = c.arg /\ d.todo = c.todo
  BY DEF IsCall

(* The same of the row to write.                                           *)
LEMMA WithArg ==
  ASSUME NEW c, IsCall(c), NEW x
  PROVE  LET d == [c EXCEPT !.arg = x] IN
         /\ IsCall(d) /\ d.pc = c.pc /\ d.op = c.op /\ d.job = c.job
         /\ d.snap = c.snap /\ d.arg = x /\ d.todo = c.todo
  BY DEF IsCall

(* The same of the snapshot.                                               *)
LEMMA WithSnap ==
  ASSUME NEW c, IsCall(c), NEW x
  PROVE  LET d == [c EXCEPT !.snap = x] IN
         /\ IsCall(d) /\ d.pc = c.pc /\ d.op = c.op /\ d.job = c.job
         /\ d.snap = x /\ d.arg = c.arg /\ d.todo = c.todo
  BY DEF IsCall

(* The same of the actions left to do.                                     *)
LEMMA WithTodo ==
  ASSUME NEW c, IsCall(c), NEW x
  PROVE  LET d == [c EXCEPT !.todo = x] IN
         /\ IsCall(d) /\ d.pc = c.pc /\ d.op = c.op /\ d.job = c.job
         /\ d.snap = c.snap /\ d.arg = c.arg /\ d.todo = x
  BY DEF IsCall

(* The same of the job.                                                    *)
LEMMA WithJob ==
  ASSUME NEW c, IsCall(c), NEW x
  PROVE  LET d == [c EXCEPT !.job = x] IN
         /\ IsCall(d) /\ d.pc = c.pc /\ d.op = c.op /\ d.job = x
         /\ d.snap = c.snap /\ d.arg = c.arg /\ d.todo = c.todo
  BY DEF IsCall

(* The same of the operation.                                              *)
LEMMA WithOp ==
  ASSUME NEW c, IsCall(c), NEW x
  PROVE  LET d == [c EXCEPT !.op = x] IN
         /\ IsCall(d) /\ d.pc = c.pc /\ d.op = x /\ d.job = c.job
         /\ d.snap = c.snap /\ d.arg = c.arg /\ d.todo = c.todo
  BY DEF IsCall

(* The same of the record of a run, of its outcome and of the kept ones.   *)
LEMMA WithRun ==
  ASSUME NEW c, IsCall(c), NEW r
  PROVE  LET d == [c EXCEPT !.run = r] IN
         IsCall(d) /\ d.pc = c.pc /\ d.op = c.op /\ d.job = c.job
  BY DEF IsCall

LEMMA WithStatus ==
  ASSUME NEW c, IsCall(c), NEW s
  PROVE  LET d == [c EXCEPT !.status = s] IN
         IsCall(d) /\ d.pc = c.pc /\ d.op = c.op /\ d.job = c.job
  BY DEF IsCall

LEMMA WithKept ==
  ASSUME NEW c, IsCall(c), NEW k
  PROVE  LET d == [c EXCEPT !.kept = k] IN
         IsCall(d) /\ d.pc = c.pc /\ d.op = c.op /\ d.job = c.job
  BY DEF IsCall

(* A call that starts stands at its first place, with its job.             *)
LEMMA StartStep ==
  ASSUME CallsShaped, NEW p \in Procs, NEW c, NEW j, NEW l, NEW s,
         Start(p, c, j, l, s), l # "idle"
  PROVE  /\ CallsShaped'
         /\ call[p].pc = "idle"
         /\ call'[p].pc = l /\ call'[p].op = c /\ call'[p].job = j
         /\ \A q \in Procs \ {p} : call'[q] \in {call[q], NoCall}
<1> DEFINE d == [NoCall EXCEPT !.pc = l, !.op = c, !.job = j, !.arg.spec = s]
<1>1. IsCall(d) /\ d.pc = l /\ d.op = c /\ d.job = j
  <2> DEFINE d1 == [NoCall EXCEPT !.pc = l]
             d2 == [d1 EXCEPT !.op = c]
             d3 == [d2 EXCEPT !.job = j]
  <2>1. IsCall(d1) /\ d1.pc = l  BY NoCallShape, WithPc
  <2>2. IsCall(d2) /\ d2.pc = l /\ d2.op = c
    <3> HIDE DEF d1
    <3> QED  BY <2>1, WithOp
  <2>3. IsCall(d3) /\ d3.pc = l /\ d3.op = c /\ d3.job = j
    <3> HIDE DEF d2
    <3> QED  BY <2>2, WithJob
  <2>4. d = [d3 EXCEPT !.arg = [d3.arg EXCEPT !.spec = s]]  OBVIOUS
  <2> HIDE DEF d, d3
  <2> QED  BY <2>3, <2>4, WithArg
<1>2. Become(p, d) /\ call[p].pc = "idle"  BY DEF Start, At
<1> HIDE DEF d
<1> QED  BY <1>1, <1>2, BecomeStep

-----------------------------------------------------------------------------
(* Every step that starts a call, changes the store or calls the scheduler *)
(* keeps to Legal.                                                         *)
LEMMA LegalStart ==
  ASSUME CallsShaped, NEW p \in Procs, NEW j \in Jobs,
         \/ \E s \in Specs : StartCreate(p, j, s) \/ StartEdit(p, j, s)
         \/ \E c \in {"pause", "resume"} : StartSwitch(p, c, j)
         \/ StartDelete(p, j) \/ StartRun(p, j) \/ StartReconcile(p)
  PROVE  CallStep(p)
<1>1. \E c, k, l, s : /\ Start(p, c, k, l, s)
                      /\ IF c = "run" THEN l = "find" ELSE l \in {"update", "remove", "load"}
                      /\ c = "create" => k \in Jobs /\ StartCreate(p, k, s)
  <2>1. ASSUME NEW s \in Specs, StartCreate(p, j, s)
        PROVE  Start(p, "create", j, "update", s)
    BY <2>1 DEF StartCreate
  <2>2. ASSUME NEW s \in Specs, StartEdit(p, j, s)
        PROVE  Start(p, "edit", j, "update", s)
    BY <2>2 DEF StartEdit
  <2>3. ASSUME NEW c \in {"pause", "resume"}, StartSwitch(p, c, j)
        PROVE  \E s : Start(p, c, j, "update", s)
    BY <2>3 DEF StartSwitch
  <2>4. StartDelete(p, j) => Start(p, "delete", j, "remove", AnySpec)
    BY DEF StartDelete
  <2>5. StartRun(p, j) => Start(p, "run", j, "find", AnySpec)
    BY DEF StartRun
  <2>6. StartReconcile(p) => \E k : Start(p, "reconcile", k, "load", AnySpec)
    BY DEF StartReconcile
  <2> QED  BY <2>1, <2>2, <2>3, <2>4, <2>5, <2>6
<1>2. PICK c, k, l, s : /\ Start(p, c, k, l, s)
                        /\ IF c = "run" THEN l = "find" ELSE l \in {"update", "remove", "load"}
                        /\ c = "create" => k \in Jobs /\ StartCreate(p, k, s)
  BY <1>1
<1> QED  BY <1>2, StartStep DEF CallStep, Legal

(* Taking the store's lock moves a call on legally.                        *)
LEMMA LegalLockStore ==
  ASSUME CallsShaped, NEW p \in Procs, Placed(call[p]), LockStore(p)
  PROVE  CallStep(p)
<1> DEFINE d == [call[p] EXCEPT !.snap = jobs]
<1>1. IsCall(d) /\ d.pc = call[p].pc /\ d.op = call[p].op /\ d.job = call[p].job
  BY DEF CallsShaped, IsCall
<1>2. Become(p, d) /\ Updating(p)  BY DEF LockStore
<1>3. /\ CallsShaped'
      /\ call'[p] = IF d.pc = "idle" THEN NoCall ELSE d
      /\ \A q \in Procs \ {p} : call'[q] \in {call[q], NoCall}
  <2> HIDE DEF d
  <2> QED  BY <1>1, <1>2, BecomeStep
<1> HIDE DEF d
<1> QED  BY <1>1, <1>2, <1>3 DEF CallStep, Legal, Placed, Updating, RunPcs, ChangePcs, Checked

(* So does saving the store,                                               *)
LEMMA LegalSaveStore ==
  ASSUME CallsShaped, NEW p \in Procs, Placed(call[p]), SaveStore(p)
  PROVE  CallStep(p)
<1> DEFINE c == call[p]
           row == c.snap[c.job]
           l == AfterUpdate(c, AfterChange(p, row))
           d == [c EXCEPT !.pc = l, !.arg = Captured(p, row), !.snap = NoCall.snap]
<1>1. IsCall(d) /\ d.pc = l /\ d.op = c.op /\ d.job = c.job
  <2> HIDE DEF l, row
  <2> DEFINE d1 == [c EXCEPT !.pc = l]
             d2 == [d1 EXCEPT !.arg = Captured(p, row)]
  <2>1. IsCall(d1) /\ d1.pc = l /\ d1.op = c.op /\ d1.job = c.job
    BY WithPc DEF CallsShaped
  <2>2. IsCall(d2) /\ d2.pc = l /\ d2.op = c.op /\ d2.job = c.job
    <3> HIDE DEF d1
    <3> QED  BY <2>1, WithArg
  <2>3. d = [d2 EXCEPT !.snap = NoCall.snap]  OBVIOUS
  <2> HIDE DEF d, d2
  <2> QED  BY <2>2, <2>3, WithSnap
<1>2. Become(p, d) /\ Updating(p)  BY DEF SaveStore
<1>3. /\ CallsShaped'
      /\ call'[p] = IF d.pc = "idle" THEN NoCall ELSE d
      /\ \A q \in Procs \ {p} : call'[q] \in {call[q], NoCall}
  <2> HIDE DEF d
  <2> QED  BY <1>1, <1>2, BecomeStep
<1>4. AfterChange(p, row) \in {"install", "idle", "reload", "remove"}
  BY DEF AfterChange
<1>5. /\ c.op = "run" => l \in {"append", "start"} /\ c.pc \in Checked
      /\ c.op # "run" => l \in (ChangePcs \ {"update", "list"}) \cup {"idle"}
      /\ l = "next" => c.op = "reconcile"
  BY <1>2, <1>4 DEF AfterUpdate, Updating, Placed, RunPcs, ChangePcs, Checked
<1> HIDE DEF d, l, row
<1> QED  BY <1>1, <1>3, <1>5 DEF CallStep, Legal, RunPcs, Checked

(* and failing to load or save it.                                         *)
LEMMA LegalStoreError ==
  ASSUME CallsShaped, NEW p \in Procs, Placed(call[p]), StoreError(p)
  PROVE  CallStep(p)
<1> DEFINE c == call[p]
           l == AfterUpdate(c, "idle")
           d == [c EXCEPT !.pc = l, !.snap = NoCall.snap]
<1>1. IsCall(d) /\ d.pc = l /\ d.op = c.op /\ d.job = c.job
  <2> HIDE DEF l
  <2> DEFINE d1 == [c EXCEPT !.pc = l]
  <2>1. IsCall(d1) /\ d1.pc = l /\ d1.op = c.op /\ d1.job = c.job
    BY WithPc DEF CallsShaped
  <2>2. d = [d1 EXCEPT !.snap = NoCall.snap]  OBVIOUS
  <2> HIDE DEF d, d1
  <2> QED  BY <2>1, <2>2, WithSnap
<1>2. Become(p, d) /\ Updating(p)  BY DEF StoreError
<1>3. /\ CallsShaped'
      /\ call'[p] = IF d.pc = "idle" THEN NoCall ELSE d
      /\ \A q \in Procs \ {p} : call'[q] \in {call[q], NoCall}
  <2> HIDE DEF d
  <2> QED  BY <1>1, <1>2, BecomeStep
<1>5. /\ c.op = "run" => l \in {"append", "start"} /\ c.pc \in Checked
      /\ c.op # "run" => l \in (ChangePcs \ {"update", "list"}) \cup {"idle"}
      /\ l = "next" => c.op = "reconcile"
  BY <1>2 DEF AfterUpdate, Updating, Placed, RunPcs, ChangePcs, Checked
<1> HIDE DEF d, l
<1> QED  BY <1>1, <1>3, <1>5 DEF CallStep, Legal, RunPcs, Checked

-----------------------------------------------------------------------------
(* Where a call c may go.                                                  *)
MayGo(c, l, checked) ==
  /\ IF c.op = "run" THEN l \in RunPcs /\ (l \in Checked => c.pc \in Checked \/ checked)
                     ELSE l \in ChangePcs \cup {"idle"}
  /\ l \in {"list", "next"} => c.op = "reconcile"
  /\ l = "update" => c.op # "create"

(* A call that may go where it goes makes a legal step,                    *)
LEMMA MoveStep ==
  ASSUME CallsShaped, NEW p \in Procs, NEW d, IsCall(d), Become(p, d),
         d.op = call[p].op, d.op \in {"run", "create"} => d.job = call[p].job,
         MayGo(call[p], d.pc, RunsOn(jobs'[call[p].job]))
  PROVE  CallStep(p)
<1>1. /\ CallsShaped'
      /\ call'[p] = IF d.pc = "idle" THEN NoCall ELSE d
      /\ \A q \in Procs \ {p} : call'[q] \in {call[q], NoCall}
  BY BecomeStep
<1> QED  BY <1>1 DEF CallStep, Legal, MayGo

(* and so does one of which nothing else changes.                          *)
LEMMA GotoMove ==
  ASSUME CallsShaped, NEW p \in Procs, NEW l, Goto(p, l),
         MayGo(call[p], l, RunsOn(jobs'[call[p].job]))
  PROVE  CallStep(p)
<1> DEFINE d == [call[p] EXCEPT !.pc = l]
<1>1. IsCall(d) /\ d.pc = l /\ d.op = call[p].op /\ d.job = call[p].job
  BY WithPc DEF CallsShaped
<1>2. Become(p, d)  BY DEF Goto
<1> HIDE DEF d
<1> QED  BY <1>1, <1>2, MoveStep

(* The scheduler: a removal may kill the runs that are under way.          *)
LEMMA RemovingMove ==
  ASSUME CallsShaped, NEW p \in Procs, NEW l, Removing(p, l),
         MayGo(call[p], l, FALSE)
  PROVE  CallStep(p)
<1> DEFINE d == [call[p] EXCEPT !.pc = l]
<1>1. IsCall(d) /\ d.pc = l /\ d.op = call[p].op /\ d.job = call[p].job
  BY WithPc DEF CallsShaped
<1>2. PICK S : Die(S, With(p, d))  BY DEF Removing
<1> HIDE DEF d
<1>3. /\ With(p, d)[p] = IF d.pc = "idle" THEN NoCall ELSE d
      /\ \A q \in Procs \ {p} : With(p, d)[q] = call[q]
      /\ \A q \in Procs : IsCall(With(p, d)[q])
  BY <1>1, NoCallShape DEF With, CallsShaped
<1>4. /\ CallsShaped'
      /\ \A q \in Procs : call'[q] \in {With(p, d)[q], NoCall}
  BY <1>2, <1>3, DieStep
<1> QED  BY <1>1, <1>3, <1>4 DEF CallStep, Legal, MayGo

(* The steps at the OS scheduler are legal,                                *)
LEMMA LegalScheduler ==
  ASSUME CallsShaped, NEW p \in Procs, Placed(call[p]),
         Reload(p) \/ Install(p) \/ InstallFails(p) \/ Remove(p) \/ RemoveFails(p)
  PROVE  CallStep(p)
<1> USE DEF MayGo, Placed, RunPcs, ChangePcs, Checked
<1>1. CASE Reload(p)
  <2>1. CASE Goto(p, "idle")  BY <2>1, GotoMove
  <2>2. ASSUME NEW l \in {"remove", "install"}, NEW x,
               Become(p, [call[p] EXCEPT !.pc = l, !.arg.spec = x])
        PROVE  CallStep(p)
    <3> DEFINE d1 == [call[p] EXCEPT !.pc = l]
               d == [d1 EXCEPT !.arg.spec = x]
    <3>1. IsCall(d1) /\ d1.pc = l /\ d1.op = call[p].op /\ d1.job = call[p].job
      BY WithPc DEF CallsShaped
    <3>2. IsCall(d) /\ d.pc = l /\ d.op = call[p].op /\ d.job = call[p].job
      <4> HIDE DEF d1
      <4> QED  BY <3>1, WithArg
    <3>3. Become(p, d)  BY <2>2
    <3>4. call[p].op # "run"  BY <1>1 DEF Reload, At
    <3> HIDE DEF d
    <3> QED  BY <3>2, <3>3, <3>4, MoveStep
  <2> QED  BY <1>1, <2>1, <2>2 DEF Reload
<1>2. CASE Install(p)
  <2>1. \E l \in {"record", "idle"} :
           Goto(p, l) /\ (call[p].op = "run" => l = "record") /\ call[p].pc = "install"
    BY <1>2 DEF Install, WritesBack, At
  <2> QED  BY <2>1, GotoMove
<1>3. CASE InstallFails(p)
  <2>1. \E l : /\ Goto(p, l) /\ call[p].pc = "install"
               /\ IF call[p].op = "run" THEN l = "start" ELSE l \in {"next", "idle"}
               /\ l = "next" => call[p].op = "reconcile"
    BY <1>3 DEF InstallFails, AfterUpdate, At
  <2> QED  BY <2>1, GotoMove
<1>4. CASE Remove(p)
  <2>1. \E l \in {"update", "next", "record", "idle"} :
          /\ Removing(p, l) /\ call[p].pc = "remove"
          /\ l = "next" => call[p].op = "reconcile"
          /\ l = "update" => call[p].op = "delete"
    BY <1>4 DEF Remove, AfterRemove, At
  <2> QED  BY <2>1, RemovingMove
<1>5. CASE RemoveFails(p)
  <2>1. \E l \in {"update", "next", "record", "idle"} :
          /\ Removing(p, l) /\ call[p].pc = "remove"
          /\ l = "next" => call[p].op = "reconcile"
          /\ l = "update" => call[p].op = "delete"
    BY <1>5 DEF RemoveFails, AfterRemove, At
  <2> QED  BY <2>1, RemovingMove
<1> QED  BY <1>1, <1>2, <1>3, <1>4, <1>5

(* those of reconciliation,                                                *)
LEMMA LegalReconcile ==
  ASSUME CallsShaped, NEW p \in Procs, Placed(call[p]),
         \/ LoadSnapshot(p) \/ ListTimers(p, TRUE) \/ ListTimers(p, FALSE)
         \/ NextAction(p) \/ EndReconcile(p)
  PROVE  CallStep(p)
<1> USE DEF MayGo, Placed, RunPcs, ChangePcs, Checked
<1>0. IsCall(call[p])  BY DEF CallsShaped
<1>1. CASE LoadSnapshot(p)
  <2> DEFINE d1 == [call[p] EXCEPT !.pc = "list"]
             d == [d1 EXCEPT !.snap = jobs]
  <2>1. IsCall(d1) /\ d1.pc = "list" /\ d1.op = call[p].op
    BY <1>0, WithPc
  <2>2. IsCall(d) /\ d.pc = "list" /\ d.op = call[p].op
    <3> HIDE DEF d1
    <3> QED  BY <2>1, WithSnap
  <2>3. Become(p, d) /\ call[p].op = "reconcile"  BY <1>1 DEF LoadSnapshot
  <2> HIDE DEF d
  <2> QED  BY <2>2, <2>3, MoveStep
<1>2. ASSUME NEW b \in BOOLEAN, ListTimers(p, b)  PROVE CallStep(p)
  <2> DEFINE todo == Wanted(call[p].snap, b)
             d1 == [call[p] EXCEPT !.pc = "next"]
             d2 == [d1 EXCEPT !.todo = todo]
             d == [d2 EXCEPT !.snap = NoCall.snap]
  <2>3. Become(p, d) /\ call[p].pc = "list"  BY <1>2 DEF ListTimers, At
  <2> HIDE DEF todo
  <2>1. IsCall(d1) /\ d1.pc = "next" /\ d1.op = call[p].op
    BY <1>0, WithPc
  <2>2. IsCall(d2) /\ d2.pc = "next" /\ d2.op = call[p].op
    <3> HIDE DEF d1
    <3> QED  BY <2>1, WithTodo
  <2>4. IsCall(d) /\ d.pc = "next" /\ d.op = call[p].op
    <3> HIDE DEF d2
    <3> QED  BY <2>2, WithSnap
  <2> HIDE DEF d
  <2> QED  BY <2>4, <2>3, MoveStep
<1>3. CASE NextAction(p)
  <2>1. PICK a \in call[p].todo :
               Become(p, [call[p] EXCEPT
                            !.pc = IF a.kind = "install" THEN "install" ELSE "remove",
                            !.job = a.job, !.arg.spec = a.spec, !.todo = @ \ {a}])
    BY <1>3 DEF NextAction
  <2> DEFINE l == IF a.kind = "install" THEN "install" ELSE "remove"
             d1 == [call[p] EXCEPT !.pc = l]
             d2 == [d1 EXCEPT !.job = a.job]
             d3 == [d2 EXCEPT !.arg.spec = a.spec]
             d == [d3 EXCEPT !.todo = @ \ {a}]
  <2>2. Become(p, d) /\ l \in {"install", "remove"}  BY <2>1
  <2>3. IsCall(d1) /\ d1.pc = l /\ d1.op = call[p].op
    <3> HIDE DEF l
    <3> QED  BY <1>0, WithPc
  <2> HIDE DEF l
  <2>4. IsCall(d2) /\ d2.pc = l /\ d2.op = call[p].op
    <3> HIDE DEF d1
    <3> QED  BY <2>3, WithJob
  <2>5. IsCall(d3) /\ d3.pc = l /\ d3.op = call[p].op
    <3> HIDE DEF d2
    <3> QED  BY <2>4, WithArg
  <2>6. IsCall(d) /\ d.pc = l /\ d.op = call[p].op
    <3> HIDE DEF d3
    <3> QED  BY <2>5, WithTodo
  <2>7. call[p].op = "reconcile"  BY <1>3 DEF NextAction, At
  <2> HIDE DEF d
  <2> QED  BY <2>2, <2>6, <2>7, MoveStep
<1>4. CASE EndReconcile(p)
  BY <1>4, GotoMove DEF EndReconcile, At
<1> QED  BY <1>1, <1>2, <1>3, <1>4

(* A run up to its session.                                                *)
LEMMA RecordMove ==
  ASSUME CallsShaped, NEW p \in Procs, NEW l, NewRecord(p, l),
         MayGo(call[p], l, RunsOn(jobs'[call[p].job]))
  PROVE  CallStep(p)
<1> DEFINE d1 == [call[p] EXCEPT !.pc = l]
           d == [d1 EXCEPT !.run = now']
<1>1. IsCall(d1) /\ d1.pc = l /\ d1.op = call[p].op /\ d1.job = call[p].job
  BY WithPc DEF CallsShaped
<1>2. IsCall(d) /\ d.pc = l /\ d.op = call[p].op /\ d.job = call[p].job
  <2> HIDE DEF d1
  <2> QED  BY <1>1, WithRun
<1>3. Become(p, d)  BY DEF NewRecord
<1> HIDE DEF d
<1> QED  BY <1>2, <1>3, MoveStep

(* those of a run up to its outcome,                                       *)
LEMMA LegalRun ==
  ASSUME CallsShaped, NEW p \in Procs, Placed(call[p]),
         \/ FindJob(p) \/ LoadJob(p) \/ SelfRepair(p) \/ BeginRun(p) \/ Claim(p)
         \/ \E st \in Outcomes, r \in BOOLEAN : EndSession(p, st, r)
  PROVE  CallStep(p)
<1> USE DEF MayGo, Placed, RunPcs, ChangePcs, Checked
<1>1. CASE FindJob(p)
  <2>1. \E l \in {"idle", "load"} : Goto(p, l)  BY <1>1 DEF FindJob
  <2> QED  BY <1>1, <2>1, GotoMove DEF FindJob, At
<1>2. CASE LoadJob(p)
  <2>1. ASSUME RunsOn(jobs[call[p].job]), Goto(p, "repair")  PROVE CallStep(p)
    <3>1. RunsOn(jobs'[call[p].job])  BY <1>2, <2>1 DEF LoadJob, storeVars
    <3> QED  BY <1>2, <2>1, <3>1, GotoMove DEF LoadJob
  <2>2. ASSUME NewRecord(p, "trace")  PROVE CallStep(p)
    BY <1>2, <2>2, RecordMove DEF LoadJob
  <2> QED  BY <1>2, <2>1, <2>2 DEF LoadJob
<1>3. CASE SelfRepair(p)
  <2>0. call[p].pc = "repair"  BY <1>3 DEF SelfRepair, At
  <2>1. CASE Goto(p, "start")  BY <2>0, <2>1, GotoMove
  <2>2. ASSUME NEW x, Become(p, [call[p] EXCEPT !.pc = "install", !.arg.spec = x])
        PROVE  CallStep(p)
    <3> DEFINE d1 == [call[p] EXCEPT !.pc = "install"]
               d == [d1 EXCEPT !.arg.spec = x]
    <3>1. IsCall(d1) /\ d1.pc = "install" /\ d1.op = call[p].op /\ d1.job = call[p].job
      BY WithPc DEF CallsShaped
    <3>2. IsCall(d) /\ d.pc = "install" /\ d.op = call[p].op /\ d.job = call[p].job
      <4> HIDE DEF d1
      <4> QED  BY <3>1, WithArg
    <3>3. Become(p, d)  BY <2>2
    <3> HIDE DEF d
    <3> QED  BY <2>0, <3>2, <3>3, MoveStep
  <2> QED  BY <1>3, <2>1, <2>2 DEF SelfRepair
<1>4. CASE BeginRun(p)
  BY <1>4, RecordMove DEF BeginRun, At
<1>5. CASE Claim(p)
  <2>1. \E l \in {"session", "trace"} : Goto(p, l) /\ call[p].pc = "claim"
    BY <1>5 DEF Claim, At
  <2> QED  BY <2>1, GotoMove
<1>6. ASSUME NEW st \in Outcomes, NEW r \in BOOLEAN, EndSession(p, st, r)
      PROVE  CallStep(p)
  <2> DEFINE l == IF r THEN "report" ELSE "append"
             d1 == [call[p] EXCEPT !.pc = l]
             d == [d1 EXCEPT !.status = st]
  <2>1. Become(p, d) /\ call[p].pc = "session" /\ l \in {"report", "append"}
    BY <1>6 DEF EndSession, At
  <2> HIDE DEF l
  <2>2. IsCall(d1) /\ d1.pc = l /\ d1.op = call[p].op /\ d1.job = call[p].job
    BY WithPc DEF CallsShaped
  <2>3. IsCall(d) /\ d.pc = l /\ d.op = call[p].op /\ d.job = call[p].job
    <3> HIDE DEF d1
    <3> QED  BY <2>2, WithStatus
  <2> HIDE DEF d
  <2> QED  BY <2>1, <2>3, MoveStep
<1> QED  BY <1>1, <1>2, <1>3, <1>4, <1>5, <1>6

(* Its record, and the end of processes.                                   *)
LEMMA LegalRecord ==
  ASSUME CallsShaped, NEW p \in Procs, Placed(call[p]),
         AppendRun(p) \/ Prune(p) \/ Rewrite(p) \/ Release(p)
  PROVE  CallStep(p)
<1> USE DEF MayGo, Placed, RunPcs, ChangePcs, Checked
<1>0. IsCall(call[p])  BY DEF CallsShaped
<1>1. CASE AppendRun(p)
  <2> DEFINE l == IF call[p].pc = "append" THEN "prune" ELSE "idle"
             d1 == [call[p] EXCEPT !.pc = l]
             d2 == [d1 EXCEPT !.run = 0]
             d == [d2 EXCEPT !.status = NoCall.status]
  <2>1. Become(p, d) /\ call[p].pc \in {"append", "trace"} /\ l \in {"prune", "idle"}
    BY <1>1 DEF AppendRun
  <2> HIDE DEF l
  <2>2. IsCall(d1) /\ d1.pc = l /\ d1.op = call[p].op /\ d1.job = call[p].job
    BY <1>0, WithPc
  <2>3. IsCall(d2) /\ d2.pc = l /\ d2.op = call[p].op /\ d2.job = call[p].job
    <3> HIDE DEF d1
    <3> QED  BY <2>2, WithRun
  <2>4. IsCall(d) /\ d.pc = l /\ d.op = call[p].op /\ d.job = call[p].job
    <3> HIDE DEF d2
    <3> QED  BY <2>3, WithStatus
  <2> HIDE DEF d
  <2> QED  BY <2>1, <2>4, MoveStep
<1>2. CASE Prune(p)
  <2>0. call[p].pc = "prune"  BY <1>2 DEF Prune, At
  <2>1. CASE Goto(p, "release")  BY <2>0, <2>1, GotoMove
  <2>2. ASSUME NEW k, Become(p, [call[p] EXCEPT !.pc = "rewrite", !.kept = k])
        PROVE  CallStep(p)
    <3> DEFINE d1 == [call[p] EXCEPT !.pc = "rewrite"]
               d == [d1 EXCEPT !.kept = k]
    <3>1. IsCall(d1) /\ d1.pc = "rewrite" /\ d1.op = call[p].op /\ d1.job = call[p].job
      BY <1>0, WithPc
    <3>2. IsCall(d) /\ d.pc = "rewrite" /\ d.op = call[p].op /\ d.job = call[p].job
      <4> HIDE DEF d1
      <4> QED  BY <3>1, WithKept
    <3>3. Become(p, d)  BY <2>2
    <3> HIDE DEF d
    <3> QED  BY <2>0, <3>2, <3>3, MoveStep
  <2> QED  BY <1>2, <2>1, <2>2 DEF Prune
<1>3. CASE Rewrite(p)
  <2> DEFINE d1 == [call[p] EXCEPT !.pc = "release"]
             d == [d1 EXCEPT !.kept = <<>>]
  <2>1. IsCall(d1) /\ d1.pc = "release" /\ d1.op = call[p].op /\ d1.job = call[p].job
    BY <1>0, WithPc
  <2>2. IsCall(d) /\ d.pc = "release" /\ d.op = call[p].op /\ d.job = call[p].job
    <3> HIDE DEF d1
    <3> QED  BY <2>1, WithKept
  <2>3. Become(p, d) /\ call[p].pc = "rewrite"  BY <1>3 DEF Rewrite, At
  <2> HIDE DEF d
  <2> QED  BY <2>2, <2>3, MoveStep
<1>4. CASE Release(p)
  BY <1>4, GotoMove DEF Release, At
<1> QED  BY <1>1, <1>2, <1>3, <1>4

(* and a crash.                                                            *)
LEMMA LegalCrash ==
  ASSUME CallsShaped, NEW p \in Procs, Crash(p), Placed(call[p])
  PROVE  CallStep(p)
<1>1. PICK S : Die(S, call) /\ p \in S  BY DEF Crash, Threads
<1>2. /\ CallsShaped'
      /\ \A q \in Procs : call'[q] \in {call[q], NoCall}
  BY <1>1, DieStep DEF CallsShaped
<1>3. call'[p] = NoCall  BY <1>1 DEF Die
<1> QED  BY <1>2, <1>3 DEF CallStep, Legal

(* Every step of p keeps to Legal.                                         *)
LEMMA EveryStep ==
  ASSUME CallsShaped, PcInv, NEW p \in Procs, Works(p) \/ Fails(p)
  PROVE  CallStep(p)
<1>1. Placed(call[p])  BY DEF PcInv
<1>2. CASE Works(p)
  <2>1. \/ \E j \in Jobs : \/ \E s \in Specs : StartCreate(p, j, s) \/ StartEdit(p, j, s)
                           \/ \E c \in {"pause", "resume"} : StartSwitch(p, c, j)
                           \/ StartDelete(p, j) \/ StartRun(p, j)
        \/ StartReconcile(p)
        \/ LockStore(p) \/ SaveStore(p)
        \/ Reload(p) \/ Install(p) \/ Remove(p)
        \/ LoadSnapshot(p) \/ ListTimers(p, TRUE) \/ NextAction(p) \/ EndReconcile(p)
        \/ FindJob(p) \/ LoadJob(p) \/ SelfRepair(p) \/ BeginRun(p) \/ Claim(p)
        \/ \E st \in Outcomes, r \in BOOLEAN : EndSession(p, st, r)
        \/ AppendRun(p) \/ Prune(p) \/ Rewrite(p) \/ Release(p)
    BY <1>2 DEF Works
  <2>2. PICK k \in Jobs : TRUE  BY JobsAssumption
  <2> QED  BY <1>1, <2>1, <2>2, LegalStart, LegalLockStore, LegalSaveStore, LegalScheduler,
              LegalReconcile, LegalRun, LegalRecord
<1>3. CASE Fails(p)
  BY <1>1, <1>3, LegalStoreError, LegalScheduler, LegalReconcile, LegalCrash DEF Fails
<1> QED  BY <1>2, <1>3

-----------------------------------------------------------------------------

(* No call has begun in the initial state.                                 *)
LEMMA InitInv == Init => CallsShaped /\ PcInv
  BY NoCallShape DEF Init, CallsShaped, PcInv, Placed, RunPcs, Checked

(* A run that has passed the check stays among those that may run.         *)
LEMMA StepInv ==
  ASSUME CallsShaped, PcInv, [Next]_vars
  PROVE  CallsShaped' /\ PcInv'
<1>1. CASE UNCHANGED vars
  BY <1>1 DEF vars, CallsShaped, PcInv
<1>2. ASSUME NEW p \in Procs, Works(p) \/ Fails(p), NEW b, Note(p, b)
      PROVE  CallsShaped' /\ PcInv'
  <2>1. CallStep(p)  BY <1>2, EveryStep
  <2>2. ASSUME NEW q \in Procs
        PROVE  /\ Placed(call'[q])
               /\ call'[q].op = "run" /\ call'[q].pc \in Checked => q \in mayRun'
    <3>1. CASE call'[q] = NoCall
      BY <3>1, NoCallShape DEF Placed, RunPcs, Checked
    <3>2. CASE q # p /\ call'[q] = call[q]
      <4>1. Placed(call'[q])  BY <3>2 DEF PcInv
      <4>2. ASSUME call'[q].op = "run", call'[q].pc \in Checked  PROVE q \in mayRun'
        BY <3>2, <4>2, <1>2 DEF PcInv, Note, Checked
      <4> QED  BY <4>1, <4>2
    <3>3. CASE q = p /\ call'[q] # NoCall
      <4>1. Legal(p, call[p], call'[p])  BY <2>1 DEF CallStep
      <4>2. Placed(call'[p])
        BY <3>3, <4>1 DEF Legal, Placed, RunPcs, ChangePcs, Checked
      <4>3. ASSUME call'[p].op = "run", call'[p].pc \in Checked  PROVE p \in mayRun'
        <5>1. /\ call[p].op = "run" /\ call'[p].job = call[p].job
              /\ call[p].pc \in Checked \/ RunsOn(jobs'[call[p].job])
          BY <3>3, <4>1, <4>3 DEF Legal, Checked
        <5>2. p \in mayRun \/ RunsOn(jobs'[call'[p].job])
          BY <5>1 DEF PcInv
        <5> QED  BY <1>2, <4>3, <5>2 DEF Note, Checked
      <4> QED  BY <3>3, <4>2, <4>3
    <3> QED  BY <2>1, <3>1, <3>2, <3>3 DEF CallStep
  <2> QED  BY <2>1, <2>2 DEF CallStep, PcInv
<1> QED  BY <1>1, <1>2 DEF Next

(* A prompt runs only for a job that was enabled at some moment since the  *)
(* run was asked for (Executor.Run loads the job itself), for any number   *)
(* of processes, jobs and schedules.                                       *)
THEOREM OnlyEnabledJobsRun_always == Spec => []OnlyEnabledJobsRun
<1>1. PcInv => OnlyEnabledJobsRun
  BY DEF PcInv, OnlyEnabledJobsRun, Placed, RunPcs, ChangePcs, Checked
<1>2. Spec => [](CallsShaped /\ PcInv)
  BY InitInv, StepInv, PTL DEF Spec
<1> QED  BY <1>1, <1>2, PTL

-----------------------------------------------------------------------------
(***************************************************************************)
(* The store.  Its lock has at most one holder, which has loaded the store *)
(* as it is; a job that is about to be created is new, and of one creator. *)
(***************************************************************************)
IsRow(r) == r = [enabled |-> r.enabled, spec |-> r.spec, rec |-> r.rec, state |-> r.state]
StoreShaped == /\ jobs = [j \in Jobs |-> jobs[j]]
               /\ \A j \in Jobs : jobs[j] = Absent \/ IsRow(jobs[j])

LockInv ==
  /\ storeLock \subseteq Procs
  /\ \A p, q \in storeLock : p = q
  /\ \A p \in storeLock : Updating(p) /\ call[p].snap = jobs

(* Of it alone: where locks do not exclude, the holders are updating.      *)
LockHeld == /\ storeLock \subseteq Procs
            /\ \A p \in storeLock : Updating(p)

Creates(p) == call[p].op = "create"
CreateInv ==
  /\ \A j \in Jobs : jobs[j] # Absent => j \in born
  /\ \A p \in Procs : Creates(p) => call[p].job \in Jobs
  /\ \A p \in Procs : Creates(p) /\ call[p].pc = "update" => call[p].job \notin born
  /\ \A p, q \in Procs : Creates(p) /\ Creates(q) /\ p # q => call[p].job # call[q].job

(* A step that leaves the store alone; it may give up the lock.            *)
Quiet == /\ UNCHANGED <<jobs, born>>
         /\ storeLock' \subseteq storeLock
         /\ \A q \in storeLock' : call'[q] = call[q]

(* The one is part of the other.                                           *)
LEMMA HeldWhenOne == LockInv => LockHeld
  BY DEF LockInv, LockHeld

(* A step of a call that is not updating leaves the store alone.           *)
LEMMA OrdinaryStep ==
  ASSUME CallsShaped, LockHeld, NEW p \in Procs, NEW c, Become(p, c),
         UNCHANGED storeVars, ~Updating(p)
  PROVE  Quiet
<1>1. \A q \in Procs \ {p} : call'[q] = call[q]
  BY DEF CallsShaped, Become, With
<1>2. p \notin storeLock  BY DEF LockHeld
<1> QED  BY <1>1, <1>2 DEF Quiet, storeVars, LockHeld

(* The store changes hands or rows in two actions only.                    *)
LEMMA StoreStep ==
  ASSUME CallsShaped, LockHeld, NEW p \in Procs, Works(p) \/ Fails(p)
  PROVE  Quiet \/ LockStore(p) \/ SaveStore(p)
<1> USE DEF At, Updating
<1>1. ASSUME NEW c, NEW j, NEW l, NEW s, Start(p, c, j, l, s)  PROVE Quiet
  BY <1>1, OrdinaryStep DEF Start
<1>2. CASE \E j \in Jobs : \/ \E s \in Specs : StartCreate(p, j, s) \/ StartEdit(p, j, s)
                           \/ \E c \in {"pause", "resume"} : StartSwitch(p, c, j)
                           \/ StartDelete(p, j)
                           \/ StartRun(p, j)
  BY <1>1, <1>2 DEF StartCreate, StartEdit, StartSwitch, StartDelete, StartRun
<1>3. CASE StartReconcile(p)  BY <1>1, <1>3 DEF StartReconcile
<1>4. CASE Reload(p)
  <2>1. (\E c : Become(p, c)) /\ UNCHANGED storeVars /\ ~Updating(p)
    BY <1>4 DEF Reload, Goto
  <2> QED  BY <2>1, OrdinaryStep
<1>5. CASE Install(p) \/ InstallFails(p)
  BY <1>5, OrdinaryStep DEF Install, InstallFails, Goto
<1>6. CASE LoadSnapshot(p) \/ EndReconcile(p)
  BY <1>6, OrdinaryStep DEF LoadSnapshot, EndReconcile, Goto
<1>7. ASSUME NEW b \in BOOLEAN, ListTimers(p, b)  PROVE Quiet
  BY <1>7, OrdinaryStep DEF ListTimers
<1>8. CASE NextAction(p)
  <2>1. (\E c : Become(p, c)) /\ UNCHANGED storeVars /\ ~Updating(p)
    BY <1>8 DEF NextAction
  <2> QED  BY <2>1, OrdinaryStep
<1>9. CASE FindJob(p) \/ SelfRepair(p) \/ Claim(p) \/ Rewrite(p) \/ Release(p)
  <2>1. (\E c : Become(p, c)) /\ UNCHANGED storeVars /\ ~Updating(p)
    BY <1>9 DEF FindJob, SelfRepair, Claim, Rewrite, Release, Goto
  <2> QED  BY <2>1, OrdinaryStep
<1>10. CASE LoadJob(p) \/ BeginRun(p)
  <2>1. (\E c : Become(p, c)) /\ UNCHANGED storeVars /\ ~Updating(p)
    BY <1>10 DEF LoadJob, BeginRun, NewRecord, Goto
  <2> QED  BY <2>1, OrdinaryStep
<1>11. CASE \E st \in Outcomes, r \in BOOLEAN : EndSession(p, st, r)
  BY <1>11, OrdinaryStep DEF EndSession
<1>12. CASE AppendRun(p) \/ Prune(p)
  <2>1. (\E c : Become(p, c)) /\ UNCHANGED storeVars /\ ~Updating(p)
    BY <1>12 DEF AppendRun, Prune, Goto
  <2> QED  BY <2>1, OrdinaryStep
<1>13. CASE StoreError(p)
  <2>1. \A q \in Procs \ {p} : call'[q] = call[q]
    BY <1>13 DEF StoreError, CallsShaped, Become, With
  <2>2. storeLock' = storeLock \ {p}
    BY <1>13 DEF StoreError, RefusedTo
  <2> QED  BY <1>13, <2>1, <2>2 DEF StoreError, Quiet, LockHeld
<1>14. CASE Remove(p) \/ RemoveFails(p)
  <2>1. PICK l : Removing(p, l)  BY <1>14 DEF Remove, RemoveFails
  <2> DEFINE d == [call[p] EXCEPT !.pc = l]
  <2>2. PICK S : Die(S, With(p, d))  BY <2>1 DEF Removing
  <2> HIDE DEF d
  <2>3. p \notin storeLock  BY <1>14 DEF Remove, RemoveFails, LockHeld
  <2>4. ASSUME NEW q \in storeLock, q \notin S  PROVE call'[q] = call[q]
    BY <2>2, <2>3, <2>4 DEF Die, With, LockHeld, CallsShaped
  <2> QED  BY <2>2, <2>4 DEF Die, Quiet
<1>15. CASE Crash(p)
  <2>1. PICK S : Die(S, call)  BY <1>15 DEF Crash
  <2> QED  BY <2>1 DEF Die, Quiet, LockHeld
<1> QED  BY <1>1, <1>2, <1>3, <1>4, <1>5, <1>6, <1>7, <1>8, <1>9, <1>10, <1>11, <1>12, <1>13,
            <1>14, <1>15 DEF Works, Fails

(* What a save makes of the store it has loaded: the rows of other jobs    *)
(* stay; of a job that is there, one field changes or the row goes; a job  *)
(* that is not there comes only by a create.                               *)
LEMMA SavedRows ==
  ASSUME StoreShaped, NEW p \in Procs, SaveStore(p), call[p].snap = jobs
  PROVE  /\ StoreShaped'
         /\ \A j \in Jobs \ {call[p].job} : jobs'[j] = jobs[j]
         /\ \A j \in Jobs : jobs'[j] # jobs[j] =>
              \/ Creates(p) /\ call[p].pc = "update"
              \/ jobs[j] # Absent /\ OneChange(j)
<1> DEFINE c == call[p]
           row == jobs[c.job]
<1>1. jobs' = Mutated(c) /\ c.snap = jobs  BY DEF SaveStore
<1>2. CASE c.pc = "update" /\ c.op = "create"
  <2>1. jobs' = [jobs EXCEPT ![c.job] = NewJob(c.arg.spec)]
    BY <1>1, <1>2 DEF Mutated
  <2>2. IsRow(NewJob(c.arg.spec))  BY DEF IsRow, NewJob
  <2> QED  BY <1>2, <2>1, <2>2 DEF StoreShaped, Creates
<1>3. CASE ~(c.pc = "update" /\ c.op = "create") /\ row = Absent
  <2>1. jobs' = jobs  BY <1>1, <1>3 DEF Mutated
  <2> QED  BY <2>1 DEF StoreShaped
<1>4. CASE ~(c.pc = "update" /\ c.op = "create") /\ row # Absent
  <2>1. jobs' = [jobs EXCEPT ![c.job] = Edited(c, row)]
    BY <1>1, <1>4 DEF Mutated
  <2>2. CASE c.job \notin Jobs
    <3>1. jobs' = jobs  BY <2>1, <2>2 DEF StoreShaped
    <3> QED  BY <3>1 DEF StoreShaped
  <2>3. CASE c.job \in Jobs
    <3>1. IsRow(row)  BY <1>4, <2>3 DEF StoreShaped
    <3>2. \/ Edited(c, row) = Absent
          \/ \E x : \/ Edited(c, row) = [row EXCEPT !.enabled = x]
                    \/ Edited(c, row) = [row EXCEPT !.spec = x]
                    \/ Edited(c, row) = [row EXCEPT !.rec = x]
                    \/ Edited(c, row) = [row EXCEPT !.state = x]
      <4>1. CASE c.pc = "record"  BY <4>1 DEF Edited
      <4>2. CASE c.pc = "report"  BY <4>2 DEF Edited
      <4>3. CASE c.pc \notin {"record", "report"}  BY <4>3 DEF Edited
      <4> QED  BY <4>1, <4>2, <4>3
    <3> DEFINE new == Edited(c, row)
    <3>3. /\ new = Absent \/ IsRow(new)
          /\ \/ new = Absent
             \/ \E f \in Fields : \A g \in Fields \ {f} : new[g] = row[g]
      <4>1. ASSUME NEW x, NEW y,
                   \/ y = [row EXCEPT !.enabled = x] \/ y = [row EXCEPT !.spec = x]
                   \/ y = [row EXCEPT !.rec = x] \/ y = [row EXCEPT !.state = x]
            PROVE  IsRow(y) /\ \E f \in Fields : \A g \in Fields \ {f} : y[g] = row[g]
        BY ONLY <3>1, <4>1 DEF IsRow, Fields
      <4>2. CASE new = Absent  BY <4>2
      <4>3. CASE new # Absent
        <5>1. PICK x : \/ new = [row EXCEPT !.enabled = x] \/ new = [row EXCEPT !.spec = x]
                       \/ new = [row EXCEPT !.rec = x] \/ new = [row EXCEPT !.state = x]
          BY <3>2, <4>3
        <5> HIDE DEF new, row
        <5>2. IsRow(new) /\ \E f \in Fields : \A g \in Fields \ {f} : new[g] = row[g]
          BY <4>1, <5>1
        <5> QED  BY <5>2
      <4> QED  BY <4>2, <4>3
    <3>4. jobs' = [jobs EXCEPT ![c.job] = new]  BY <2>1
    <3> HIDE DEF new, row
    <3>5. jobs'[c.job] = new /\ \A j \in Jobs \ {c.job} : jobs'[j] = jobs[j]
      BY <2>3, <3>4 DEF StoreShaped
    <3>6. OneChange(c.job) /\ jobs[c.job] # Absent
      BY <1>4, <3>3, <3>5 DEF OneChange, row
    <3>7. StoreShaped'
      BY <3>3, <3>4, <3>5 DEF StoreShaped
    <3> QED  BY <3>5, <3>6, <3>7
  <2> QED  BY <2>2, <2>3
<1> QED  BY <1>2, <1>3, <1>4

(* The store is unlocked and empty at first.                               *)
LEMMA StoreInit == Init => StoreShaped /\ LockInv /\ CreateInv
  BY NoCallShape DEF Init, StoreShaped, LockInv, CreateInv, Creates

(* The lock goes to one call at a time, and only its holder saves.         *)
LEMMA LockKept ==
  ASSUME AtomicLocks, CallsShaped, PcInv, StoreShaped, LockInv, NEW p \in Procs,
         Works(p) \/ Fails(p)
  PROVE  LockInv' /\ StoreShaped'
<1>1. CASE Quiet
  BY <1>1 DEF Quiet, LockInv, StoreShaped, Updating
<1>2. CASE LockStore(p)
  <2> DEFINE d == [call[p] EXCEPT !.snap = jobs]
  <2>1. IsCall(d) /\ d.pc = call[p].pc /\ d.snap = jobs
    BY WithSnap DEF CallsShaped
  <2>2. Become(p, d) /\ Updating(p) /\ storeLock' = {p} /\ UNCHANGED jobs
    BY <1>2 DEF LockStore, OpenTo
  <2> HIDE DEF d
  <2>3. call'[p] = d  BY <2>1, <2>2, BecomeStep DEF Updating
  <2> QED  BY <2>1, <2>2, <2>3 DEF LockInv, StoreShaped, Updating
<1>3. CASE SaveStore(p)
  <2>1. storeLock' = {}  BY <1>3 DEF SaveStore, LockInv
  <2>2. call[p].snap = jobs  BY <1>3 DEF SaveStore, LockInv
  <2> QED  BY <1>3, <2>1, <2>2, SavedRows DEF LockInv
<1> QED  BY <1>1, <1>2, <1>3, StoreStep, HeldWhenOne

(* A job about to be created stays new until its creator has saved it.     *)
LEMMA CreateKept ==
  ASSUME AtomicLocks, CallsShaped, PcInv, StoreShaped, LockInv, CreateInv,
         NEW p \in Procs, Works(p) \/ Fails(p)
  PROVE  CreateInv'
<1>1. CallStep(p)  BY EveryStep
<1>2. ASSUME NEW q \in Procs, Creates(q)'
      PROVE  \/ /\ Creates(q) /\ call'[q].job = call[q].job
                /\ call'[q].pc = "update" => call[q].pc = "update"
             \/ q = p /\ call'[p].job \in Jobs /\ \E s : StartCreate(p, call'[p].job, s)
  <2>1. call'[q].op = "create" /\ call'[q] # NoCall
    BY <1>2, NoCallShape DEF Creates
  <2>2. CASE q # p
    BY <1>1, <2>1, <2>2 DEF CallStep, Creates
  <2>3. CASE q = p
    BY <1>1, <2>1, <2>3 DEF CallStep, Legal, Creates
  <2> QED  BY <2>2, <2>3
<1>3. ASSUME NEW j, NEW s, StartCreate(p, j, s)
      PROVE  /\ j \notin born /\ UNCHANGED <<jobs, born>>
             /\ \A q \in Procs : Creates(q) => call[q].job # j
  BY <1>3 DEF StartCreate, Start, storeVars, Creates
<1>4. \A q \in Procs : Creates(q)' => call'[q].job \in Jobs
  BY <1>2 DEF CreateInv
<1>5. \A q, r \in Procs : Creates(q)' /\ Creates(r)' /\ q # r => call'[q].job # call'[r].job
  BY <1>2, <1>3 DEF CreateInv
<1>6. CASE UNCHANGED <<jobs, born>>
  <2>1. \A q \in Procs : Creates(q)' /\ call'[q].pc = "update" => call'[q].job \notin born'
    BY <1>2, <1>3, <1>6 DEF CreateInv
  <2> QED  BY <1>4, <1>5, <1>6, <2>1 DEF CreateInv, Creates
<1>7. CASE SaveStore(p)
  <2>1. call[p].snap = jobs  BY <1>7 DEF SaveStore, LockInv
  <2>2. born' = born \cup {j \in Jobs : jobs'[j] # Absent}  BY <1>7 DEF SaveStore
  <2>3. /\ \A j \in Jobs \ {call[p].job} : jobs'[j] = jobs[j]
        /\ \A j \in Jobs : jobs'[j] # jobs[j] =>
              (Creates(p) /\ call[p].pc = "update") \/ jobs[j] # Absent
    BY <1>7, <2>1, SavedRows
  <2>4. ASSUME NEW q \in Procs, Creates(q)', call'[q].pc = "update"
        PROVE  call'[q].job \notin born'
    <3>1. call[p].pc # "idle" /\ Updating(p)  BY <1>7 DEF SaveStore, Updating
    <3>2. Creates(q) /\ call'[q].job = call[q].job /\ call[q].pc = "update"
      <4>1. ~\E s : StartCreate(p, call'[p].job, s)
        BY <3>1 DEF StartCreate, Start, At
      <4> QED  BY <1>2, <2>4, <4>1
    <3>3. q # p
      <4>1. ASSUME q = p  PROVE FALSE
        <5> DEFINE c == call[p]
                   l == AfterUpdate(c, AfterChange(p, c.snap[c.job]))
                   d1 == [c EXCEPT !.pc = l]
                   d2 == [d1 EXCEPT !.arg = Captured(p, c.snap[c.job])]
                   d == [d2 EXCEPT !.snap = NoCall.snap]
        <5>1. Become(p, d)  BY <1>7 DEF SaveStore
        <5>2. l = "install"
          BY <3>2, <4>1 DEF AfterUpdate, AfterChange, Creates
        <5>3. IsCall(d1) /\ d1.pc = "install"
          BY <5>2, WithPc DEF CallsShaped
        <5> HIDE DEF l
        <5>4. IsCall(d2) /\ d2.pc = "install"
          <6> HIDE DEF d1
          <6> QED  BY <5>3, WithArg
        <5>5. IsCall(d) /\ d.pc = "install"
          <6> HIDE DEF d2
          <6> QED  BY <5>4, WithSnap
        <5> HIDE DEF d
        <5> QED  BY <2>4, <4>1, <5>1, <5>5, BecomeStep
      <4> QED  BY <4>1
    <3>4. call[q].job \in Jobs /\ call[q].job \notin born /\ jobs[call[q].job] = Absent
      BY <3>2 DEF CreateInv
    <3>5. jobs'[call[q].job] = Absent
      <4>1. CASE call[p].job = call[q].job
        BY <2>3, <3>2, <3>3, <3>4, <4>1 DEF CreateInv
      <4>2. CASE call[p].job # call[q].job
        BY <2>3, <3>4, <4>2
      <4> QED  BY <4>1, <4>2
    <3> QED  BY <2>2, <3>2, <3>4, <3>5
  <2>5. \A j \in Jobs : jobs'[j] # Absent => j \in born'  BY <2>2
  <2> QED  BY <1>4, <1>5, <2>4, <2>5 DEF CreateInv, Creates
<1> QED  BY <1>6, <1>7, StoreStep, HeldWhenOne DEF Quiet, LockStore

(* Where AcquireLock gives the store's lock to one process at a time, a    *)
(* save changes what its caller asked for and nothing else (Store.Update   *)
(* loads under the lock it saves under), whoever dies and whatever fails.  *)
THEOREM EditsAreKept_always == AtomicLocks /\ Spec => EditsAreKept
<1> DEFINE Inv == CallsShaped /\ PcInv /\ StoreShaped /\ LockInv /\ CreateInv
           Act == \A j \in Jobs : jobs'[j] # jobs[j] =>
                    OneChange(j) /\ \A k \in Jobs \ {j} : jobs'[k] = jobs[k]
<1>1. Init => Inv  BY InitInv, StoreInit
<1>2. ASSUME AtomicLocks, Inv, [Next]_vars  PROVE Inv'
  <2>1. CallsShaped' /\ PcInv'  BY <1>2, StepInv
  <2>2. CASE UNCHANGED vars
    BY <1>2, <2>1, <2>2 DEF vars, StoreShaped, LockInv, CreateInv, Creates, Updating
  <2>3. ASSUME NEW p \in Procs, Works(p) \/ Fails(p)  PROVE Inv'
    BY <1>2, <2>1, <2>3, LockKept, CreateKept
  <2> QED  BY <1>2, <2>2, <2>3 DEF Next
<1>3. ASSUME AtomicLocks, Inv, [Next]_vars  PROVE [Act]_vars
  <2>1. CASE UNCHANGED vars  BY <2>1
  <2>2. ASSUME NEW p \in Procs, Works(p) \/ Fails(p)  PROVE Act
    <3>1. CASE UNCHANGED jobs  BY <3>1
    <3>2. CASE SaveStore(p)
      <4>1. call[p].snap = jobs  BY <1>3, <3>2 DEF SaveStore, LockInv
      <4>2. /\ \A j \in Jobs \ {call[p].job} : jobs'[j] = jobs[j]
            /\ \A j \in Jobs : jobs'[j] # jobs[j] =>
                 \/ Creates(p) /\ call[p].pc = "update"
                 \/ jobs[j] # Absent /\ OneChange(j)
        BY <1>3, <3>2, <4>1, SavedRows
      <4>3. Creates(p) /\ call[p].pc = "update" => OneChange(call[p].job)
        BY <1>3 DEF CreateInv, OneChange
      <4> QED  BY <4>2, <4>3
    <3> QED  BY <1>3, <2>2, <3>1, <3>2, StoreStep, HeldWhenOne DEF Quiet, LockStore
  <2> QED  BY <1>3, <2>1, <2>2 DEF Next
<1>4. CASE AtomicLocks
  <2>1. Inv /\ [Next]_vars => Inv'  BY <1>2, <1>4
  <2>2. Inv /\ [Next]_vars => [Act]_vars  BY <1>3, <1>4
  <2> HIDE DEF Inv, Act
  <2>3. Spec => [][Act]_vars  BY <1>1, <2>1, <2>2, PTL DEF Spec
  <2> QED  BY <2>3 DEF EditsAreKept, Act
<1> QED  BY <1>4
-----------------------------------------------------------------------------
(***************************************************************************)
(* What each action makes of its call, field by field.                     *)
(***************************************************************************)
CallOf(l, o, j, sn, a, t, r, st, k) ==
  [pc |-> l, op |-> o, job |-> j, snap |-> sn, arg |-> a, todo |-> t, run |-> r, status |-> st,
   kept |-> k]

(* The call of p goes on at l, with these values in the fields the proofs  *)
(* below speak of, or is over; no other call moves.                        *)
Turns(p, l, o, j, sn, a, t, st) ==
  /\ \A q \in Procs \ {p} : call'[q] = call[q]
  /\ IF l = "idle" THEN call'[p] = NoCall
     ELSE /\ call'[p].pc = l /\ call'[p].op = o /\ call'[p].job = j
          /\ call'[p].snap = sn /\ call'[p].arg = a /\ call'[p].todo = t
          /\ call'[p].status = st

(* The EXCEPTs of the actions: one that moves a call,                      *)
LEMMA ShapePc ==
  ASSUME NEW c, IsCall(c), NEW l, NEW d,
         d = [c EXCEPT !.pc = l]
  PROVE  d = CallOf(l, c.op, c.job, c.snap, c.arg, c.todo, c.run, c.status, c.kept)
  BY DEF IsCall, CallOf

(* one that loads the store,                                               *)
LEMMA ShapeSnap ==
  ASSUME NEW c, IsCall(c), NEW sn, NEW d,
         d = [c EXCEPT !.snap = sn]
  PROVE  d = CallOf(c.pc, c.op, c.job, sn, c.arg, c.todo, c.run, c.status, c.kept)
  BY DEF IsCall, CallOf

(* one that does both,                                                     *)
LEMMA ShapePcSnap ==
  ASSUME NEW c, IsCall(c), NEW l, NEW sn, NEW d,
         d = [c EXCEPT !.pc = l, !.snap = sn]
  PROVE  d = CallOf(l, c.op, c.job, sn, c.arg, c.todo, c.run, c.status, c.kept)
  BY DEF IsCall, CallOf

(* that of a save,                                                         *)
LEMMA ShapeSave ==
  ASSUME NEW c, IsCall(c), NEW l, NEW a, NEW sn, NEW d,
         d = [c EXCEPT !.pc = l, !.arg = a, !.snap = sn]
  PROVE  d = CallOf(l, c.op, c.job, sn, a, c.todo, c.run, c.status, c.kept)
  BY DEF IsCall, CallOf

(* those that choose the schedule to install,                              *)
LEMMA ShapeArg ==
  ASSUME NEW c, IsCall(c), NEW l, NEW s, NEW d,
         d = [c EXCEPT !.pc = l, !.arg.spec = s]
  PROVE  d = CallOf(l, c.op, c.job, c.snap, [c.arg EXCEPT !.spec = s], c.todo, c.run, c.status,
                    c.kept)
  BY DEF IsCall, CallOf

(* those of a reconciliation that lists its actions                        *)
LEMMA ShapeTodo ==
  ASSUME NEW c, IsCall(c), NEW l, NEW t, NEW sn, NEW d,
         d = [c EXCEPT !.pc = l, !.todo = t, !.snap = sn]
  PROVE  d = CallOf(l, c.op, c.job, sn, c.arg, t, c.run, c.status, c.kept)
  BY DEF IsCall, CallOf

(* and takes one of them,                                                  *)
LEMMA ShapeNext ==
  ASSUME NEW c, IsCall(c), NEW l, NEW j, NEW s, NEW t, NEW d,
         d = [c EXCEPT !.pc = l, !.job = j, !.arg.spec = s, !.todo = t]
  PROVE  d = CallOf(l, c.op, j, c.snap, [c.arg EXCEPT !.spec = s], t, c.run, c.status, c.kept)
  BY DEF IsCall, CallOf

(* that of a new record,                                                   *)
LEMMA ShapeRun ==
  ASSUME NEW c, IsCall(c), NEW l, NEW r, NEW d,
         d = [c EXCEPT !.pc = l, !.run = r]
  PROVE  d = CallOf(l, c.op, c.job, c.snap, c.arg, c.todo, r, c.status, c.kept)
  BY DEF IsCall, CallOf

(* that of the end of a session,                                           *)
LEMMA ShapeStatus ==
  ASSUME NEW c, IsCall(c), NEW l, NEW st, NEW d,
         d = [c EXCEPT !.pc = l, !.status = st]
  PROVE  d = CallOf(l, c.op, c.job, c.snap, c.arg, c.todo, c.run, st, c.kept)
  BY DEF IsCall, CallOf

(* that of an append,                                                      *)
LEMMA ShapeAppend ==
  ASSUME NEW c, IsCall(c), NEW l, NEW r, NEW st, NEW d,
         d = [c EXCEPT !.pc = l, !.run = r, !.status = st]
  PROVE  d = CallOf(l, c.op, c.job, c.snap, c.arg, c.todo, r, st, c.kept)
  BY DEF IsCall, CallOf

(* those of a prune,                                                       *)
LEMMA ShapeKept ==
  ASSUME NEW c, IsCall(c), NEW l, NEW k, NEW d,
         d = [c EXCEPT !.pc = l, !.kept = k]
  PROVE  d = CallOf(l, c.op, c.job, c.snap, c.arg, c.todo, c.run, c.status, k)
  BY DEF IsCall, CallOf

(* and that of a call that starts.                                         *)
LEMMA ShapeStart ==
  ASSUME NEW c, IsCall(c), NEW l, NEW o, NEW j, NEW s, NEW d,
         d = [c EXCEPT !.pc = l, !.op = o, !.job = j, !.arg.spec = s]
  PROVE  d = CallOf(l, o, j, c.snap, [c.arg EXCEPT !.spec = s], c.todo, c.run, c.status, c.kept)
  BY DEF IsCall, CallOf

(* What becomes of the calls when one of them becomes such a record.       *)
LEMMA CallOfStep ==
  ASSUME CallsShaped, NEW p \in Procs, NEW l, NEW o, NEW j, NEW sn, NEW a, NEW t, NEW r, NEW st,
         NEW k, Become(p, CallOf(l, o, j, sn, a, t, r, st, k))
  PROVE  Turns(p, l, o, j, sn, a, t, st)
<1> DEFINE d == CallOf(l, o, j, sn, a, t, r, st, k)
<1>1. /\ d.pc = l /\ d.op = o /\ d.job = j /\ d.snap = sn /\ d.arg = a /\ d.todo = t
      /\ d.status = st
  BY DEF CallOf
<1> HIDE DEF d
<1>2. /\ \A q \in Procs \ {p} : call'[q] = call[q]
      /\ call'[p] = IF d.pc = "idle" THEN NoCall ELSE d
  BY DEF CallsShaped, Become, With, d
<1> QED  BY <1>1, <1>2 DEF Turns

(* A call that moves, and nothing else of it,                              *)
LEMMA TurnGoto ==
  ASSUME CallsShaped, NEW p \in Procs, NEW l, Goto(p, l)
  PROVE  Turns(p, l, call[p].op, call[p].job, call[p].snap, call[p].arg, call[p].todo,
               call[p].status)
<1> DEFINE d == [call[p] EXCEPT !.pc = l]
<1>1. IsCall(call[p])  BY DEF CallsShaped
<1>2. Become(p, d)  BY DEF Goto
<1>3. d = CallOf(l, call[p].op, call[p].job, call[p].snap, call[p].arg, call[p].todo,
                 call[p].run, call[p].status, call[p].kept)
  BY <1>1, ShapePc
<1> HIDE DEF d
<1> QED  BY <1>2, <1>3, CallOfStep

(* that takes the store's lock,                                            *)
LEMMA TurnLock ==
  ASSUME CallsShaped, NEW p \in Procs, LockStore(p)
  PROVE  Turns(p, call[p].pc, call[p].op, call[p].job, jobs, call[p].arg, call[p].todo,
               call[p].status)
<1> DEFINE d == [call[p] EXCEPT !.snap = jobs]
<1>1. IsCall(call[p])  BY DEF CallsShaped
<1>2. Become(p, d)  BY DEF LockStore
<1>3. d = CallOf(call[p].pc, call[p].op, call[p].job, jobs, call[p].arg, call[p].todo,
                 call[p].run, call[p].status, call[p].kept)
  BY <1>1, ShapeSnap
<1> HIDE DEF d
<1> QED  BY <1>2, <1>3, CallOfStep

(* that saves the store                                                    *)
LEMMA TurnSave ==
  ASSUME CallsShaped, NEW p \in Procs, SaveStore(p)
  PROVE  Turns(p, AfterUpdate(call[p], AfterChange(p, call[p].snap[call[p].job])), call[p].op,
               call[p].job, NoCall.snap, Captured(p, call[p].snap[call[p].job]), call[p].todo, call[p].status)
<1> DEFINE l == AfterUpdate(call[p], AfterChange(p, call[p].snap[call[p].job]))
           a == Captured(p, call[p].snap[call[p].job])
           sn == NoCall.snap
           d == [call[p] EXCEPT !.pc = l, !.arg = a, !.snap = sn]
<1>1. IsCall(call[p])  BY DEF CallsShaped
<1>2. Become(p, d)  BY DEF SaveStore
<1> HIDE DEF l, a, sn
<1>3. d = CallOf(l, call[p].op, call[p].job, sn, a, call[p].todo, call[p].run, call[p].status,
                 call[p].kept)
  BY <1>1, ShapeSave
<1> HIDE DEF d
<1>4. Turns(p, l, call[p].op, call[p].job, sn, a, call[p].todo, call[p].status)
  BY <1>2, <1>3, CallOfStep
<1> QED  BY <1>4 DEF l, a, sn

(* or fails to,                                                            *)
LEMMA TurnError ==
  ASSUME CallsShaped, NEW p \in Procs, StoreError(p)
  PROVE  Turns(p, AfterUpdate(call[p], "idle"), call[p].op, call[p].job, NoCall.snap,
               call[p].arg, call[p].todo, call[p].status)
<1> DEFINE l == AfterUpdate(call[p], "idle")
           sn == NoCall.snap
           d == [call[p] EXCEPT !.pc = l, !.snap = sn]
<1>1. IsCall(call[p])  BY DEF CallsShaped
<1>2. Become(p, d)  BY DEF StoreError
<1> HIDE DEF l, sn
<1>3. d = CallOf(l, call[p].op, call[p].job, sn, call[p].arg, call[p].todo, call[p].run,
                 call[p].status, call[p].kept)
  BY <1>1, ShapePcSnap
<1> HIDE DEF d
<1>4. Turns(p, l, call[p].op, call[p].job, sn, call[p].arg, call[p].todo, call[p].status)
  BY <1>2, <1>3, CallOfStep
<1> QED  BY <1>4 DEF l, sn

(* that chooses a schedule,                                                *)
LEMMA TurnArg ==
  ASSUME CallsShaped, NEW p \in Procs, NEW l, NEW s,
         Become(p, [call[p] EXCEPT !.pc = l, !.arg.spec = s])
  PROVE  Turns(p, l, call[p].op, call[p].job, call[p].snap, [call[p].arg EXCEPT !.spec = s],
               call[p].todo, call[p].status)
<1> DEFINE d == [call[p] EXCEPT !.pc = l, !.arg.spec = s]
<1>1. IsCall(call[p])  BY DEF CallsShaped
<1>2. Become(p, d)  BY DEF Goto
<1>3. d = CallOf(l, call[p].op, call[p].job, call[p].snap, [call[p].arg EXCEPT !.spec = s],
                 call[p].todo, call[p].run, call[p].status, call[p].kept)
  BY <1>1, ShapeArg
<1> HIDE DEF d
<1> QED  BY <1>2, <1>3, CallOfStep

(* that loads the store,                                                   *)
LEMMA TurnLoad ==
  ASSUME CallsShaped, NEW p \in Procs, LoadSnapshot(p)
  PROVE  Turns(p, "list", call[p].op, call[p].job, jobs, call[p].arg, call[p].todo, call[p].status)
<1> DEFINE d == [call[p] EXCEPT !.pc = "list", !.snap = jobs]
<1>1. IsCall(call[p])  BY DEF CallsShaped
<1>2. Become(p, d)  BY DEF LoadSnapshot
<1>3. d = CallOf("list", call[p].op, call[p].job, jobs, call[p].arg, call[p].todo, call[p].run,
                 call[p].status, call[p].kept)
  BY <1>1, ShapePcSnap
<1> HIDE DEF d
<1> QED  BY <1>2, <1>3, CallOfStep

(* that lists what to do                                                   *)
LEMMA TurnList ==
  ASSUME CallsShaped, NEW p \in Procs, NEW b, ListTimers(p, b)
  PROVE  Turns(p, "next", call[p].op, call[p].job, NoCall.snap, call[p].arg,
               Wanted(call[p].snap, b), call[p].status)
<1> DEFINE t == Wanted(call[p].snap, b)
           sn == NoCall.snap
           d == [call[p] EXCEPT !.pc = "next", !.todo = t, !.snap = sn]
<1>1. IsCall(call[p])  BY DEF CallsShaped
<1>2. Become(p, d)  BY DEF ListTimers
<1> HIDE DEF t, sn
<1>3. d = CallOf("next", call[p].op, call[p].job, sn, call[p].arg, t, call[p].run,
                 call[p].status, call[p].kept)
  BY <1>1, ShapeTodo
<1> HIDE DEF d
<1>4. Turns(p, "next", call[p].op, call[p].job, sn, call[p].arg, t, call[p].status)
  BY <1>2, <1>3, CallOfStep
<1> QED  BY <1>4 DEF t, sn

(* and takes the next of it,                                               *)
LEMMA TurnNext ==
  ASSUME CallsShaped, NEW p \in Procs, NEW l, NEW j, NEW s, NEW x,
         Become(p, [call[p] EXCEPT !.pc = l, !.job = j, !.arg.spec = s, !.todo = @ \ x])
  PROVE  Turns(p, l, call[p].op, j, call[p].snap, [call[p].arg EXCEPT !.spec = s],
               call[p].todo \ x, call[p].status)
<1> DEFINE t == call[p].todo \ x
           d == [call[p] EXCEPT !.pc = l, !.job = j, !.arg.spec = s, !.todo = t]
<1>1. IsCall(call[p])  BY DEF CallsShaped
<1>2. Become(p, d)  BY DEF Goto
<1> HIDE DEF t
<1>3. d = CallOf(l, call[p].op, j, call[p].snap, [call[p].arg EXCEPT !.spec = s], t,
                 call[p].run, call[p].status, call[p].kept)
  BY <1>1, ShapeNext
<1> HIDE DEF d
<1>4. Turns(p, l, call[p].op, j, call[p].snap, [call[p].arg EXCEPT !.spec = s], t, call[p].status)
  BY <1>2, <1>3, CallOfStep
<1> QED  BY <1>4 DEF t

(* that makes a record,                                                    *)
LEMMA TurnRecord ==
  ASSUME CallsShaped, NEW p \in Procs, NEW l, NewRecord(p, l)
  PROVE  Turns(p, l, call[p].op, call[p].job, call[p].snap, call[p].arg, call[p].todo,
               call[p].status)
<1> DEFINE r == now'
           d == [call[p] EXCEPT !.pc = l, !.run = r]
<1>1. IsCall(call[p])  BY DEF CallsShaped
<1>2. Become(p, d)  BY DEF NewRecord
<1> HIDE DEF r
<1>3. d = CallOf(l, call[p].op, call[p].job, call[p].snap, call[p].arg, call[p].todo, r,
                 call[p].status, call[p].kept)
  BY <1>1, ShapeRun
<1> HIDE DEF d
<1>4. Turns(p, l, call[p].op, call[p].job, call[p].snap, call[p].arg, call[p].todo, call[p].status)
  BY <1>2, <1>3, CallOfStep
<1> QED  BY <1>4 DEF r

(* that ends its session,                                                  *)
LEMMA TurnEnd ==
  ASSUME CallsShaped, NEW p \in Procs, NEW st, NEW r, EndSession(p, st, r)
  PROVE  Turns(p, IF r THEN "report" ELSE "append", call[p].op, call[p].job, call[p].snap,
               call[p].arg, call[p].todo, st)
<1> DEFINE l == IF r THEN "report" ELSE "append"
           d == [call[p] EXCEPT !.pc = l, !.status = st]
<1>1. IsCall(call[p])  BY DEF CallsShaped
<1>2. Become(p, d)  BY DEF EndSession
<1> HIDE DEF l
<1>3. d = CallOf(l, call[p].op, call[p].job, call[p].snap, call[p].arg, call[p].todo,
                 call[p].run, st, call[p].kept)
  BY <1>1, ShapeStatus
<1> HIDE DEF d
<1>4. Turns(p, l, call[p].op, call[p].job, call[p].snap, call[p].arg, call[p].todo, st)
  BY <1>2, <1>3, CallOfStep
<1> QED  BY <1>4 DEF l

(* that appends its record,                                                *)
LEMMA TurnAppend ==
  ASSUME CallsShaped, NEW p \in Procs, AppendRun(p)
  PROVE  Turns(p, IF call[p].pc = "append" THEN "prune" ELSE "idle", call[p].op, call[p].job,
               call[p].snap, call[p].arg, call[p].todo, NoCall.status)
<1> DEFINE l == IF call[p].pc = "append" THEN "prune" ELSE "idle"
           st == NoCall.status
           d == [call[p] EXCEPT !.pc = l, !.run = 0, !.status = st]
<1>1. IsCall(call[p])  BY DEF CallsShaped
<1>2. Become(p, d)  BY DEF AppendRun
<1> HIDE DEF l, st
<1>3. d = CallOf(l, call[p].op, call[p].job, call[p].snap, call[p].arg, call[p].todo, 0, st,
                 call[p].kept)
  BY <1>1, ShapeAppend
<1> HIDE DEF d
<1>4. Turns(p, l, call[p].op, call[p].job, call[p].snap, call[p].arg, call[p].todo, st)
  BY <1>2, <1>3, CallOfStep
<1> QED  BY <1>4 DEF l, st

(* or that prunes.                                                         *)
LEMMA TurnKept ==
  ASSUME CallsShaped, NEW p \in Procs, NEW l, NEW k,
         Become(p, [call[p] EXCEPT !.pc = l, !.kept = k])
  PROVE  Turns(p, l, call[p].op, call[p].job, call[p].snap, call[p].arg, call[p].todo,
               call[p].status)
<1> DEFINE d == [call[p] EXCEPT !.pc = l, !.kept = k]
<1>1. IsCall(call[p])  BY DEF CallsShaped
<1>2. Become(p, d)  BY DEF Goto
<1>3. d = CallOf(l, call[p].op, call[p].job, call[p].snap, call[p].arg, call[p].todo,
                 call[p].run, call[p].status, k)
  BY <1>1, ShapeKept
<1> HIDE DEF d
<1> QED  BY <1>2, <1>3, CallOfStep

(* And one that starts.                                                    *)
LEMMA TurnStart ==
  ASSUME CallsShaped, NEW p \in Procs, NEW o, NEW j, NEW l, NEW s, Start(p, o, j, l, s)
  PROVE  Turns(p, l, o, j, NoCall.snap, [NoCall.arg EXCEPT !.spec = s], NoCall.todo, NoCall.status)
<1> DEFINE d == [NoCall EXCEPT !.pc = l, !.op = o, !.job = j, !.arg.spec = s]
<1>1. IsCall(NoCall)  BY NoCallShape
<1>2. Become(p, d)  BY DEF Start
<1>3. d = CallOf(l, o, j, NoCall.snap, [NoCall.arg EXCEPT !.spec = s], NoCall.todo, NoCall.run,
                 NoCall.status, NoCall.kept)
  BY <1>1, ShapeStart
<1> HIDE DEF d
<1> QED  BY <1>2, <1>3, CallOfStep

-----------------------------------------------------------------------------
(***************************************************************************)
(* Types, those of the run records excepted.                               *)
(***************************************************************************)
Rows == [Jobs -> Job \cup {Absent}]

CallTyped(c) == /\ c.job \in Jobs /\ c.snap \in Rows /\ c.arg \in Timer
                /\ c.todo \subseteq Action /\ c.status \in Outcomes

Typed == /\ jobs \in Rows
         /\ timers \in [Jobs -> Timer \cup {NoTimer}]
         /\ \A p \in Procs : CallTyped(call[p])

(* The call of p goes on with values of their types, or is over.           *)
TypedTurn(p) == \E l, o, j, sn, a, t, st :
  /\ Turns(p, l, o, j, sn, a, t, st)
  /\ j \in Jobs /\ sn \in Rows /\ a \in Timer /\ t \subseteq Action /\ st \in Outcomes

(* The empty call is of its type.                                          *)
LEMMA NoCallTyped == CallTyped(NoCall) /\ AnySpec \in Specs
<1>1. AnySpec \in Specs  BY JobsAssumption DEF AnySpec
<1>2. NoCall.job \in Jobs  BY JobsAssumption DEF NoCall
<1>3. NoCall.snap \in Rows  BY DEF NoCall, Rows
<1>4. NoCall.arg \in Timer  BY <1>1 DEF NoCall, Timer
<1>5. NoCall.todo \subseteq Action /\ NoCall.status \in Outcomes  BY DEF NoCall, Outcomes
<1> QED  BY <1>1, <1>2, <1>3, <1>4, <1>5 DEF CallTyped

(* So are the calls after a turn.                                          *)
LEMMA TurnTyped ==
  ASSUME \A q \in Procs : CallTyped(call[q]), NEW p \in Procs, TypedTurn(p)
  PROVE  \A q \in Procs : CallTyped(call'[q])
  BY NoCallTyped DEF TypedTurn, Turns, CallTyped

(* An argument of Install with another schedule is one.                    *)
LEMMA ArgTyped ==
  ASSUME NEW a \in Timer, NEW s \in Specs
  PROVE  [a EXCEPT !.spec = s] \in Timer
  BY DEF Timer

(* What a save makes of the rows, and what it captures of them, is typed.  *)
LEMMA MutatedTyped ==
  ASSUME NEW c, CallTyped(c)
  PROVE  Mutated(c) \in Rows
<1> DEFINE row == c.snap[c.job]
<1>0. c.job \in Jobs /\ c.snap \in Rows /\ row \in Job \cup {Absent}
  BY DEF CallTyped, Rows
<1>1. c.arg.spec \in Specs /\ c.status \in Outcomes
  BY DEF CallTyped, Timer
<1>2. NewJob(c.arg.spec) \in Job
  BY <1>1 DEF NewJob, Job
<1>3. ASSUME row \in Job  PROVE Edited(c, row) \in Job \cup {Absent}
  <2>1. [row EXCEPT !.rec = c.arg.spec] \in Job /\ [row EXCEPT !.rec = NoSpec] \in Job
    BY <1>1, <1>3 DEF Job
  <2>2. [row EXCEPT !.state = c.status] \in Job
    BY <1>1, <1>3 DEF Job
  <2>3. [row EXCEPT !.spec = c.arg.spec] \in Job
    BY <1>1, <1>3 DEF Job
  <2>4. [row EXCEPT !.enabled = FALSE] \in Job /\ [row EXCEPT !.enabled = TRUE] \in Job
    BY <1>3 DEF Job
  <2> HIDE DEF row
  <2>5. CASE c.pc = "record"
    <3>1. Edited(c, row) \in {[row EXCEPT !.rec = c.arg.spec], [row EXCEPT !.rec = NoSpec]}
      BY <2>5 DEF Edited
    <3> QED  BY <2>1, <3>1
  <2>6. CASE c.pc = "report"  BY <2>2, <2>6 DEF Edited
  <2>7. CASE c.pc \notin {"record", "report"}
    <3>1. Edited(c, row) \in {[row EXCEPT !.spec = c.arg.spec], [row EXCEPT !.enabled = FALSE],
                              [row EXCEPT !.enabled = TRUE], Absent}
      BY <2>7 DEF Edited
    <3> QED  BY <2>3, <2>4, <3>1
  <2> QED  BY <2>5, <2>6, <2>7
<1> HIDE DEF row
<1>4. \/ Mutated(c) = c.snap
      \/ Mutated(c) = [c.snap EXCEPT ![c.job] = NewJob(c.arg.spec)]
      \/ row # Absent /\ Mutated(c) = [c.snap EXCEPT ![c.job] = Edited(c, row)]
  BY DEF Mutated, row
<1>5. ASSUME NEW r \in Job \cup {Absent}  PROVE [c.snap EXCEPT ![c.job] = r] \in Rows
  BY <1>0, <1>5 DEF Rows
<1> QED  BY <1>0, <1>2, <1>3, <1>4, <1>5

(* What a save captures for Install is typed.                              *)
LEMMA CapturedTyped ==
  ASSUME NEW p \in Procs, CallTyped(call[p]), NEW row \in Job \cup {Absent}
  PROVE  Captured(p, row) \in Timer
<1> DEFINE a == call[p].arg
<1>1. a \in Timer  BY DEF CallTyped
<1>2. ASSUME row # Absent
      PROVE  /\ [a EXCEPT !.on = row.enabled] \in Timer
             /\ [spec |-> row.spec, on |-> TRUE] \in Timer
  BY <1>1, <1>2 DEF Job, Timer
<1> HIDE DEF a
<1>3. \/ Captured(p, row) = a
      \/ row # Absent /\ Captured(p, row) = [a EXCEPT !.on = row.enabled]
      \/ row # Absent /\ Captured(p, row) = [spec |-> row.spec, on |-> TRUE]
  BY DEF Captured, a
<1> QED  BY <1>1, <1>2, <1>3

(* So are the actions of a reconciliation.                                 *)
LEMMA WantedTyped ==
  ASSUME NEW seen \in Rows, NEW listed
  PROVE  Wanted(seen, listed) \subseteq Action
<1>1. \A j \in Jobs : RunsOn(seen[j]) => seen[j].spec \in Specs
  BY DEF Rows, Job, RunsOn
<1>2. AnySpec \in Specs  BY NoCallTyped
<1> QED  BY <1>1, <1>2 DEF Wanted, Action

(* Every step but a removal or a crash moves one call, of types.           *)
LEMMA EveryTurn ==
  ASSUME CallsShaped, Typed, NEW p \in Procs, Works(p) \/ Fails(p)
  PROVE  TypedTurn(p) \/ Remove(p) \/ RemoveFails(p) \/ Crash(p)
<1> DEFINE c == call[p]
<1>0. CallTyped(c)  BY DEF Typed
<1>1. ASSUME NEW o, NEW j \in Jobs, NEW l, NEW s \in Specs, Start(p, o, j, l, s)
      PROVE  TypedTurn(p)
  <2>1. Turns(p, l, o, j, NoCall.snap, [NoCall.arg EXCEPT !.spec = s], NoCall.todo, NoCall.status)
    BY <1>1, TurnStart
  <2>2. [NoCall.arg EXCEPT !.spec = s] \in Timer
    BY NoCallTyped, ArgTyped DEF CallTyped
  <2> HIDE DEF c
  <2> QED  BY <2>1, <2>2, NoCallTyped DEF TypedTurn, CallTyped
<1>2. ASSUME NEW l, Goto(p, l)  PROVE TypedTurn(p)
  <2>1. Turns(p, l, c.op, c.job, c.snap, c.arg, c.todo, c.status)
    BY <1>2, TurnGoto
  <2> HIDE DEF c
  <2> QED  BY <1>0, <2>1 DEF TypedTurn, CallTyped
<1>3. ASSUME NEW l, NEW s \in Specs, Become(p, [call[p] EXCEPT !.pc = l, !.arg.spec = s])
      PROVE  TypedTurn(p)
  <2>1. Turns(p, l, c.op, c.job, c.snap, [c.arg EXCEPT !.spec = s], c.todo, c.status)
    BY <1>3, TurnArg
  <2>2. [c.arg EXCEPT !.spec = s] \in Timer
    BY <1>0, ArgTyped DEF CallTyped
  <2> HIDE DEF c
  <2> QED  BY <1>0, <2>1, <2>2 DEF TypedTurn, CallTyped
<1>4. ASSUME NEW l, NewRecord(p, l)  PROVE TypedTurn(p)
  <2>1. Turns(p, l, c.op, c.job, c.snap, c.arg, c.todo, c.status)
    BY <1>4, TurnRecord
  <2> HIDE DEF c
  <2> QED  BY <1>0, <2>1 DEF TypedTurn, CallTyped
<1>5. CASE LockStore(p)
  <2>1. Turns(p, c.pc, c.op, c.job, jobs, c.arg, c.todo, c.status)
    BY <1>5, TurnLock
  <2>2. jobs \in Rows  BY DEF Typed
  <2> HIDE DEF c
  <2> QED  BY <1>0, <2>1, <2>2 DEF TypedTurn, CallTyped
<1>6. CASE SaveStore(p)
  <2> DEFINE row == c.snap[c.job]
             l == AfterUpdate(c, AfterChange(p, row))
             a == Captured(p, row)
  <2>1. Turns(p, l, c.op, c.job, NoCall.snap, a, c.todo, c.status)
    BY <1>6, TurnSave
  <2>2. row \in Job \cup {Absent}  BY <1>0 DEF CallTyped, Rows
  <2>3. a \in Timer
    <3> HIDE DEF row
    <3> QED  BY <1>0, <2>2, CapturedTyped
  <2> HIDE DEF c, row, l, a
  <2> QED  BY <1>0, <2>1, <2>3, NoCallTyped DEF TypedTurn, CallTyped
<1>7. CASE StoreError(p)
  <2> DEFINE l == AfterUpdate(c, "idle")
  <2>1. Turns(p, l, c.op, c.job, NoCall.snap, c.arg, c.todo, c.status)
    BY <1>7, TurnError
  <2> HIDE DEF c, l
  <2> QED  BY <1>0, <2>1, NoCallTyped DEF TypedTurn, CallTyped
<1>8. CASE LoadSnapshot(p)
  <2>1. Turns(p, "list", c.op, c.job, jobs, c.arg, c.todo, c.status)
    BY <1>8, TurnLoad
  <2>2. jobs \in Rows  BY DEF Typed
  <2> HIDE DEF c
  <2> QED  BY <1>0, <2>1, <2>2 DEF TypedTurn, CallTyped
<1>9. ASSUME NEW b, ListTimers(p, b)  PROVE TypedTurn(p)
  <2> DEFINE t == Wanted(c.snap, b)
  <2>1. Turns(p, "next", c.op, c.job, NoCall.snap, c.arg, t, c.status)
    BY <1>9, TurnList
  <2>2. t \subseteq Action  BY <1>0, WantedTyped DEF CallTyped
  <2> HIDE DEF c, t
  <2> QED  BY <1>0, <2>1, <2>2, NoCallTyped DEF TypedTurn, CallTyped
<1>10. CASE NextAction(p)
  <2>1. PICK x \in c.todo :
          Become(p, [call[p] EXCEPT !.pc = IF x.kind = "install" THEN "install" ELSE "remove",
                                    !.job = x.job, !.arg.spec = x.spec, !.todo = @ \ {x}])
    BY <1>10 DEF NextAction
  <2> DEFINE l == IF x.kind = "install" THEN "install" ELSE "remove"
             t == c.todo \ {x}
  <2>2. Turns(p, l, c.op, x.job, c.snap, [c.arg EXCEPT !.spec = x.spec], t, c.status)
    BY <2>1, TurnNext
  <2>3. x.job \in Jobs /\ x.spec \in Specs /\ t \subseteq Action
    BY <1>0 DEF CallTyped, Action
  <2>4. [c.arg EXCEPT !.spec = x.spec] \in Timer
    BY <1>0, <2>3, ArgTyped DEF CallTyped
  <2> HIDE DEF c, l, t
  <2> QED  BY <1>0, <2>2, <2>3, <2>4 DEF TypedTurn, CallTyped
<1>11. ASSUME NEW st \in Outcomes, NEW r, EndSession(p, st, r)  PROVE TypedTurn(p)
  <2> DEFINE l == IF r THEN "report" ELSE "append"
  <2>1. Turns(p, l, c.op, c.job, c.snap, c.arg, c.todo, st)
    BY <1>11, TurnEnd
  <2> HIDE DEF c, l
  <2> QED  BY <1>0, <1>11, <2>1 DEF TypedTurn, CallTyped
<1>12. CASE AppendRun(p)
  <2> DEFINE l == IF c.pc = "append" THEN "prune" ELSE "idle"
  <2>1. Turns(p, l, c.op, c.job, c.snap, c.arg, c.todo, NoCall.status)
    BY <1>12, TurnAppend
  <2> HIDE DEF c, l
  <2> QED  BY <1>0, <2>1, NoCallTyped DEF TypedTurn, CallTyped
<1>13. ASSUME NEW l, NEW k, Become(p, [call[p] EXCEPT !.pc = l, !.kept = k])  PROVE TypedTurn(p)
  <2>1. Turns(p, l, c.op, c.job, c.snap, c.arg, c.todo, c.status)
    BY <1>13, TurnKept
  <2> HIDE DEF c
  <2> QED  BY <1>0, <2>1 DEF TypedTurn, CallTyped
<1>14. CASE \/ \E j \in Jobs : \/ \E s \in Specs : StartCreate(p, j, s) \/ StartEdit(p, j, s)
                               \/ \E o \in {"pause", "resume"} : StartSwitch(p, o, j)
                               \/ StartDelete(p, j) \/ StartRun(p, j)
            \/ StartReconcile(p)
  <2>1. ASSUME NEW j \in Jobs, NEW o, StartSwitch(p, o, j)  PROVE TypedTurn(p)
    <3>1. CASE Start(p, o, j, "update", AnySpec)  BY <1>1, <3>1, NoCallTyped
    <3>2. CASE jobs[j] # Absent /\ Start(p, o, j, "update", jobs[j].spec)
      <4>1. jobs[j].spec \in Specs  BY <3>2 DEF Typed, Rows, Job
      <4> QED  BY <1>1, <3>2, <4>1
    <3> QED  BY <2>1, <3>1, <3>2 DEF StartSwitch
  <2>2. ASSUME StartReconcile(p)  PROVE TypedTurn(p)
    <3>1. (CHOOSE j \in Jobs : TRUE) \in Jobs  BY JobsAssumption
    <3> QED  BY <1>1, <2>2, <3>1, NoCallTyped DEF StartReconcile
  <2>3. ASSUME NEW j \in Jobs, NEW s \in Specs, StartCreate(p, j, s) \/ StartEdit(p, j, s)
        PROVE  TypedTurn(p)
    BY <1>1, <2>3 DEF StartCreate, StartEdit
  <2>4. ASSUME NEW j \in Jobs, StartDelete(p, j) \/ StartRun(p, j)  PROVE TypedTurn(p)
    BY <1>1, <2>4, NoCallTyped DEF StartDelete, StartRun
  <2> QED  BY <1>14, <2>1, <2>2, <2>3, <2>4
<1>15. CASE Reload(p) \/ SelfRepair(p)
  <2>0. jobs[c.job] \in Job \cup {Absent}  BY <1>0 DEF CallTyped, Typed, Rows
  <2> DEFINE row == jobs[c.job]
  <2>1. CASE \E l : Goto(p, l)  BY <1>2, <2>1
  <2>2. CASE row # Absent /\ \E l : Become(p, [call[p] EXCEPT !.pc = l, !.arg.spec = row.spec])
    <3>1. row.spec \in Specs  BY <2>0, <2>2 DEF Job
    <3> QED  BY <1>3, <2>2, <3>1
  <2>3. \/ \E l : Goto(p, l)
        \/ row # Absent /\ \E l : Become(p, [call[p] EXCEPT !.pc = l, !.arg.spec = row.spec])
    BY <1>15 DEF Reload, SelfRepair, RunsOn
  <2> QED  BY <2>1, <2>2, <2>3
<1>16. CASE Install(p) \/ InstallFails(p) \/ EndReconcile(p) \/ FindJob(p) \/ Release(p)
  BY <1>2, <1>16 DEF Install, InstallFails, EndReconcile, FindJob, Release
<1>17. CASE LoadJob(p) \/ BeginRun(p) \/ Claim(p)
  BY <1>2, <1>4, <1>17 DEF LoadJob, BeginRun, Claim
<1>18. CASE Prune(p) \/ Rewrite(p)
  <2>1. CASE Prune(p)  BY <1>2, <1>13, <2>1 DEF Prune
  <2>2. CASE Rewrite(p)  BY <1>13, <2>2 DEF Rewrite
  <2> QED  BY <1>18, <2>1, <2>2
<1> HIDE DEF c
<1> QED  BY <1>5, <1>6, <1>7, <1>8, <1>9, <1>10, <1>11, <1>12, <1>14, <1>15, <1>16, <1>17,
            <1>18 DEF Works, Fails

(* A removal or a crash ends some calls and may move one.                  *)
LEMMA EveryDeath ==
  ASSUME CallsShaped, NEW p \in Procs, Remove(p) \/ RemoveFails(p) \/ Crash(p)
  PROVE  \E S, calls :
           /\ Die(S, calls) /\ S \subseteq Procs
           /\ \A q \in Procs \ {p} : calls[q] = call[q]
           /\ \/ calls = call /\ p \in S /\ Crash(p)
              \/ /\ call[p].pc = "remove"
                 /\ \E l : /\ Removing(p, l)
                           /\ calls = With(p, [call[p] EXCEPT !.pc = l])
<1>1. CASE Crash(p)
  <2>1. Die(Threads(p), call) /\ p \in Threads(p) /\ Threads(p) \subseteq Procs  BY <1>1 DEF Crash, Threads
  <2> QED  BY <1>1, <2>1
<1>2. CASE Remove(p) \/ RemoveFails(p)
  <2>1. PICK l : Removing(p, l) /\ call[p].pc = "remove"  BY <1>2 DEF Remove, RemoveFails, At
  <2> DEFINE calls == With(p, [call[p] EXCEPT !.pc = l])
  <2>2. PICK S : Die(S, calls) /\ S \subseteq Procs  BY <2>1 DEF Removing
  <2>3. \A q \in Procs \ {p} : calls[q] = call[q]  BY DEF With, CallsShaped
  <2> QED  BY <2>1, <2>2, <2>3
<1> QED  BY <1>1, <1>2

(* A call that is moved by a removal: nothing else of it changes.          *)
LEMMA WithTurn ==
  ASSUME CallsShaped, NEW p \in Procs, NEW l
  PROVE  LET d == With(p, [call[p] EXCEPT !.pc = l])[p] IN
         IF l = "idle" THEN d = NoCall
         ELSE /\ d.pc = l /\ d.op = call[p].op /\ d.job = call[p].job
              /\ d.snap = call[p].snap /\ d.arg = call[p].arg /\ d.todo = call[p].todo
              /\ d.status = call[p].status
<1> DEFINE c == call[p]
           e == [c EXCEPT !.pc = l]
<1>1. IsCall(c)  BY DEF CallsShaped
<1>2. e = CallOf(l, c.op, c.job, c.snap, c.arg, c.todo, c.run, c.status, c.kept)
  BY <1>1, ShapePc
<1>3. With(p, e)[p] = IF e.pc = "idle" THEN NoCall ELSE e
  BY DEF With, CallsShaped
<1> HIDE DEF c, e
<1>4. /\ e.pc = l /\ e.op = c.op /\ e.job = c.job /\ e.snap = c.snap /\ e.arg = c.arg
      /\ e.todo = c.todo /\ e.status = c.status
  BY <1>2 DEF CallOf
<1> QED  BY <1>3, <1>4 DEF c, e

(* The store and the timers stay of their types.                           *)
LEMMA DataTyped ==
  ASSUME Typed, NEW p \in Procs, Works(p) \/ Fails(p)
  PROVE  jobs' \in Rows /\ timers' \in [Jobs -> Timer \cup {NoTimer}]
<1> DEFINE c == call[p]
<1>0. CallTyped(c) /\ c.job \in Jobs /\ c.arg.spec \in Specs /\ jobs \in Rows
      /\ timers \in [Jobs -> Timer \cup {NoTimer}]
  BY DEF Typed, CallTyped, Timer
<1>1. CASE SaveStore(p)
  BY <1>0, <1>1, MutatedTyped DEF SaveStore
<1>2. ASSUME NEW j \in Jobs, NEW s \in Specs, NEW b \in BOOLEAN
      PROVE  SetTimer(j, s, b) \in [Jobs -> Timer \cup {NoTimer}]
  BY <1>0 DEF SetTimer, Timer
<1>3. \A j \in Jobs : IsOn(j) \in BOOLEAN
  BY <1>0 DEF IsOn, Timer
<1>4. CASE Install(p)
  <2>1. timers' = SetTimer(c.job, c.arg.spec, c.arg.on \/ IsOn(c.job)) /\ jobs' = jobs
    BY <1>4 DEF Install, storeVars
  <2> HIDE DEF c
  <2>2. (c.arg.on \/ IsOn(c.job)) \in BOOLEAN  OBVIOUS
  <2> QED  BY <1>0, <1>2, <2>1, <2>2
<1>5. CASE InstallFails(p)
  <2>1. timers' \in {timers, SetTimer(c.job, c.arg.spec, IsOn(c.job))} /\ jobs' = jobs
    BY <1>5 DEF InstallFails, storeVars
  <2> HIDE DEF c
  <2> QED  BY <1>0, <1>2, <1>3, <2>1
<1>6. CASE Remove(p) \/ RemoveFails(p)
  <2>1. jobs' = jobs  BY <1>6 DEF Remove, RemoveFails, Removing, Die
  <2>2. \/ timers' = timers \/ timers' = [timers EXCEPT ![c.job] = NoTimer]
        \/ \E s \in Specs : timers' = SetTimer(c.job, s, FALSE)
    BY <1>6 DEF Remove, RemoveFails
  <2> HIDE DEF c
  <2> QED  BY <1>0, <1>2, <2>1, <2>2
<1>7. CASE ~(SaveStore(p) \/ Install(p) \/ InstallFails(p) \/ Remove(p) \/ RemoveFails(p))
  <2>1. UNCHANGED <<jobs, timers>>
    <3>1. CASE Works(p)
      <4>1. CASE \/ \E j \in Jobs : \/ \E s \in Specs : StartCreate(p, j, s) \/ StartEdit(p, j, s)
                                    \/ \E o \in {"pause", "resume"} : StartSwitch(p, o, j)
                                    \/ StartDelete(p, j) \/ StartRun(p, j)
                 \/ StartReconcile(p)
        BY <4>1 DEF StartCreate, StartEdit, StartSwitch, StartDelete, StartRun, StartReconcile,
                    Start, storeVars
      <4>2. CASE \/ LockStore(p) \/ Reload(p) \/ LoadSnapshot(p) \/ ListTimers(p, TRUE)
                 \/ NextAction(p) \/ EndReconcile(p) \/ FindJob(p)
        BY <4>2 DEF LockStore, Reload, LoadSnapshot, ListTimers, NextAction, EndReconcile, FindJob,
                    storeVars
      <4>3. CASE LoadJob(p) \/ SelfRepair(p) \/ BeginRun(p) \/ Claim(p)
        BY <4>3 DEF LoadJob, SelfRepair, BeginRun, Claim, storeVars
      <4>4. CASE \/ \E st \in Outcomes, r \in BOOLEAN : EndSession(p, st, r)
                 \/ AppendRun(p) \/ Prune(p) \/ Rewrite(p) \/ Release(p)
        BY <4>4 DEF EndSession, AppendRun, Prune, Rewrite, Release, storeVars
      <4> QED  BY <1>7, <3>1, <4>1, <4>2, <4>3, <4>4 DEF Works
    <3>2. CASE Fails(p)
      BY <1>7, <3>2 DEF Fails, StoreError, ListTimers, Crash, Die, storeVars
    <3> QED  BY <3>1, <3>2
  <2> QED  BY <1>0, <2>1
<1> QED  BY <1>1, <1>4, <1>5, <1>6, <1>7

(* Typed is inductive.                                                     *)
LEMMA TypedStep ==
  ASSUME CallsShaped, Typed, [Next]_vars
  PROVE  Typed'
<1>1. CASE UNCHANGED vars
  BY <1>1 DEF vars, Typed
<1>2. ASSUME NEW p \in Procs, Works(p) \/ Fails(p)  PROVE Typed'
  <2>1. CASE TypedTurn(p)
    BY <1>2, <2>1, DataTyped, TurnTyped DEF Typed
  <2>2. CASE Remove(p) \/ RemoveFails(p) \/ Crash(p)
    <3>1. PICK S, calls :
            /\ Die(S, calls)
            /\ \A q \in Procs \ {p} : calls[q] = call[q]
            /\ \/ calls = call
               \/ \E l : calls = With(p, [call[p] EXCEPT !.pc = l])
      <4>1. PICK S, calls :
              /\ Die(S, calls) /\ S \subseteq Procs
              /\ \A q \in Procs \ {p} : calls[q] = call[q]
              /\ \/ calls = call /\ p \in S /\ Crash(p)
                 \/ /\ call[p].pc = "remove"
                    /\ \E l : /\ Removing(p, l)
                              /\ calls = With(p, [call[p] EXCEPT !.pc = l])
        BY <2>2, EveryDeath
      <4>2. calls = call \/ \E l : calls = With(p, [call[p] EXCEPT !.pc = l])  BY <4>1
      <4> QED  BY <4>1, <4>2
    <3>2. CallTyped(calls[p])
      <4>1. CASE calls = call  BY <4>1 DEF Typed
      <4>2. ASSUME NEW l, calls = With(p, [call[p] EXCEPT !.pc = l])  PROVE CallTyped(calls[p])
        BY <4>2, WithTurn, NoCallTyped DEF Typed, CallTyped
      <4> QED  BY <3>1, <4>1, <4>2
    <3>3. \A q \in Procs : CallTyped(calls[q])  BY <3>1, <3>2 DEF Typed
    <3>4. \A q \in Procs : call'[q] \in {calls[q], NoCall}  BY <3>1 DEF Die
    <3>5. \A q \in Procs : CallTyped(call'[q])  BY <3>3, <3>4, NoCallTyped
    <3> QED  BY <1>2, <3>5, DataTyped DEF Typed
  <2> QED  BY <1>2, <2>1, <2>2, EveryTurn
<1> QED  BY <1>1, <1>2 DEF Next

(* There are no rows and no timers at first.                               *)
LEMMA InitTyped == Init => Typed
  BY NoCallTyped DEF Init, Typed, Rows

-----------------------------------------------------------------------------
(***************************************************************************)
(* The health of a job.  A run has its job's lock alone from the claim to  *)
(* the release, so that of the runs of a job one reports at a time; what   *)
(* it has ended with is what it will save.                                 *)
(***************************************************************************)
InRun == {"session", "report", "append", "prune", "rewrite", "release"}

Reports(p, j) == At(p, "report") /\ call[p].job = j

(* Whoever is in a run has the lock of its job, and nobody else.           *)
Alone == /\ runLock \in [Jobs -> SUBSET Procs]
         /\ \A p \in Procs : call[p].pc \in InRun => runLock[call[p].job] = {p}

(* A job that differs from the outcome of its last run is about to have it *)
(* reported.                                                               *)
Reported == /\ ended \in [Jobs -> Outcomes \cup {"idle", "lost"}]
            /\ \A p \in Procs : At(p, "report") => ended[call[p].job] = call[p].status
            /\ \A j \in Jobs :
                 jobs[j] # Absent /\ ended[j] # "lost" /\ jobs[j].state # ended[j]
                   => \E p \in Procs : Reports(p, j)

(* Only a job that has been created is run.                                *)
RunsBorn == /\ \A j \in Jobs : ended[j] # "idle" => j \in born
            /\ \A p \in Procs : call[p].op = "run" /\ call[p].pc \in Checked
                                  => call[p].job \in born

HealthInv == Alone /\ Reported /\ RunsBorn

(* A step that neither takes nor gives up a job's lock nor reports.        *)
RunQuiet(p) ==
  /\ UNCHANGED <<jobs, runLock, ended>>
  /\ \A q \in Procs \ {p} : call'[q] = call[q]
  /\ call'[p].pc \in InRun => call[p].pc \in InRun /\ call'[p].job = call[p].job
  /\ (call'[p].pc = "report") = (call[p].pc = "report")
  /\ call'[p].pc = "report" => call'[p].status = call[p].status

(* A turn that stays out of the runs, or in its own, is such a step.       *)
LEMMA QuietTurn ==
  ASSUME NEW p \in Procs, UNCHANGED <<jobs, runLock, ended>>,
         NEW l, NEW o, NEW j, NEW sn, NEW a, NEW t, NEW st, Turns(p, l, o, j, sn, a, t, st),
         l \in InRun => call[p].pc \in InRun /\ j = call[p].job,
         (l = "report") = (call[p].pc = "report"),
         l = "report" => st = call[p].status
  PROVE  RunQuiet(p)
<1>1. CASE l = "idle"
  BY <1>1, NoCallShape DEF Turns, RunQuiet, InRun
<1>2. CASE l # "idle"
  BY <1>2 DEF Turns, RunQuiet
<1> QED  BY <1>1, <1>2

(* The other steps take or give up the lock of a job, save, end a session, *)
(* or end calls.                                                           *)
LEMMA RunSteps ==
  ASSUME CallsShaped, PcInv, NEW p \in Procs, Works(p) \/ Fails(p)
  PROVE  \/ RunQuiet(p)
         \/ SaveStore(p) \/ StoreError(p) \/ Claim(p) \/ Release(p)
         \/ \E st \in Outcomes, r \in BOOLEAN : EndSession(p, st, r)
         \/ Remove(p) \/ RemoveFails(p) \/ Crash(p)
<1> DEFINE c == call[p]
<1> USE DEF InRun
<1>1. ASSUME NEW o, NEW j, NEW l, NEW s, Start(p, o, j, l, s), l \notin InRun
      PROVE  RunQuiet(p)
  <2>1. Turns(p, l, o, j, NoCall.snap, [NoCall.arg EXCEPT !.spec = s], NoCall.todo, NoCall.status)
    BY <1>1, TurnStart
  <2>2. UNCHANGED <<jobs, runLock, ended>> /\ c.pc = "idle"
    BY <1>1 DEF Start, At, storeVars, runVars
  <2> QED  BY <1>1, <2>1, <2>2, QuietTurn
<1>2. ASSUME NEW l, Goto(p, l), UNCHANGED <<jobs, runLock, ended>>, c.pc # "report",
             l \in InRun => l # "report" /\ c.pc \in InRun
      PROVE  RunQuiet(p)
  <2>1. Turns(p, l, c.op, c.job, c.snap, c.arg, c.todo, c.status)
    BY <1>2, TurnGoto
  <2> HIDE DEF c
  <2> QED  BY <1>2, <2>1, QuietTurn DEF c
<1>3. ASSUME NEW l \in {"remove", "install"}, NEW s, UNCHANGED <<jobs, runLock, ended>>,
             Become(p, [call[p] EXCEPT !.pc = l, !.arg.spec = s]), c.pc # "report"
      PROVE  RunQuiet(p)
  <2>1. Turns(p, l, c.op, c.job, c.snap, [c.arg EXCEPT !.spec = s], c.todo, c.status)
    BY <1>3, TurnArg
  <2> QED  BY <1>3, <2>1, QuietTurn
<1>4. ASSUME NEW l \in {"trace", "claim"}, NewRecord(p, l), UNCHANGED <<jobs, runLock, ended>>,
             c.pc # "report"
      PROVE  RunQuiet(p)
  <2>1. Turns(p, l, c.op, c.job, c.snap, c.arg, c.todo, c.status)
    BY <1>4, TurnRecord
  <2> QED  BY <1>4, <2>1, QuietTurn
<1>5. CASE LockStore(p)
  <2>1. Turns(p, c.pc, c.op, c.job, jobs, c.arg, c.todo, c.status)
    BY <1>5, TurnLock
  <2>2. UNCHANGED <<jobs, runLock, ended>>  BY <1>5 DEF LockStore, runVars
  <2> QED  BY <2>1, <2>2, QuietTurn
<1>6. CASE LoadSnapshot(p)
  <2>1. Turns(p, "list", c.op, c.job, jobs, c.arg, c.todo, c.status)
    BY <1>6, TurnLoad
  <2>2. UNCHANGED <<jobs, runLock, ended>> /\ c.pc = "load"
    BY <1>6 DEF LoadSnapshot, At, storeVars, runVars
  <2> QED  BY <2>1, <2>2, QuietTurn
<1>7. ASSUME NEW b, ListTimers(p, b)  PROVE RunQuiet(p)
  <2>1. Turns(p, "next", c.op, c.job, NoCall.snap, c.arg, Wanted(c.snap, b), c.status)
    BY <1>7, TurnList
  <2>2. UNCHANGED <<jobs, runLock, ended>> /\ c.pc = "list"
    BY <1>7 DEF ListTimers, At, storeVars, runVars
  <2> QED  BY <2>1, <2>2, QuietTurn
<1>8. CASE NextAction(p)
  <2>1. PICK x \in c.todo :
          Become(p, [call[p] EXCEPT !.pc = IF x.kind = "install" THEN "install" ELSE "remove",
                                    !.job = x.job, !.arg.spec = x.spec, !.todo = @ \ {x}])
    BY <1>8 DEF NextAction
  <2> DEFINE l == IF x.kind = "install" THEN "install" ELSE "remove"
             t == c.todo \ {x}
             a == [c.arg EXCEPT !.spec = x.spec]
  <2>2. Turns(p, l, c.op, x.job, c.snap, a, t, c.status)
    BY <2>1, TurnNext
  <2>3. UNCHANGED <<jobs, runLock, ended>> /\ c.pc = "next"
    BY <1>8 DEF NextAction, At, storeVars, runVars
  <2>4. l \in {"install", "remove"}  OBVIOUS
  <2> HIDE DEF l, t, a
  <2> QED  BY <2>2, <2>3, <2>4, QuietTurn
<1>9. CASE AppendRun(p)
  <2> DEFINE l == IF c.pc = "append" THEN "prune" ELSE "idle"
  <2>1. Turns(p, l, c.op, c.job, c.snap, c.arg, c.todo, NoCall.status)
    BY <1>9, TurnAppend
  <2>2. UNCHANGED <<jobs, runLock, ended>> /\ c.pc \in {"append", "trace"}
    BY <1>9 DEF AppendRun, storeVars
  <2>3. l \in InRun => c.pc \in InRun /\ l # "report"  BY <2>2
  <2>4. l # "report" /\ c.pc # "report"  BY <2>2
  <2> HIDE DEF l
  <2> QED  BY <2>1, <2>2, <2>3, <2>4, QuietTurn
<1>10. ASSUME NEW l \in {"rewrite", "release"}, NEW k, UNCHANGED <<jobs, runLock, ended>>,
              Become(p, [call[p] EXCEPT !.pc = l, !.kept = k]), c.pc \in {"prune", "rewrite"}
       PROVE  RunQuiet(p)
  <2>1. Turns(p, l, c.op, c.job, c.snap, c.arg, c.todo, c.status)
    BY <1>10, TurnKept
  <2> QED  BY <1>10, <2>1, QuietTurn
<1>11. CASE \/ \E j \in Jobs : \/ \E s \in Specs : StartCreate(p, j, s) \/ StartEdit(p, j, s)
                               \/ \E o \in {"pause", "resume"} : StartSwitch(p, o, j)
                               \/ StartDelete(p, j) \/ StartRun(p, j)
            \/ StartReconcile(p)
  BY <1>1, <1>11 DEF StartCreate, StartEdit, StartSwitch, StartDelete, StartRun, StartReconcile
<1>12. CASE Reload(p) \/ SelfRepair(p)
  <2>1. UNCHANGED <<jobs, runLock, ended>> /\ c.pc \in {"reload", "repair"}
    BY <1>12 DEF Reload, SelfRepair, At, storeVars, runVars
  <2>2. \/ \E l \in {"idle", "start"} : Goto(p, l)
        \/ \E l \in {"remove", "install"} : \E s : Become(p, [call[p] EXCEPT !.pc = l, !.arg.spec = s])
    BY <1>12 DEF Reload, SelfRepair
  <2> QED  BY <1>2, <1>3, <2>1, <2>2
<1>13. CASE Install(p) \/ InstallFails(p) \/ EndReconcile(p) \/ FindJob(p)
  <2>1. UNCHANGED <<jobs, runLock, ended>> /\ c.pc \in {"install", "next", "find"}
    BY <1>13 DEF Install, InstallFails, EndReconcile, FindJob, At, storeVars, runVars
  <2>2. \E l \in {"idle", "record", "next", "start", "load"} : Goto(p, l)
    BY <1>13, <2>1 DEF Install, InstallFails, EndReconcile, FindJob, AfterUpdate, At
  <2> QED  BY <1>2, <2>1, <2>2
<1>14. CASE LoadJob(p) \/ BeginRun(p)
  <2>1. UNCHANGED <<jobs, runLock, ended>> /\ c.pc \in {"load", "start"}
    BY <1>14 DEF LoadJob, BeginRun, At, storeVars, runVars
  <2>2. Goto(p, "repair") \/ \E l \in {"trace", "claim"} : NewRecord(p, l)
    BY <1>14 DEF LoadJob, BeginRun
  <2> QED  BY <1>2, <1>4, <2>1, <2>2
<1>15. CASE Prune(p) \/ Rewrite(p)
  <2>1. UNCHANGED <<jobs, runLock, ended>> /\ c.pc \in {"prune", "rewrite"}
    BY <1>15 DEF Prune, Rewrite, At, storeVars
  <2>2. \/ Goto(p, "release")
        \/ \E l \in {"rewrite", "release"} : \E k : Become(p, [call[p] EXCEPT !.pc = l, !.kept = k])
    BY <1>15 DEF Prune, Rewrite
  <2> QED  BY <1>2, <1>10, <2>1, <2>2
<1> HIDE DEF c
<1> QED  BY <1>5, <1>6, <1>7, <1>8, <1>9, <1>11, <1>12, <1>13, <1>14, <1>15 DEF Works, Fails

(* What a save does to the health of the jobs: a report sets that of its   *)
(* own job to the outcome, a new job has none, the others stay.            *)
LEMMA SavedHealth ==
  ASSUME StoreShaped, NEW p \in Procs, call[p].job \in Jobs, SaveStore(p), call[p].snap = jobs
  PROVE  \A j \in Jobs : jobs'[j] # Absent =>
           \/ jobs[j] # Absent /\ jobs'[j].state = jobs[j].state
              /\ ~(Reports(p, j))
           \/ jobs[j] # Absent /\ Reports(p, j) /\ jobs'[j].state = call[p].status
           \/ Creates(p) /\ call[p].pc = "update" /\ j = call[p].job /\ jobs'[j].state = "idle"
<1> DEFINE c == call[p]
           row == jobs[c.job]
<1>1. jobs' = Mutated(c) /\ c.snap = jobs  BY DEF SaveStore
<1> USE DEF Reports, At
<1>2. CASE c.pc = "update" /\ c.op = "create"
  <2>1. jobs' = [jobs EXCEPT ![c.job] = NewJob(c.arg.spec)]
    BY <1>1, <1>2 DEF Mutated
  <2>2. NewJob(c.arg.spec).state = "idle"  BY DEF NewJob
  <2> QED  BY <1>2, <2>1, <2>2 DEF StoreShaped, Creates
<1>3. CASE ~(c.pc = "update" /\ c.op = "create") /\ row = Absent
  <2>1. jobs' = jobs  BY <1>1, <1>3 DEF Mutated
  <2> QED  BY <1>3, <2>1 DEF StoreShaped
<1>4. CASE ~(c.pc = "update" /\ c.op = "create") /\ row # Absent
  <2> DEFINE new == Edited(c, row)
  <2>1. jobs' = [jobs EXCEPT ![c.job] = new]
    BY <1>1, <1>4 DEF Mutated
  <2>2. row.state = row.state /\ IsRow(row)  BY <1>4 DEF StoreShaped
  <2>3. new = Absent \/ new.state = IF c.pc = "report" THEN c.status ELSE row.state
    <3>1. ASSUME NEW x
          PROVE  /\ [row EXCEPT !.state = x].state = x
                 /\ [row EXCEPT !.enabled = x].state = row.state
                 /\ [row EXCEPT !.spec = x].state = row.state
                 /\ [row EXCEPT !.rec = x].state = row.state
      <4> HIDE DEF row
      <4> QED  BY <2>2 DEF IsRow
    <3> HIDE DEF row
    <3>2. CASE c.pc = "record"  BY <3>1, <3>2 DEF Edited
    <3>3. CASE c.pc = "report"  BY <3>1, <3>3 DEF Edited
    <3>4. CASE c.pc \notin {"record", "report"}
      <4>1. \/ Edited(c, row) = Absent
            \/ Edited(c, row) = [row EXCEPT !.enabled = TRUE]
            \/ Edited(c, row) = [row EXCEPT !.enabled = FALSE]
            \/ Edited(c, row) = [row EXCEPT !.spec = c.arg.spec]
        BY <3>4 DEF Edited
      <4>2. CASE Edited(c, row) = Absent  BY <4>2
      <4>3. ASSUME NEW x, \/ Edited(c, row) = [row EXCEPT !.enabled = x]
                          \/ Edited(c, row) = [row EXCEPT !.spec = x]
            PROVE  Edited(c, row).state = row.state
        <5>1. [row EXCEPT !.enabled = x].state = row.state  BY <3>1
        <5>2. [row EXCEPT !.spec = x].state = row.state  BY <3>1
        <5> QED  BY <4>3, <5>1, <5>2
      <4>4. new = Absent \/ new.state = row.state  BY <4>1, <4>2, <4>3
      <4> QED  BY <3>4, <4>4
    <3> QED  BY <3>2, <3>3, <3>4
  <2> HIDE DEF new
  <2>4. jobs'[c.job] = new /\ \A j \in Jobs \ {c.job} : jobs'[j] = jobs[j]
    BY <2>1 DEF StoreShaped
  <2> QED  BY <1>4, <2>3, <2>4 DEF StoreShaped
<1> QED  BY <1>2, <1>3, <1>4

(* A job is run only when it has been created.                             *)
LEMMA BornStep ==
  ASSUME CallsShaped, PcInv, Typed, RunsBorn, Reported, NEW p \in Procs, Works(p) \/ Fails(p),
         CreateInv', Typed', born \subseteq born',
         \A j \in Jobs : ended'[j] # "idle" =>
           ended[j] # "idle" \/ \E q \in Procs : /\ call[q].op = "run" /\ call[q].pc \in Checked
                                                 /\ call[q].job = j
  PROVE  RunsBorn'
<1>1. ASSUME NEW j \in Jobs, ended'[j] # "idle"  PROVE j \in born'
  BY <1>1 DEF RunsBorn
<1>2. ASSUME NEW q \in Procs, call'[q].op = "run", call'[q].pc \in Checked
      PROVE  call'[q].job \in born'
  <2>1. CallStep(p)  BY EveryStep
  <2>2. CASE q # p
    <3>1. call'[q] = call[q]
      BY <1>2, <2>1, <2>2, NoCallShape DEF CallStep, Checked
    <3> QED  BY <1>2, <3>1 DEF RunsBorn
  <2>3. CASE q = p
    <3>1. /\ call[p].op = "run" /\ call'[p].job = call[p].job
          /\ call[p].pc \in Checked \/ RunsOn(jobs'[call[p].job])
      BY <1>2, <2>1, <2>3, NoCallShape DEF CallStep, Legal, Checked
    <3>2. call[p].job \in Jobs  BY DEF Typed, CallTyped
    <3>3. RunsOn(jobs'[call[p].job]) => call[p].job \in born'
      BY <3>2 DEF RunsOn, CreateInv
    <3> QED  BY <2>3, <3>1, <3>3 DEF RunsBorn
  <2> QED  BY <2>2, <2>3
<1> QED  BY <1>1, <1>2 DEF RunsBorn

(* A quiet step leaves the runs as they are.                               *)
LEMMA HealthQuiet ==
  ASSUME Alone, Reported, NEW p \in Procs, RunQuiet(p)
  PROVE  Alone' /\ Reported'
<1> USE DEF RunQuiet, InRun
<1>1. Alone'
  <2>1. ASSUME NEW q \in Procs, call'[q].pc \in InRun
        PROVE  call[q].pc \in InRun /\ call'[q].job = call[q].job
    BY <2>1
  <2> QED  BY <2>1 DEF Alone
<1>2. ASSUME NEW q \in Procs, call'[q].pc = "report"
      PROVE  call[q].pc = "report" /\ call'[q].job = call[q].job /\ call'[q].status = call[q].status
  BY <1>2
<1>3. ASSUME NEW q \in Procs, call[q].pc = "report"
      PROVE  call'[q].pc = "report" /\ call'[q].job = call[q].job
  BY <1>3
<1>4. \A q \in Procs : At(q, "report")' => ended'[call'[q].job] = call'[q].status
  BY <1>2 DEF Reported, At
<1>5. \A q \in Procs, j \in Jobs : Reports(q, j) => Reports(q, j)'
  BY <1>3 DEF Reports, At
<1> QED  BY <1>1, <1>4, <1>5 DEF Reported

(* Of the runs of a job one is under way.                                  *)
LEMMA OneRun ==
  ASSUME Alone, NEW p \in Procs, NEW q \in Procs, call[p].pc \in InRun, call[q].pc \in InRun,
         call[p].job = call[q].job
  PROVE  p = q
  BY DEF Alone

(* A save, or a report that is refused, settles the outcome of its run.    *)
LEMMA HealthStore ==
  ASSUME CallsShaped, PcInv, Typed, StoreShaped, LockInv, CreateInv, HealthInv,
         NEW p \in Procs, SaveStore(p) \/ StoreError(p)
  PROVE  Alone' /\ Reported'
<1> DEFINE c == call[p]
<1>1. /\ \A q \in Procs \ {p} : call'[q] = call[q]
      /\ call'[p] = NoCall \/ call'[p].job = c.job
      /\ call'[p].pc # "report" /\ (call'[p].pc \in InRun => c.pc = "report")
  <2> DEFINE l == IF SaveStore(p) THEN AfterUpdate(c, AfterChange(p, c.snap[c.job]))
                                  ELSE AfterUpdate(c, "idle")
  <2>1. \E sn, a : Turns(p, l, c.op, c.job, sn, a, c.todo, c.status)
    BY TurnSave, TurnError
  <2>2. AfterChange(p, c.snap[c.job]) \in {"install", "idle", "reload", "remove"}
    BY DEF AfterChange
  <2>3. l # "report" /\ (l \in InRun => c.pc = "report")
    BY <2>2 DEF AfterUpdate, InRun
  <2> HIDE DEF l, c
  <2> QED  BY <2>1, <2>3, NoCallShape DEF Turns, InRun
<1>2. runLock' = runLock  BY DEF SaveStore, StoreError, runVars
<1>3. c.job \in Jobs  BY DEF Typed, CallTyped
<1>4. Alone'
  BY <1>1, <1>2, NoCallShape DEF HealthInv, Alone, InRun
<1>5. \A q \in Procs : At(q, "report")' => q # p /\ At(q, "report") /\ call'[q] = call[q]
  BY <1>1 DEF At
<1>6. \A q \in Procs \ {p}, j \in Jobs : Reports(q, j) => Reports(q, j)'
  BY <1>1 DEF Reports, At
<1>7. CASE StoreError(p)
  <2>1. /\ jobs' = jobs
        /\ ended' = IF At(p, "report") THEN [ended EXCEPT ![c.job] = "lost"] ELSE ended
    BY <1>7 DEF StoreError
  <2>2. \A q \in Procs : At(q, "report")' => ended'[call'[q].job] = call'[q].status
    <3>1. ASSUME NEW q \in Procs, At(q, "report")'  PROVE ended'[call'[q].job] = call'[q].status
      <4>1. At(p, "report") => call[q].job # c.job
        BY <1>5, <3>1, OneRun DEF HealthInv, At, InRun
      <4>2. ended'[call[q].job] = ended[call[q].job]
        BY <2>1, <4>1 DEF HealthInv, Reported
      <4> QED  BY <1>5, <3>1, <4>2 DEF HealthInv, Reported
    <3> QED  BY <3>1
  <2>3. ASSUME NEW j \in Jobs, jobs[j] # Absent, ended'[j] # "lost", jobs[j].state # ended'[j]
        PROVE  \E q \in Procs : Reports(q, j)'
    <3>1. ended'[j] = ended[j] /\ ~Reports(p, j)
      BY <2>1, <2>3 DEF HealthInv, Reported, Reports, At
    <3>2. PICK q \in Procs : Reports(q, j)
      BY <2>3, <3>1 DEF HealthInv, Reported
    <3> QED  BY <1>6, <3>1, <3>2
  <2>4. ended' \in [Jobs -> Outcomes \cup {"idle", "lost"}]
    BY <2>1 DEF HealthInv, Reported
  <2> QED  BY <1>4, <2>1, <2>2, <2>3, <2>4 DEF Reported
<1>8. CASE SaveStore(p)
  <2>1. ended' = ended /\ call[p].snap = jobs
    BY <1>8 DEF SaveStore, LockInv
  <2>2. \A q \in Procs : At(q, "report")' => ended'[call'[q].job] = call'[q].status
    BY <1>5, <2>1 DEF HealthInv, Reported
  <2>3. ASSUME NEW j \in Jobs, jobs'[j] # Absent, ended[j] # "lost", jobs'[j].state # ended[j]
        PROVE  \E q \in Procs : Reports(q, j)'
    <3>1. CASE jobs[j] # Absent /\ jobs'[j].state = jobs[j].state /\ ~Reports(p, j)
      <4>1. PICK q \in Procs : Reports(q, j)
        BY <2>3, <3>1 DEF HealthInv, Reported
      <4> QED  BY <1>6, <3>1, <4>1
    <3>2. CASE jobs[j] # Absent /\ Reports(p, j) /\ jobs'[j].state = call[p].status
      BY <2>3, <3>2 DEF HealthInv, Reported, Reports
    <3>3. CASE Creates(p) /\ call[p].pc = "update" /\ j = call[p].job /\ jobs'[j].state = "idle"
      <4>1. j \notin born  BY <3>3 DEF CreateInv
      <4> QED  BY <2>3, <3>3, <4>1 DEF HealthInv, RunsBorn
    <3> QED  BY <1>3, <1>8, <2>1, <2>3, <3>1, <3>2, <3>3, SavedHealth
  <2> QED  BY <1>4, <2>1, <2>2, <2>3 DEF HealthInv, Reported
<1> QED  BY <1>7, <1>8

(* Where AcquireLock gives the lock of a job to one process at a time, a   *)
(* claim takes it alone; the end of a session and the release keep that.   *)
LEMMA HealthRun ==
  ASSUME AtomicLocks, CallsShaped, PcInv, Typed, HealthInv, NEW p \in Procs,
         \/ Claim(p) \/ Release(p)
         \/ \E st \in Outcomes, r \in BOOLEAN : EndSession(p, st, r)
  PROVE  Alone' /\ Reported'
<1> DEFINE c == call[p]
           k == call[p].job
<1>0. k \in Jobs  BY DEF Typed, CallTyped
<1>1. CASE Claim(p) \/ Release(p)
  <2>1. PICK l \in {"session", "trace", "idle"} : Goto(p, l) /\ (l = "session" => At(p, "claim"))
    BY <1>1 DEF Claim, Release
  <2>2. /\ \A q \in Procs \ {p} : call'[q] = call[q]
        /\ call'[p] = NoCall \/ (call'[p].job = k /\ call'[p].pc = l)
    <3>1. Turns(p, l, c.op, c.job, c.snap, c.arg, c.todo, c.status)
      BY <2>1, TurnGoto
    <3> HIDE DEF c
    <3> QED  BY <3>1 DEF Turns, c
  <2>3. jobs' = jobs /\ ended' = ended
    BY <1>1 DEF Claim, Release, storeVars
  <2>4. c.pc # "report" /\ call'[p].pc # "report"
    BY <1>1, <2>1, <2>2, NoCallShape DEF Claim, Release, At
  <2>5. \A q \in Procs : call'[q].pc = "report" => call[q].pc = "report" /\ call'[q] = call[q]
    BY <2>2, <2>4
  <2>6. \A q \in Procs : call[q].pc = "report" => call'[q] = call[q]
    BY <2>2, <2>4
  <2>7. Reported'
    BY <2>3, <2>5, <2>6 DEF HealthInv, Reported, Reports, At
  <2>8. CASE UNCHANGED runLock /\ l # "session"
    BY <2>1, <2>2, <2>7, <2>8, NoCallShape DEF HealthInv, Alone, InRun
  <2>9. CASE l = "session" /\ OpenTo(p, runLock[k]) /\ runLock' = [runLock EXCEPT ![k] = @ \cup {p}]
    <3>1. runLock[k] = {}  BY <2>9 DEF OpenTo
    <3>2. \A q \in Procs : call[q].pc \in InRun => call[q].job # k
      BY <3>1 DEF HealthInv, Alone
    <3>3. runLock'[k] = {p} /\ runLock' \in [Jobs -> SUBSET Procs]
      BY <1>0, <2>9, <3>1 DEF HealthInv, Alone
    <3>4. \A j \in Jobs \ {k} : runLock'[j] = runLock[j]
      BY <2>9 DEF HealthInv, Alone
    <3>5. ASSUME NEW q \in Procs, call'[q].pc \in InRun  PROVE runLock'[call'[q].job] = {q}
      <4>1. CASE q = p  BY <2>2, <3>3, <3>5, <4>1, NoCallShape DEF InRun
      <4>2. CASE q # p
        BY <2>2, <3>2, <3>4, <3>5, <4>2 DEF HealthInv, Alone, Typed, CallTyped
      <4> QED  BY <4>1, <4>2
    <3> QED  BY <2>7, <3>3, <3>5 DEF Alone
  <2>10. CASE Release(p)
    <3>1. runLock' = [runLock EXCEPT ![k] = @ \ {p}] /\ c.pc \in InRun /\ Goto(p, "idle")
      BY <2>10 DEF Release, At, InRun
    <3>2. runLock' \in [Jobs -> SUBSET Procs]
      BY <3>1 DEF HealthInv, Alone
    <3>3. call'[p] = NoCall
      <4>1. Turns(p, "idle", c.op, c.job, c.snap, c.arg, c.todo, c.status)
        BY <3>1, TurnGoto
      <4> QED  BY <4>1 DEF Turns
    <3>4. ASSUME NEW q \in Procs, call'[q].pc \in InRun  PROVE runLock'[call'[q].job] = {q}
      <4>1. q # p /\ call'[q] = call[q]
        BY <2>2, <3>3, <3>4, NoCallShape DEF InRun
      <4>2. call[q].job # k  BY <3>1, <3>4, <4>1, OneRun DEF HealthInv
      <4> QED  BY <3>1, <3>4, <4>1, <4>2 DEF HealthInv, Alone, Typed, CallTyped
    <3> QED  BY <2>7, <3>2, <3>4 DEF Alone
  <2>11. CASE Claim(p)
    <3>1. \/ OpenTo(p, runLock[k]) /\ runLock' = [runLock EXCEPT ![k] = @ \cup {p}] /\ Goto(p, "session")
          \/ UNCHANGED runLock /\ Goto(p, "trace")
      BY <2>11 DEF Claim
    <3>2. c.pc = "claim"  BY <2>11 DEF Claim, At
    <3>3. ASSUME NEW m, m # "idle", Goto(p, m)  PROVE call'[p].pc = m
      <4>1. Turns(p, m, c.op, c.job, c.snap, c.arg, c.todo, c.status)
        BY <3>3, TurnGoto
      <4> QED  BY <3>3, <4>1 DEF Turns
    <3>4. \A m \in {"session", "trace"} : Goto(p, m) => l = m
      BY <2>2, <3>3, NoCallShape
    <3> QED  BY <2>8, <2>9, <3>1, <3>4, <2>7
  <2> QED  BY <1>1, <2>7, <2>10, <2>11
<1>2. ASSUME NEW st \in Outcomes, NEW r \in BOOLEAN, EndSession(p, st, r)
      PROVE  Alone' /\ Reported'
  <2> DEFINE l == IF r THEN "report" ELSE "append"
  <2>1. Turns(p, l, c.op, c.job, c.snap, c.arg, c.todo, st)
    BY <1>2, TurnEnd
  <2>2. /\ c.pc = "session" /\ jobs' = jobs /\ runLock' = runLock
        /\ ended' = IF r THEN [ended EXCEPT ![k] = st] ELSE ended
    BY <1>2 DEF EndSession, At, storeVars, runVars
  <2>3. /\ \A q \in Procs \ {p} : call'[q] = call[q]
        /\ call'[p].pc = l /\ call'[p].job = k /\ call'[p].status = st
    BY <2>1 DEF Turns
  <2>4. Alone'
    BY <2>2, <2>3 DEF HealthInv, Alone, InRun
  <2>5. \A q \in Procs \ {p} : call[q].pc \in InRun => call[q].job # k
    BY <2>2, OneRun DEF HealthInv, InRun
  <2>6. \A j \in Jobs : ended'[j] = IF r /\ j = k THEN st ELSE ended[j]
    BY <2>2 DEF HealthInv, Reported
  <2>7. ASSUME NEW q \in Procs, At(q, "report")'  PROVE ended'[call'[q].job] = call'[q].status
    <3>1. CASE q = p  BY <1>0, <2>3, <2>6, <2>7, <3>1 DEF At
    <3>2. CASE q # p
      BY <2>3, <2>5, <2>6, <2>7, <3>2 DEF HealthInv, Reported, At, InRun, Typed, CallTyped
    <3> QED  BY <3>1, <3>2
  <2>8. ASSUME NEW j \in Jobs, jobs[j] # Absent, ended'[j] # "lost", jobs[j].state # ended'[j]
        PROVE  \E q \in Procs : Reports(q, j)'
    <3>1. CASE r /\ j = k
      BY <2>3, <3>1 DEF Reports, At
    <3>2. CASE ~(r /\ j = k)
      <4>1. PICK q \in Procs : Reports(q, j)
        BY <2>6, <2>8, <3>2 DEF HealthInv, Reported
      <4>2. q # p  BY <2>2, <4>1 DEF Reports, At
      <4> QED  BY <2>3, <4>1, <4>2 DEF Reports, At
    <3> QED  BY <3>1, <3>2
  <2>9. ended' \in [Jobs -> Outcomes \cup {"idle", "lost"}]
    BY <2>2 DEF HealthInv, Reported
  <2> QED  BY <2>2, <2>4, <2>7, <2>8, <2>9 DEF Reported
<1> QED  BY <1>1, <1>2

(* The death of runs gives up their locks and loses what they were about   *)
(* to report.                                                              *)
LEMMA HealthDeath ==
  ASSUME CallsShaped, PcInv, Typed, HealthInv, NEW p \in Procs,
         Remove(p) \/ RemoveFails(p) \/ Crash(p)
  PROVE  Alone' /\ Reported'
<1>1. PICK S, calls :
        /\ Die(S, calls) /\ S \subseteq Procs
        /\ \A q \in Procs \ {p} : calls[q] = call[q]
        /\ \/ calls = call /\ p \in S /\ Crash(p)
           \/ /\ call[p].pc = "remove"
              /\ \E l : /\ Removing(p, l)
                        /\ calls = With(p, [call[p] EXCEPT !.pc = l])
  BY EveryDeath
<1>2. /\ \A q \in Procs : call'[q] = IF q \in S THEN NoCall ELSE calls[q]
      /\ runLock' = [j \in Jobs |-> runLock[j] \ S]
      /\ ended' = [j \in Jobs |-> IF \E q \in S : At(q, "report") /\ call[q].job = j
                                  THEN "lost" ELSE ended[j]]
      /\ jobs' = jobs
  BY <1>1 DEF Die
<1>3. p \notin S => call[p].pc = "remove" /\ call'[p].pc \notin InRun
  <2>1. ASSUME p \notin S
        PROVE  call[p].pc = "remove" /\ \E l : calls = With(p, [call[p] EXCEPT !.pc = l])
    BY <1>1, <2>1
  <2>2. call[p].pc = "remove" => call[p].op # "run"
    BY DEF PcInv, Placed, RunPcs, Checked
  <2>3. CallStep(p)
    <3>1. Works(p) \/ Fails(p)  BY DEF Works, Fails
    <3> QED  BY <3>1, EveryStep
  <2>4. call[p].op # "run" /\ call[p].pc # "idle" =>
          call'[p] = NoCall \/ call'[p].pc \in ChangePcs
    BY <2>3 DEF CallStep, Legal
  <2> QED  BY <2>1, <2>2, <2>4, NoCallShape DEF ChangePcs, InRun
<1>4. \A q \in Procs : call'[q].pc \in InRun => q \notin S /\ q # p /\ call'[q] = call[q]
  BY <1>1, <1>2, <1>3, NoCallShape DEF InRun
<1>5. Alone'
  <2>1. runLock' \in [Jobs -> SUBSET Procs]  BY <1>2 DEF HealthInv, Alone
  <2>2. ASSUME NEW q \in Procs, call'[q].pc \in InRun  PROVE runLock'[call'[q].job] = {q}
    <3>1. call[q].job \in Jobs /\ runLock[call[q].job] = {q}
      BY <1>4, <2>2 DEF HealthInv, Alone, Typed, CallTyped
    <3> QED  BY <1>2, <1>4, <2>2, <3>1
  <2> QED  BY <2>1, <2>2 DEF Alone
<1>6. S \subseteq Procs  BY <1>1
<1>7. ASSUME NEW q \in Procs, At(q, "report")'  PROVE ended'[call'[q].job] = call'[q].status
  <2>1. At(q, "report") /\ q \notin S /\ call'[q] = call[q] /\ call[q].job \in Jobs
    BY <1>4, <1>7 DEF At, InRun, Typed, CallTyped
  <2>2. \A r \in S : At(r, "report") => call[r].job # call[q].job
    BY <1>6, <2>1, OneRun DEF HealthInv, At, InRun
  <2> QED  BY <1>2, <2>1, <2>2 DEF HealthInv, Reported
<1>8. ASSUME NEW j \in Jobs, jobs[j] # Absent, ended'[j] # "lost", jobs[j].state # ended'[j]
      PROVE  \E q \in Procs : Reports(q, j)'
  <2>1. ended'[j] = ended[j] /\ \A q \in S : ~(At(q, "report") /\ call[q].job = j)
    BY <1>2, <1>8
  <2>2. PICK q \in Procs : Reports(q, j)
    BY <1>8, <2>1 DEF HealthInv, Reported
  <2>3. q \notin S /\ q # p  BY <1>3, <2>1, <2>2 DEF Reports, At
  <2> QED  BY <1>1, <1>2, <2>2, <2>3 DEF Reports, At
<1>9. ended' \in [Jobs -> Outcomes \cup {"idle", "lost"}]
  BY <1>2 DEF HealthInv, Reported
<1> QED  BY <1>2, <1>5, <1>7, <1>8, <1>9 DEF Reported

(* HealthInv is inductive.                                                 *)
LEMMA HealthStep ==
  ASSUME AtomicLocks, CallsShaped, PcInv, Typed, StoreShaped, LockInv, CreateInv, HealthInv,
         NEW p \in Procs, Works(p) \/ Fails(p), CreateInv', Typed'
  PROVE  HealthInv'
<1>1. Alone' /\ Reported'
  <2>1. CASE RunQuiet(p)  BY <2>1, HealthQuiet DEF HealthInv
  <2>2. CASE SaveStore(p) \/ StoreError(p)  BY <2>2, HealthStore
  <2>3. CASE \/ Claim(p) \/ Release(p)
             \/ \E st \in Outcomes, r \in BOOLEAN : EndSession(p, st, r)
    BY <2>3, HealthRun
  <2>4. CASE Remove(p) \/ RemoveFails(p) \/ Crash(p)  BY <2>4, HealthDeath
  <2> QED  BY <2>1, <2>2, <2>3, <2>4, RunSteps
<1>2. born \subseteq born'
  BY StoreStep, HeldWhenOne DEF Quiet, LockStore, SaveStore
<1>3. ASSUME NEW j \in Jobs, ended'[j] # "idle"
      PROVE  ended[j] # "idle" \/ \E q \in Procs : /\ call[q].op = "run" /\ call[q].pc \in Checked
                                                   /\ call[q].job = j
  <2>1. \A q \in Procs : call[q].pc \in {"report", "session"} =>
                           call[q].op = "run" /\ call[q].pc \in Checked
    BY DEF PcInv, Placed, ChangePcs, Checked
  <2>2. CASE ended' = ended  BY <1>3, <2>2
  <2>3. CASE \E x : ended' = [ended EXCEPT ![call[p].job] = x] /\ call[p].pc \in {"report", "session"}
    BY <1>3, <2>1, <2>3 DEF HealthInv, Reported
  <2>4. CASE Remove(p) \/ RemoveFails(p) \/ Crash(p)
    <3>1. PICK S, calls : Die(S, calls) /\ S \subseteq Procs
      BY <2>4, EveryDeath
    <3> QED  BY <1>3, <2>1, <3>1 DEF Die, At
  <2>5. CASE RunQuiet(p)  BY <2>2, <2>5 DEF RunQuiet
  <2>6. CASE SaveStore(p) \/ Claim(p) \/ Release(p)
    BY <2>2, <2>6 DEF SaveStore, Claim, Release
  <2>7. CASE StoreError(p)  BY <2>2, <2>3, <2>7 DEF StoreError, At
  <2>8. CASE \E st \in Outcomes, r \in BOOLEAN : EndSession(p, st, r)
    BY <2>2, <2>3, <2>8 DEF EndSession, At
  <2> QED  BY <2>4, <2>5, <2>6, <2>7, <2>8, RunSteps
<1> QED  BY <1>1, <1>2, <1>3, BornStep DEF HealthInv

(* No job has been run at first.                                           *)
LEMMA InitHealth == Init => HealthInv
  BY NoCallShape DEF Init, HealthInv, Alone, Reported, RunsBorn, InRun, At, Checked

(* Where AcquireLock gives each lock to one process at a time, the health  *)
(* of a job whose lock nobody has is the outcome of the run that ended     *)
(* last, for any fronts, jobs and processes that run, edit, delete and     *)
(* die (the deferred Release comes after the Update with the outcome).     *)
THEOREM HealthIsOfLastRun_always == AtomicLocks /\ Spec => []HealthIsOfLastRun
<1> DEFINE Base == CallsShaped /\ PcInv /\ Typed /\ StoreShaped /\ LockInv /\ CreateInv
<1>1. Base /\ HealthInv => HealthIsOfLastRun
  <2>1. ASSUME Base, HealthInv, NEW j \in Jobs, jobs[j] # Absent, runLock[j] = {},
               ended[j] # "lost", jobs[j].state # ended[j]
        PROVE  FALSE
    <3>1. PICK p \in Procs : Reports(p, j)  BY <2>1 DEF HealthInv, Reported
    <3> QED  BY <2>1, <3>1 DEF HealthInv, Alone, Reports, At, InRun
  <2> QED  BY <2>1 DEF HealthIsOfLastRun
<1>2. Init => Base /\ HealthInv
  BY InitInv, InitTyped, StoreInit, InitHealth
<1>3. ASSUME AtomicLocks, Base, HealthInv, [Next]_vars  PROVE Base' /\ HealthInv'
  <2>1. CallsShaped' /\ PcInv' /\ Typed'  BY <1>3, StepInv, TypedStep
  <2>2. CASE UNCHANGED vars
    BY <1>3, <2>1, <2>2 DEF vars, StoreShaped, LockInv, CreateInv, Creates, Updating, HealthInv,
                            Alone, Reported, RunsBorn, Reports, At
  <2>3. ASSUME NEW p \in Procs, Works(p) \/ Fails(p)  PROVE Base' /\ HealthInv'
    <3>1. LockInv' /\ StoreShaped' /\ CreateInv'  BY <1>3, <2>3, LockKept, CreateKept
    <3> QED  BY <1>3, <2>1, <2>3, <3>1, HealthStep
  <2> QED  BY <1>3, <2>2, <2>3 DEF Next
<1>4. CASE AtomicLocks
  <2>1. Base /\ HealthInv /\ [Next]_vars => (Base /\ HealthInv)'  BY <1>3, <1>4
  <2> HIDE DEF Base
  <2> QED  BY <1>1, <1>2, <2>1, PTL DEF Spec
<1> QED  BY <1>4
-----------------------------------------------------------------------------
(***************************************************************************)
(* What the proofs about the timers share: which steps a call may take     *)
(* where it stands, and what a save may make of a row.                     *)
(***************************************************************************)
Starts(p) ==
  \/ \E j \in Jobs : \/ \E s \in Specs : StartCreate(p, j, s) \/ StartEdit(p, j, s)
                     \/ \E c \in {"pause", "resume"} : StartSwitch(p, c, j)
                     \/ StartDelete(p, j) \/ StartRun(p, j)
  \/ StartReconcile(p)

(* Each action has its place.                                              *)
LEMMA WorksAt ==
  ASSUME NEW p \in Procs, Works(p)
  PROVE  \/ At(p, "idle") /\ Starts(p)
         \/ Updating(p) /\ (LockStore(p) \/ SaveStore(p))
         \/ At(p, "reload") /\ Reload(p)
         \/ At(p, "install") /\ Install(p)
         \/ At(p, "remove") /\ Remove(p)
         \/ At(p, "load") /\ (LoadSnapshot(p) \/ LoadJob(p))
         \/ At(p, "list") /\ ListTimers(p, TRUE)
         \/ At(p, "next") /\ (NextAction(p) \/ EndReconcile(p))
         \/ At(p, "find") /\ FindJob(p)
         \/ At(p, "repair") /\ SelfRepair(p)
         \/ At(p, "start") /\ BeginRun(p)
         \/ At(p, "claim") /\ Claim(p)
         \/ At(p, "session") /\ \E st \in Outcomes, r \in BOOLEAN : EndSession(p, st, r)
         \/ call[p].pc \in {"append", "trace"} /\ AppendRun(p)
         \/ At(p, "prune") /\ Prune(p)
         \/ At(p, "rewrite") /\ Rewrite(p)
         \/ At(p, "release") /\ Release(p)
<1>1. Starts(p) => At(p, "idle")
  BY DEF Starts, StartCreate, StartEdit, StartSwitch, StartDelete, StartRun, StartReconcile, Start
<1>2. LockStore(p) \/ SaveStore(p) => Updating(p)
  BY DEF LockStore, SaveStore
<1>3. /\ Reload(p) => At(p, "reload")
      /\ Install(p) => At(p, "install")
      /\ Remove(p) => At(p, "remove")
      /\ LoadSnapshot(p) \/ LoadJob(p) => At(p, "load")
      /\ ListTimers(p, TRUE) => At(p, "list")
      /\ NextAction(p) \/ EndReconcile(p) => At(p, "next")
  BY DEF Reload, Install, Remove, LoadSnapshot, LoadJob, ListTimers, NextAction, EndReconcile
<1>4. /\ FindJob(p) => At(p, "find")
      /\ SelfRepair(p) => At(p, "repair")
      /\ BeginRun(p) => At(p, "start")
      /\ Claim(p) => At(p, "claim")
      /\ \A st, r : EndSession(p, st, r) => At(p, "session")
  BY DEF FindJob, SelfRepair, BeginRun, Claim, EndSession
<1>5. /\ AppendRun(p) => call[p].pc \in {"append", "trace"}
      /\ Prune(p) => At(p, "prune")
      /\ Rewrite(p) => At(p, "rewrite")
      /\ Release(p) => At(p, "release")
  BY DEF AppendRun, Prune, Rewrite, Release
<1>6. \/ Starts(p)
      \/ LockStore(p) \/ SaveStore(p)
      \/ Reload(p) \/ Install(p) \/ Remove(p)
      \/ LoadSnapshot(p) \/ ListTimers(p, TRUE) \/ NextAction(p) \/ EndReconcile(p)
      \/ FindJob(p) \/ LoadJob(p) \/ SelfRepair(p) \/ BeginRun(p) \/ Claim(p)
      \/ \E st \in Outcomes, r \in BOOLEAN : EndSession(p, st, r)
      \/ AppendRun(p) \/ Prune(p) \/ Rewrite(p) \/ Release(p)
  BY DEF Works, Starts
<1> QED  BY <1>1, <1>2, <1>3, <1>4, <1>5, <1>6

(* A row that is there, with one field changed, is a row that is there.    *)
LEMMA RowEdits ==
  ASSUME NEW row \in Job
  PROVE  /\ row # Absent
         /\ \A x \in BOOLEAN :
              /\ [row EXCEPT !.enabled = x] # Absent
              /\ [row EXCEPT !.enabled = x].enabled = x
              /\ [row EXCEPT !.enabled = x].spec = row.spec
         /\ \A x \in Specs :
              /\ [row EXCEPT !.spec = x] # Absent
              /\ [row EXCEPT !.spec = x].enabled = row.enabled
              /\ [row EXCEPT !.spec = x].spec = x
         /\ \A x \in Specs \cup {NoSpec} :
              /\ [row EXCEPT !.rec = x] # Absent
              /\ [row EXCEPT !.rec = x].enabled = row.enabled
              /\ [row EXCEPT !.rec = x].spec = row.spec
         /\ \A x \in Outcomes :
              /\ [row EXCEPT !.state = x] # Absent
              /\ [row EXCEPT !.state = x].enabled = row.enabled
              /\ [row EXCEPT !.state = x].spec = row.spec
<1>1. \A r \in Job : r # Absent  BY AbsenceAssumption
<1>2. ASSUME NEW x \in BOOLEAN  PROVE [row EXCEPT !.enabled = x] \in Job  BY DEF Job
<1>3. ASSUME NEW x \in Specs  PROVE [row EXCEPT !.spec = x] \in Job  BY DEF Job
<1>4. ASSUME NEW x \in Specs \cup {NoSpec}  PROVE [row EXCEPT !.rec = x] \in Job  BY DEF Job
<1>5. ASSUME NEW x \in Outcomes  PROVE [row EXCEPT !.state = x] \in Job  BY DEF Job
<1>6. ASSUME NEW x
      PROVE  /\ [row EXCEPT !.enabled = x].enabled = x
             /\ [row EXCEPT !.enabled = x].spec = row.spec
             /\ [row EXCEPT !.spec = x].enabled = row.enabled
             /\ [row EXCEPT !.spec = x].spec = x
             /\ [row EXCEPT !.rec = x].enabled = row.enabled
             /\ [row EXCEPT !.rec = x].spec = row.spec
             /\ [row EXCEPT !.state = x].enabled = row.enabled
             /\ [row EXCEPT !.state = x].spec = row.spec
  BY DEF Job
<1> QED  BY <1>1, <1>2, <1>3, <1>4, <1>5, <1>6

(* Whether a job is there and enabled, and its schedule, are as before.    *)
SameJobs == \A j \in Jobs : /\ (jobs'[j] = Absent) = (jobs[j] = Absent)
                            /\ RunsOn(jobs'[j]) = RunsOn(jobs[j])
                            /\ jobs[j] # Absent => jobs'[j].spec = jobs[j].spec

(* A save that records a timer or an outcome leaves them so.               *)
LEMMA MarkedRows ==
  ASSUME Typed, NEW p \in Procs, SaveStore(p), call[p].snap = jobs,
         call[p].pc \in {"record", "report"}
  PROVE  SameJobs
<1> DEFINE c == call[p]
           row == jobs[c.job]
           new == Edited(c, row)
<1>1. c.job \in Jobs /\ jobs \in Rows /\ c.arg.spec \in Specs /\ c.status \in Outcomes
  BY DEF Typed, CallTyped, Timer
<1>2. CASE row = Absent
  <2>1. jobs' = jobs  BY <1>2 DEF SaveStore, Mutated
  <2> QED  BY <2>1 DEF SameJobs
<1>3. CASE row # Absent
  <2>1. row \in Job  BY <1>1, <1>3 DEF Rows
  <2>2. jobs' = [jobs EXCEPT ![c.job] = new]  BY <1>3 DEF SaveStore, Mutated
  <2>3. \/ \E x \in Specs \cup {NoSpec} : new = [row EXCEPT !.rec = x]
        \/ \E x \in Outcomes : new = [row EXCEPT !.state = x]
    <3> HIDE DEF c, row
    <3> QED  BY <1>1 DEF Edited, c
  <2> HIDE DEF row, new, c
  <2>4. new # Absent /\ new.enabled = row.enabled /\ new.spec = row.spec
    <3>1. ASSUME NEW x \in Specs \cup {NoSpec}, new = [row EXCEPT !.rec = x]
          PROVE  new # Absent /\ new.enabled = row.enabled /\ new.spec = row.spec
      BY <2>1, <3>1, RowEdits
    <3>2. ASSUME NEW x \in Outcomes, new = [row EXCEPT !.state = x]
          PROVE  new # Absent /\ new.enabled = row.enabled /\ new.spec = row.spec
      BY <2>1, <3>2, RowEdits
    <3> QED  BY <2>3, <3>1, <3>2
  <2>5. jobs'[c.job] = new /\ \A j \in Jobs \ {c.job} : jobs'[j] = jobs[j]
    BY <1>1, <2>2 DEF Rows
  <2> QED  BY <1>3, <2>4, <2>5 DEF SameJobs, RunsOn, row
<1> QED  BY <1>2, <1>3

(* Whoever holds the store's lock is updating, however many do.            *)
LEMMA HeldStep ==
  ASSUME CallsShaped, LockHeld, [Next]_vars
  PROVE  LockHeld'
<1>1. CASE UNCHANGED vars
  BY <1>1 DEF vars, LockHeld, Updating
<1>2. ASSUME NEW p \in Procs, Works(p) \/ Fails(p)  PROVE LockHeld'
  <2>1. CASE Quiet
    BY <2>1 DEF Quiet, LockHeld, Updating
  <2>2. CASE LockStore(p)
    <3>1. /\ \A q \in Procs \ {p} : call'[q] = call[q]
          /\ call'[p].pc = call[p].pc
      BY <2>2, TurnLock DEF Turns, LockStore, Updating
    <3>2. storeLock' = storeLock \cup {p} /\ Updating(p)  BY <2>2 DEF LockStore
    <3> QED  BY <3>1, <3>2 DEF LockHeld, Updating
  <2>3. CASE SaveStore(p)
    <3>1. \A q \in Procs \ {p} : call'[q] = call[q]
      BY <2>3, TurnSave DEF Turns
    <3>2. storeLock' = storeLock \ {p}  BY <2>3 DEF SaveStore
    <3> QED  BY <3>1, <3>2 DEF LockHeld, Updating
  <2> QED  BY <1>2, <2>1, <2>2, <2>3, StoreStep
<1> QED  BY <1>1, <1>2 DEF Next

-----------------------------------------------------------------------------
(***************************************************************************)
(* Orphans.  A reconciliation that nothing fails in and nothing comes      *)
(* between has, for every timer without a job, the action that removes it  *)
(* still to do or under way; none of the others makes one.                 *)
(***************************************************************************)
Orphan(j) == [job |-> j, kind |-> "orphan", spec |-> AnySpec]

Reconciles(c) == c.op = "reconcile" /\ c.pc \in {"list", "next", "install", "record", "remove"}

CalmCall(p) ==
  LET c == call[p] IN
  /\ Reconciles(c)
  /\ c.pc = "list" \/ p \in storeLock => c.snap = jobs
  /\ c.pc \in {"install", "record"} => jobs[c.job] # Absent
  /\ c.pc # "list" =>
       /\ \A a \in c.todo : a.kind = "install" => jobs[a.job] # Absent
       /\ \A j \in Jobs : jobs[j] = Absent /\ timers[j] # NoTimer =>
            Orphan(j) \in c.todo \/ (c.pc = "remove" /\ c.job = j)

CalmInv == calm \subseteq Procs /\ \A p \in calm : CalmCall(p)

(* What a reconciliation wants done for a store as it has loaded it.       *)
LEMMA WantedOrphans ==
  ASSUME NEW seen \in Rows
  PROVE  /\ \A a \in Wanted(seen, TRUE) : a.kind = "install" => seen[a.job] # Absent
         /\ \A j \in Jobs : seen[j] = Absent /\ timers[j] # NoTimer => Orphan(j) \in Wanted(seen, TRUE)
<1>1. ASSUME NEW a \in Wanted(seen, TRUE), a.kind = "install"  PROVE seen[a.job] # Absent
  BY <1>1 DEF Wanted, RunsOn
<1>2. ASSUME NEW j \in Jobs, seen[j] = Absent, timers[j] # NoTimer
      PROVE  Orphan(j) \in Wanted(seen, TRUE)
  BY <1>2 DEF Wanted, Orphan
<1> QED  BY <1>1, <1>2

(* A reconciliation begins with what the store holds.                      *)
LEMMA CalmBegins ==
  ASSUME CallsShaped, LockHeld, NEW p \in Procs, LoadSnapshot(p), At(p, "load")
  PROVE  CalmCall(p)'
<1> DEFINE c == call[p]
<1>1. Turns(p, "list", c.op, c.job, jobs, c.arg, c.todo, c.status)
  BY TurnLoad
<1>2. c.op = "reconcile" /\ UNCHANGED <<jobs, timers, storeLock>>
  BY DEF LoadSnapshot, storeVars
<1> QED  BY <1>1, <1>2 DEF Turns, CalmCall, Reconciles

(* Each of its steps keeps to that.                                        *)
LEMMA CalmWorks ==
  ASSUME CallsShaped, PcInv, Typed, LockHeld, NEW p \in Procs, CalmCall(p), Works(p),
         call'[p].op = "reconcile"
  PROVE  CalmCall(p)'
<1> DEFINE c == call[p]
           d == call'[p]
<1>0. /\ CallTyped(c) /\ c.job \in Jobs /\ jobs \in Rows
      /\ timers \in [Jobs -> Timer \cup {NoTimer}]
      /\ c.op = "reconcile"
  BY DEF Typed, CallTyped, CalmCall, Reconciles
<1>1. CASE At(p, "list") /\ ListTimers(p, TRUE)
  <2> DEFINE t == Wanted(c.snap, TRUE)
  <2>1. Turns(p, "next", c.op, c.job, NoCall.snap, c.arg, t, c.status)
    BY <1>1, TurnList
  <2>2. UNCHANGED <<jobs, timers, storeLock>> /\ p \notin storeLock
    BY <1>1 DEF ListTimers, storeVars, LockHeld, Updating, At
  <2>3. c.snap = jobs  BY <1>1 DEF CalmCall, At
  <2>4. /\ \A a \in t : a.kind = "install" => jobs[a.job] # Absent
        /\ \A j \in Jobs : jobs[j] = Absent /\ timers[j] # NoTimer => Orphan(j) \in t
    BY <1>0, <2>3, WantedOrphans
  <2> HIDE DEF t
  <2> QED  BY <1>0, <2>1, <2>2, <2>4 DEF Turns, CalmCall, Reconciles
<1>2. CASE At(p, "next") /\ NextAction(p)
  <2>1. PICK x \in c.todo :
          Become(p, [call[p] EXCEPT !.pc = IF x.kind = "install" THEN "install" ELSE "remove",
                                    !.job = x.job, !.arg.spec = x.spec, !.todo = @ \ {x}])
    BY <1>2 DEF NextAction
  <2> DEFINE l == IF x.kind = "install" THEN "install" ELSE "remove"
             t == c.todo \ {x}
             a == [c.arg EXCEPT !.spec = x.spec]
  <2>2. Turns(p, l, c.op, x.job, c.snap, a, t, c.status)
    BY <2>1, TurnNext
  <2>3. UNCHANGED <<jobs, timers, storeLock>> /\ p \notin storeLock
    BY <1>2 DEF NextAction, storeVars, LockHeld, Updating, At
  <2>4. d.pc = l /\ d.op = "reconcile" /\ d.job = x.job /\ d.todo = t
    <3> HIDE DEF l, t, a, c
    <3>1. l # "idle"  BY DEF l
    <3> QED  BY <1>0, <2>2, <3>1 DEF Turns
  <2>5. /\ \A b \in c.todo : b.kind = "install" => jobs[b.job] # Absent
        /\ \A j \in Jobs : jobs[j] = Absent /\ timers[j] # NoTimer => Orphan(j) \in c.todo
    BY <1>2 DEF CalmCall, At
  <2>6. x.kind = "install" => jobs[x.job] # Absent  BY <2>1, <2>5
  <2>7. \A j \in Jobs : Orphan(j) = x => l = "remove" /\ x.job = j
    BY DEF Orphan
  <2>8. l \in {"install", "remove"} /\ (l = "install" => x.kind = "install")  OBVIOUS
  <2>9. \A j \in Jobs : jobs[j] = Absent /\ timers[j] # NoTimer =>
          Orphan(j) \in t \/ (l = "remove" /\ x.job = j)
    BY <2>5, <2>7
  <2>10. \A b \in t : b.kind = "install" => jobs[b.job] # Absent  BY <2>5
  <2> HIDE DEF l, t, c, d
  <2> QED  BY <2>3, <2>4, <2>6, <2>8, <2>9, <2>10 DEF CalmCall, Reconciles, d
<1>3. CASE At(p, "install") /\ Install(p)
  <2>1. Turns(p, "record", c.op, c.job, c.snap, c.arg, c.todo, c.status)
    BY <1>0, <1>3, TurnGoto DEF Install, WritesBack
  <2>2. UNCHANGED <<jobs, storeLock>> /\ p \notin storeLock
    BY <1>3 DEF Install, storeVars, LockHeld, Updating, At
  <2>3. \A j \in Jobs \ {c.job} : timers'[j] = timers[j]
    BY <1>0, <1>3 DEF Install, SetTimer
  <2>4. jobs[c.job] # Absent  BY <1>3 DEF CalmCall, At
  <2>5. /\ \A b \in c.todo : b.kind = "install" => jobs[b.job] # Absent
        /\ \A j \in Jobs : jobs[j] = Absent /\ timers[j] # NoTimer => Orphan(j) \in c.todo
    BY <1>3 DEF CalmCall, At
  <2> HIDE DEF c
  <2> QED  BY <1>0, <2>1, <2>2, <2>3, <2>4, <2>5 DEF Turns, CalmCall, Reconciles
<1>4. CASE Updating(p) /\ LockStore(p)
  <2>1. c.pc = "record"  BY <1>4 DEF Updating, CalmCall, Reconciles
  <2>2. Turns(p, "record", c.op, c.job, jobs, c.arg, c.todo, c.status)
    BY <1>4, <2>1, TurnLock
  <2>3. UNCHANGED <<jobs, timers>>  BY <1>4 DEF LockStore
  <2>4. /\ jobs[c.job] # Absent
        /\ \A b \in c.todo : b.kind = "install" => jobs[b.job] # Absent
        /\ \A j \in Jobs : jobs[j] = Absent /\ timers[j] # NoTimer => Orphan(j) \in c.todo
    BY <2>1 DEF CalmCall
  <2> HIDE DEF c
  <2> QED  BY <1>0, <2>2, <2>3, <2>4 DEF Turns, CalmCall, Reconciles
<1>5. CASE Updating(p) /\ SaveStore(p)
  <2>1. c.pc = "record" /\ c.snap = jobs
    BY <1>5 DEF Updating, SaveStore, CalmCall, Reconciles
  <2>2. SameJobs  BY <1>5, <2>1, MarkedRows
  <2> DEFINE l == AfterUpdate(c, AfterChange(p, c.snap[c.job]))
             a == Captured(p, c.snap[c.job])
  <2>3. Turns(p, l, c.op, c.job, NoCall.snap, a, c.todo, c.status)
    BY <1>5, TurnSave
  <2>4. l = "next"  BY <1>0, <2>1 DEF AfterUpdate
  <2>5. timers' = timers /\ p \notin storeLock'  BY <1>5 DEF SaveStore
  <2>6. /\ \A b \in c.todo : b.kind = "install" => jobs[b.job] # Absent
        /\ \A j \in Jobs : jobs[j] = Absent /\ timers[j] # NoTimer => Orphan(j) \in c.todo
    BY <2>1 DEF CalmCall
  <2>7. \A b \in c.todo : b.job \in Jobs  BY <1>0 DEF CallTyped, Action
  <2> HIDE DEF c, l, a
  <2>8. d.pc = "next" /\ d.op = "reconcile" /\ d.todo = c.todo
    BY <1>0, <2>3, <2>4 DEF Turns
  <2>9. \A b \in c.todo : b.kind = "install" => jobs'[b.job] # Absent
    BY <2>2, <2>6, <2>7 DEF SameJobs
  <2>10. \A j \in Jobs : jobs'[j] = Absent /\ timers[j] # NoTimer => Orphan(j) \in c.todo
    BY <2>2, <2>6 DEF SameJobs
  <2> HIDE DEF d
  <2> QED  BY <2>5, <2>8, <2>9, <2>10 DEF CalmCall, Reconciles, d
<1>6. CASE At(p, "remove") /\ Remove(p)
  <2>1. Removing(p, "next")
    BY <1>0, <1>6 DEF Remove, AfterRemove
  <2>2. PICK S : Die(S, With(p, [call[p] EXCEPT !.pc = "next"]))
    BY <2>1 DEF Removing
  <2>3. d # NoCall  BY NoCallShape
  <2>4. /\ d.pc = "next" /\ d.op = c.op /\ d.todo = c.todo
    <3>1. d = With(p, [call[p] EXCEPT !.pc = "next"])[p]
      BY <2>2, <2>3 DEF Die
    <3> HIDE DEF d, c
    <3> QED  BY <3>1, WithTurn DEF c
  <2>5. timers' = [timers EXCEPT ![c.job] = NoTimer]  BY <1>6 DEF Remove
  <2>6. jobs' = jobs /\ p \notin storeLock'
    BY <1>6, <2>2 DEF Die, LockHeld, Updating, At
  <2>7. /\ \A b \in c.todo : b.kind = "install" => jobs[b.job] # Absent
        /\ \A j \in Jobs : jobs[j] = Absent /\ timers[j] # NoTimer =>
             Orphan(j) \in c.todo \/ c.job = j
    BY <1>6 DEF CalmCall, At
  <2> HIDE DEF c, d
  <2>8. \A j \in Jobs : jobs[j] = Absent /\ timers'[j] # NoTimer => Orphan(j) \in c.todo
    BY <1>0, <2>5, <2>7
  <2> QED  BY <1>0, <2>4, <2>6, <2>7, <2>8 DEF CalmCall, Reconciles, d
<1>7. CASE At(p, "next") /\ EndReconcile(p)
  <2>1. Turns(p, "idle", c.op, c.job, c.snap, c.arg, c.todo, c.status)
    BY <1>7, TurnGoto DEF EndReconcile
  <2>2. d = NoCall  BY <2>1 DEF Turns
  <2> QED  BY <2>2, NoCallShape
<1>8. c.pc \in {"list", "next", "install", "record", "remove"}
  BY DEF CalmCall, Reconciles
<1> HIDE DEF c, d
<1> QED  BY <1>1, <1>2, <1>3, <1>4, <1>5, <1>6, <1>7, <1>8, WorksAt DEF At, c

(* CalmInv is inductive: a calm reconciliation is alone in moving.         *)
LEMMA CalmStep ==
  ASSUME CallsShaped, PcInv, Typed, LockHeld, CalmInv, [Next]_vars
  PROVE  CalmInv'
<1>1. CASE UNCHANGED vars
  <2>1. \A p : CalmCall(p) => CalmCall(p)'  BY <1>1 DEF vars, CalmCall
  <2> QED  BY <1>1, <2>1 DEF vars, CalmInv
<1>2. ASSUME NEW p \in Procs, Works(p), Note(p, TRUE)  PROVE CalmInv'
  <2>1. calm' \subseteq {p} /\ (calm' # {} => call'[p].op = "reconcile" /\ (p \in calm \/ At(p, "load")))
    BY <1>2 DEF Note
  <2>2. CASE calm' = {}  BY <2>2 DEF CalmInv
  <2>3. CASE p \in calm /\ call'[p].op = "reconcile"
    <3>1. CalmCall(p)  BY <2>3 DEF CalmInv
    <3>2. CalmCall(p)'  BY <1>2, <2>3, <3>1, CalmWorks
    <3> QED  BY <2>1, <3>2 DEF CalmInv
  <2>4. CASE At(p, "load") /\ call'[p].op = "reconcile"
    <3>1. LoadSnapshot(p) \/ LoadJob(p)
      BY <1>2, <2>4, WorksAt DEF At, Updating
    <3>2. ~LoadJob(p)
      <4>1. ASSUME LoadJob(p)  PROVE FALSE
        <5>1. CallStep(p) /\ call[p].op = "run"  BY <1>2, <4>1, EveryStep DEF LoadJob
        <5> QED  BY <2>4, <5>1, NoCallShape DEF CallStep, Legal, At
      <4> QED  BY <4>1
    <3>3. CalmCall(p)'  BY <2>4, <3>1, <3>2, CalmBegins
    <3> QED  BY <2>1, <3>3 DEF CalmInv
  <2> QED  BY <2>1, <2>2, <2>3, <2>4
<1>3. ASSUME NEW p \in Procs, Note(p, FALSE)  PROVE CalmInv'
  BY <1>3 DEF Note, CalmInv
<1> QED  BY <1>1, <1>2, <1>3 DEF Next

(* A reconciliation that nothing fails in and nothing comes between leaves *)
(* no timer of a deleted job (computeReconcileActions finds every timer    *)
(* the scheduler lists without a job), whatever calls have met before, and *)
(* whether or not the locks of the store exclude.                          *)
THEOREM OrphansAreRemoved_always == Spec => []OrphansAreRemoved
<1>1. CalmInv => OrphansAreRemoved
  BY DEF CalmInv, CalmCall, OrphansAreRemoved, At
<1>2. Init => CallsShaped /\ PcInv /\ Typed /\ LockHeld /\ CalmInv
  BY InitInv, InitTyped DEF Init, LockHeld, CalmInv
<1>3. CallsShaped /\ PcInv /\ Typed /\ LockHeld /\ CalmInv /\ [Next]_vars
        => (CallsShaped /\ PcInv /\ Typed /\ LockHeld /\ CalmInv)'
  BY StepInv, TypedStep, HeldStep, CalmStep
<1> QED  BY <1>1, <1>2, <1>3, PTL DEF Spec

-----------------------------------------------------------------------------
(***************************************************************************)
(* Timers.  As long as nothing has failed and no two calls have            *)
(* overlapped, the timer of every job is the one the job should have,      *)
(* except that of the job a call is in the middle of changing; what that   *)
(* call will do sets it right.                                             *)
(***************************************************************************)
(* What the scheduler starts is "jobs run"; the list's edit of a paused    *)
(* job installs its timer switched on, and is left out.                    *)
FrontsUse == \A p \in Procs : /\ Front[p] = "os" => Uses[p] \subseteq {"run"}
                              /\ Front[p] = "tui" => "edit" \notin Uses[p]

Synced(j) == IsOn(j) = Enabled(j) /\ (Enabled(j) => timers[j].spec = jobs[j].spec)

(* The call of p has changed its job and not yet its timer, or the reverse. *)
Behind(p) == \/ At(p, "update") /\ call[p].op = "delete"
             \/ call[p].pc \in {"reload", "install"}
             \/ At(p, "remove") /\ call[p].op # "delete"

ToUpdate(p, c) == /\ c.op \in {"create", "edit", "pause", "resume", "delete"}
                  /\ c.op = "delete" => ~IsOn(c.job)
                  /\ c.op \in {"create", "resume"} => c.arg.on
                  /\ c.op = "resume" /\ Front[p] = "tui" => c.arg.spec = jobs[c.job].spec
ToReload(c)  == /\ c.op \in {"pause", "resume"} /\ jobs[c.job] # Absent
                /\ Enabled(c.job) = (c.op = "resume")
                /\ c.op = "resume" => c.arg.on
ToInstall(c) == /\ jobs[c.job] # Absent /\ c.arg.spec = jobs[c.job].spec
                /\ (c.arg.on \/ IsOn(c.job)) = Enabled(c.job)
ToRemove(c)  == c.op # "delete" => ~Enabled(c.job)
ToDo(todo)   == \A a \in todo : IF a.kind = "install"
                                THEN Enabled(a.job) /\ a.spec = jobs[a.job].spec
                                ELSE ~Enabled(a.job)

(* What the call of p will do is right for the jobs as they are.           *)
Fits(p) ==
  LET c == call[p] IN
  /\ c.pc # "idle" => c.op \in Uses[p]
  /\ p \in storeLock => c.snap = jobs
  /\ c.pc = "update"  => ToUpdate(p, c)
  /\ c.pc = "reload"  => ToReload(c)
  /\ c.pc = "install" => ToInstall(c)
  /\ c.pc = "remove"  => ToRemove(c)
  /\ c.pc = "list"    => c.snap = jobs
  /\ c.op = "reconcile" /\ c.pc \in {"next", "install", "record", "remove"} => ToDo(c.todo)

OneCall == \A p, q \in Procs : ~At(p, "idle") /\ ~At(q, "idle") => p = q

InSync == /\ OneCall
          /\ \A p \in Procs : Fits(p)
          /\ \A j \in Jobs : Synced(j) \/ \E p \in Procs : Behind(p) /\ call[p].job = j

TidyInv == tidy => InSync

(* Nobody but p is in a call.                                              *)
Solo(p) == \A q \in Procs \ {p} : At(q, "idle")

(* Then every other job has the timer it should have.                      *)
LEMMA SyncedBut ==
  ASSUME InSync, NEW p \in Procs, Solo(p), NEW j \in Jobs
  PROVE  Synced(j) \/ (Behind(p) /\ call[p].job = j)
<1>1. CASE Synced(j)  BY <1>1
<1>2. CASE ~Synced(j)
  <2>1. PICK q \in Procs : Behind(q) /\ call[q].job = j  BY <1>2 DEF InSync
  <2>2. q = p  BY <2>1 DEF Solo, Behind, At
  <2> QED  BY <2>1, <2>2
<1> QED  BY <1>1, <1>2

(* A job whose switch, schedule and timer stay is as right as before.      *)
LEMMA SyncedStays ==
  ASSUME NEW j \in Jobs, Synced(j), RunsOn(jobs'[j]) = RunsOn(jobs[j]),
         RunsOn(jobs[j]) => jobs'[j].spec = jobs[j].spec, timers'[j] = timers[j]
  PROVE  Synced(j)'
  BY DEF Synced, IsOn, Enabled

(* A call that is over fits.                                               *)
LEMMA FitsOver ==
  ASSUME NEW p \in Procs, LockHeld', call'[p] = NoCall
  PROVE  Fits(p)'
<1>1. p \notin storeLock'  BY NoCallShape DEF LockHeld, Updating
<1> QED  BY <1>1, NoCallShape DEF Fits

(* What a step has to show of its own call and job.                        *)
LEMMA SyncMove ==
  ASSUME NEW p \in Procs, Solo(p), LockHeld',
         \A q \in Procs \ {p} : call'[q] \in {call[q], NoCall},
         NEW k \in Jobs, \A j \in Jobs \ {k} : Synced(j)',
         Synced(k)' \/ (Behind(p)' /\ call'[p].job = k), Fits(p)'
  PROVE  InSync'
<1>1. \A q \in Procs \ {p} : call'[q].pc = "idle"
  BY NoCallShape DEF Solo, At
<1>2. OneCall'  BY <1>1 DEF OneCall, At
<1>3. ASSUME NEW q \in Procs \ {p}  PROVE Fits(q)'
  <2>1. call'[q].pc = "idle" /\ q \notin storeLock'
    BY <1>1 DEF LockHeld, Updating
  <2> QED  BY <2>1 DEF Fits
<1> QED  BY <1>2, <1>3 DEF InSync

(* A step in places that bind nothing leaves everything in sync.           *)
Plain == {"load", "find", "repair", "start", "claim", "session", "report", "append", "trace",
          "prune", "rewrite", "release"}

LEMMA PlainMove ==
  ASSUME Typed, LockHeld', InSync, NEW p \in Procs, Solo(p), ~Behind(p), ~At(p, "idle"),
         UNCHANGED <<jobs, timers>>, p \notin storeLock',
         NEW l \in Plain \cup {"idle"}, NEW j, NEW sn, NEW a, NEW t, NEW st,
         Turns(p, l, call[p].op, j, sn, a, t, st)
  PROVE  InSync'
<1>1. PICK k \in Jobs : k = call[p].job  BY DEF Typed, CallTyped
<1>2. \A i \in Jobs : Synced(i)'  BY SyncedBut, SyncedStays
<1>3. \A q \in Procs \ {p} : call'[q] = call[q]  BY DEF Turns
<1>4. Fits(p)'
  <2>1. CASE l = "idle"  BY <2>1, FitsOver DEF Turns
  <2>2. CASE l \in Plain
    <3>1. call'[p].pc = l /\ call'[p].op = call[p].op  BY <2>2 DEF Turns, Plain
    <3>2. call[p].op \in Uses[p]  BY DEF InSync, Fits, At
    <3> QED  BY <2>2, <3>1, <3>2 DEF Fits, Plain
  <2> QED  BY <2>1, <2>2
<1> QED  BY <1>2, <1>3, <1>4, SyncMove

(* A call begins when every timer is as it should be.                      *)
LEMMA SyncStart ==
  ASSUME CallsShaped, Typed, LockHeld, LockHeld', InSync, NEW p \in Procs, Solo(p), Starts(p)
  PROVE  InSync'
<1>1. ASSUME NEW o, NEW j \in Jobs, NEW l, NEW s, Start(p, o, j, l, s),
             \/ l \in {"load", "find"}
             \/ l = "remove" /\ o = "delete"
             \/ l = "update" /\ o \in {"create", "edit", "pause", "resume"}
                /\ (o = "resume" /\ Front[p] = "tui" => s = jobs[j].spec)
      PROVE  InSync'
  <2> DEFINE d == call'[p]
             a == [NoCall.arg EXCEPT !.spec = s]
  <2>1. Turns(p, l, o, j, NoCall.snap, a, NoCall.todo, NoCall.status)
    BY <1>1, TurnStart
  <2>2. a.on = TRUE /\ a.spec = s
    BY NoCallShape
  <2>3. At(p, "idle") /\ o \in Uses[p] /\ UNCHANGED <<jobs, timers, storeLock>>
    BY <1>1 DEF Start, storeVars
  <2>4. p \notin storeLock'  BY <2>3 DEF LockHeld, Updating, At
  <2>5. \A i \in Jobs : Synced(i)'
    <3>1. ~Behind(p)  BY <2>3 DEF Behind, At
    <3> QED  BY <2>3, <3>1, SyncedBut, SyncedStays
  <2>6. NoCall.todo = {}  BY DEF NoCall
  <2> HIDE DEF a
  <2>7. d.pc = l /\ d.op = o /\ d.job = j /\ d.arg = a /\ d.todo = {}
    BY <1>1, <2>1, <2>6 DEF Turns
  <2>8. \A q \in Procs \ {p} : call'[q] = call[q]  BY <2>1 DEF Turns
  <2> HIDE DEF d
  <2>9. l = "update" => ToUpdate(p, call[p])'
    BY <1>1, <2>2, <2>3, <2>7 DEF ToUpdate, d
  <2>10. Fits(p)'
    BY <1>1, <2>3, <2>4, <2>7, <2>9 DEF Fits, ToRemove, ToDo, d
  <2> QED  BY <2>5, <2>8, <2>10, SyncMove
<1>2. ASSUME NEW j \in Jobs, NEW s \in Specs, StartCreate(p, j, s) \/ StartEdit(p, j, s)
      PROVE  InSync'
  BY <1>1, <1>2 DEF StartCreate, StartEdit
<1>3. ASSUME NEW j \in Jobs, NEW c \in {"pause", "resume"}, StartSwitch(p, c, j)
      PROVE  InSync'
  <2>1. \E s : /\ Start(p, c, j, "update", s)
               /\ Front[p] = "tui" => s = jobs[j].spec
    BY <1>3 DEF StartSwitch
  <2> QED  BY <1>1, <2>1
<1>4. ASSUME NEW j \in Jobs, StartDelete(p, j) \/ StartRun(p, j)  PROVE InSync'
  BY <1>1, <1>4 DEF StartDelete, StartRun
<1>5. CASE StartReconcile(p)
  <2>1. (CHOOSE j \in Jobs : TRUE) \in Jobs  BY JobsAssumption
  <2> QED  BY <1>1, <1>5, <2>1 DEF StartReconcile
<1> QED  BY <1>2, <1>3, <1>4, <1>5 DEF Starts

(* Taking the lock of the store changes none of it.                        *)
LEMMA SyncLock ==
  ASSUME CallsShaped, Typed, LockHeld', InSync, NEW p \in Procs, Solo(p), LockStore(p)
  PROVE  InSync'
<1> DEFINE c == call[p]
           d == call'[p]
<1>1. PICK k \in Jobs : k = call[p].job  BY DEF Typed, CallTyped
<1>2. Turns(p, c.pc, c.op, c.job, jobs, c.arg, c.todo, c.status) /\ UNCHANGED <<jobs, timers>>
  BY TurnLock DEF LockStore
<1>3. c.pc \in {"update", "record", "report"}  BY DEF LockStore, Updating
<1>4. /\ d.pc = c.pc /\ d.op = c.op /\ d.job = c.job /\ d.snap = jobs /\ d.arg = c.arg
      /\ d.todo = c.todo
  <2> HIDE DEF c
  <2> QED  BY <1>2, <1>3 DEF Turns
<1>5. \A q \in Procs \ {p} : call'[q] = call[q]  BY <1>2 DEF Turns
<1>6. Fits(p)'
  <2>1. c.op \in Uses[p] /\ (c.pc = "update" => ToUpdate(p, c))
        /\ (c.op = "reconcile" /\ c.pc = "record" => ToDo(c.todo))
    BY <1>3 DEF InSync, Fits
  <2>2. c.pc = "update" => ToUpdate(p, call[p])'
    BY <1>2, <1>4, <2>1 DEF ToUpdate, IsOn
  <2>3. c.op = "reconcile" /\ c.pc = "record" => ToDo(call[p].todo)'
    BY <1>2, <1>4, <2>1 DEF ToDo, Enabled
  <2> HIDE DEF c, d
  <2> QED  BY <1>2, <1>3, <1>4, <2>1, <2>2, <2>3 DEF Fits, d
<1>7. \A j \in Jobs : Synced(j)' \/ (Behind(p)' /\ k = j)
  <2>1. Behind(p) => Behind(p)'
    BY <1>4 DEF Behind, At
  <2> QED  BY <1>1, <1>2, <2>1, SyncedBut, SyncedStays
<1>8. d.job = k  BY <1>1, <1>4
<1> QED  BY <1>5, <1>6, <1>7, <1>8, SyncMove

(* A save that records a timer or an outcome changes nothing of the jobs   *)
(* that the timers depend on.                                              *)
LEMMA SyncMark ==
  ASSUME CallsShaped, Typed, LockHeld, LockHeld', InSync, NEW p \in Procs, Solo(p), SaveStore(p),
         call[p].pc \in {"record", "report"}
  PROVE  InSync'
<1> DEFINE c == call[p]
           d == call'[p]
           l == AfterUpdate(c, AfterChange(p, c.snap[c.job]))
           a == Captured(p, c.snap[c.job])
<1>1. c.snap = jobs /\ c.op \in Uses[p]
      /\ (c.op = "reconcile" /\ c.pc = "record" => ToDo(c.todo))
  BY DEF SaveStore, InSync, Fits
<1>2. SameJobs /\ timers' = timers /\ p \notin storeLock'
  BY <1>1, MarkedRows DEF SaveStore
<1>3. Turns(p, l, c.op, c.job, NoCall.snap, a, c.todo, c.status)
  BY TurnSave
<1>4. l \in {"append", "start", "idle"} \/ (l = "next" /\ c.op = "reconcile" /\ c.pc = "record")
  BY DEF AfterUpdate
<1>5. \A j \in Jobs : Synced(j)'
  <2>1. ~Behind(p)  BY DEF Behind, At
  <2> QED  BY <1>2, <2>1, SyncedBut, SyncedStays DEF SameJobs, RunsOn
<1>6. c.todo \subseteq Action  BY DEF Typed, CallTyped
<1> HIDE DEF c, l, a
<1>7. \A q \in Procs \ {p} : call'[q] = call[q]  BY <1>3 DEF Turns
<1>8. Fits(p)'
  <2>1. CASE l = "idle"  BY <1>3, <2>1, FitsOver DEF Turns
  <2>2. CASE l # "idle"
    <3>1. d.pc = l /\ d.op = c.op /\ d.todo = c.todo  BY <1>3, <2>2 DEF Turns
    <3>2. l = "next" => ToDo(call[p].todo)'
      <4>1. ASSUME NEW b \in c.todo, ToDo(c.todo)
            PROVE  IF b.kind = "install" THEN RunsOn(jobs'[b.job]) /\ b.spec = jobs'[b.job].spec
                                         ELSE ~RunsOn(jobs'[b.job])
        BY <1>2, <1>6, <4>1 DEF ToDo, Enabled, SameJobs, Action, RunsOn
      <4> QED  BY <1>1, <1>4, <3>1, <4>1 DEF ToDo, Enabled
    <3> HIDE DEF d
    <3> QED  BY <1>1, <1>2, <1>4, <2>2, <3>1, <3>2 DEF Fits, d
  <2> QED  BY <2>1, <2>2
<1>9. PICK k \in Jobs : TRUE  BY JobsAssumption
<1> QED  BY <1>5, <1>7, <1>8, SyncMove

(* What a change makes of its row, and where the call goes on with it.     *)
LEMMA ChangedRow ==
  ASSUME Typed, NEW p \in Procs, SaveStore(p), call[p].snap = jobs, call[p].pc = "update",
         NEW k \in Jobs, k = call[p].job
  PROVE  /\ \A j \in Jobs \ {k} : jobs'[j] = jobs[j]
         /\ call[p].op = "create" =>
              jobs'[k] # Absent /\ jobs'[k].enabled = TRUE /\ jobs'[k].spec = call[p].arg.spec
         /\ call[p].op # "create" /\ jobs[k] = Absent => jobs'[k] = Absent
         /\ call[p].op = "edit" /\ jobs[k] # Absent =>
              jobs'[k] # Absent /\ jobs'[k].enabled = jobs[k].enabled
              /\ jobs'[k].spec = call[p].arg.spec
         /\ call[p].op \in {"pause", "resume"} /\ jobs[k] # Absent =>
              jobs'[k] # Absent /\ jobs'[k].enabled = (call[p].op = "resume")
              /\ jobs'[k].spec = jobs[k].spec
         /\ call[p].op = "delete" => jobs'[k] = Absent
<1> DEFINE c == call[p]
           row == jobs[k]
           new == Edited(c, row)
<1>1. jobs \in Rows /\ c.arg.spec \in Specs
  BY DEF Typed, CallTyped, Timer
<1>2. CASE c.op = "create"
  <2>1. jobs' = [jobs EXCEPT ![k] = NewJob(c.arg.spec)]
    BY <1>2 DEF SaveStore, Mutated
  <2>2. NewJob(c.arg.spec) \in Job  BY <1>1 DEF NewJob, Job
  <2>3. NewJob(c.arg.spec).enabled = TRUE /\ NewJob(c.arg.spec).spec = c.arg.spec
    BY DEF NewJob
  <2>4. jobs'[k] = NewJob(c.arg.spec) /\ \A j \in Jobs \ {k} : jobs'[j] = jobs[j]
    BY <1>1, <2>1 DEF Rows
  <2> QED  BY <1>2, <2>2, <2>3, <2>4, AbsenceAssumption
<1>3. CASE c.op # "create" /\ row = Absent
  <2>1. jobs' = jobs  BY <1>3 DEF SaveStore, Mutated
  <2> QED  BY <1>3, <2>1
<1>4. CASE c.op # "create" /\ row # Absent
  <2>1. jobs' = [jobs EXCEPT ![k] = new]  BY <1>4 DEF SaveStore, Mutated
  <2>2. row \in Job  BY <1>1, <1>4 DEF Rows
  <2>3. /\ c.op = "edit" => new = [row EXCEPT !.spec = c.arg.spec]
        /\ c.op = "pause" => new = [row EXCEPT !.enabled = FALSE]
        /\ c.op = "resume" => new = [row EXCEPT !.enabled = TRUE]
        /\ c.op = "delete" => new = Absent
    BY DEF Edited
  <2> HIDE DEF new, row
  <2>4. jobs'[k] = new /\ \A j \in Jobs \ {k} : jobs'[j] = jobs[j]
    BY <1>1, <2>1 DEF Rows
  <2>5. ASSUME NEW x, new = [row EXCEPT !.spec = x], x \in Specs
        PROVE  new # Absent /\ new.enabled = row.enabled /\ new.spec = x
    BY <2>2, <2>5, RowEdits
  <2>6. ASSUME NEW x \in BOOLEAN, new = [row EXCEPT !.enabled = x]
        PROVE  new # Absent /\ new.enabled = x /\ new.spec = row.spec
    BY <2>2, <2>6, RowEdits
  <2> HIDE DEF c
  <2>7. c.op = "edit" => new # Absent /\ new.enabled = row.enabled /\ new.spec = c.arg.spec
    BY <1>1, <2>3, <2>5
  <2>8. c.op = "pause" => new # Absent /\ new.enabled = FALSE /\ new.spec = row.spec
    BY <2>3, <2>6
  <2>9. c.op = "resume" => new # Absent /\ new.enabled = TRUE /\ new.spec = row.spec
    BY <2>3, <2>6
  <2> QED  BY <1>4, <2>3, <2>4, <2>7, <2>8, <2>9 DEF row, c
<1> QED  BY <1>2, <1>3, <1>4

(* A change of a job leaves its timer to be set, as the row then says.     *)
LEMMA SyncChange ==
  ASSUME CallsShaped, Typed, FrontsUse, LockHeld, LockHeld', InSync, NEW p \in Procs, Solo(p),
         SaveStore(p), call[p].pc = "update"
  PROVE  InSync'
<1> DEFINE c == call[p]
           d == call'[p]
           row == c.snap[c.job]
           l == AfterUpdate(c, AfterChange(p, row))
           a == Captured(p, row)
<1>1. PICK k \in Jobs : k = call[p].job  BY DEF Typed, CallTyped
<1>2. c.snap = jobs /\ c.op \in Uses[p] /\ ToUpdate(p, c)
  BY DEF SaveStore, InSync, Fits
<1>3. timers' = timers /\ p \notin storeLock'  BY DEF SaveStore
<1>4. Turns(p, l, c.op, c.job, NoCall.snap, a, c.todo, c.status)
  BY TurnSave
<1>5. /\ jobs[k] \in Job \cup {Absent} /\ c.arg \in Timer /\ timers[k] \in Timer \cup {NoTimer}
  BY DEF Typed, CallTyped, Rows
<1>6. row = jobs[k]  BY <1>1, <1>2
<1>7. l = AfterChange(p, row)  BY DEF AfterUpdate
<1>8. \A q \in Procs \ {p} : call'[q] = call[q]  BY <1>4 DEF Turns
<1>9. \A j \in Jobs \ {k} : Synced(j)'
  <2>1. \A j \in Jobs \ {k} : jobs'[j] = jobs[j]  BY <1>1, <1>2, ChangedRow
  <2> QED  BY <1>1, <1>3, <2>1, SyncedBut, SyncedStays
<1>10. c.op # "delete" => Synced(k)
  <2>1. c.op # "delete" => ~Behind(p)  BY DEF Behind, At
  <2> QED  BY <2>1, SyncedBut
<1>11. IsOn(k) \in BOOLEAN /\ (IsOn(k))' = IsOn(k)
  BY <1>3, <1>5 DEF IsOn, Timer
<1>12. /\ (Enabled(k))' = RunsOn(jobs'[k])
       /\ Enabled(k) = RunsOn(jobs[k])
  BY DEF Enabled
<1>13. ASSUME l = "idle", Synced(k)'  PROVE InSync'
  <2>1. d = NoCall  BY <1>4, <1>13 DEF Turns
  <2> HIDE DEF d, l, a, row, c
  <2> QED  BY <1>8, <1>9, <1>13, <2>1, FitsOver, SyncMove DEF d
<1>14. ASSUME l \in {"install", "reload", "remove"}, c.op # "delete",
              l = "install" => /\ jobs'[k] # Absent /\ a.spec = jobs'[k].spec
                               /\ (a.on \/ IsOn(k)) = RunsOn(jobs'[k]),
              l = "reload" => /\ c.op \in {"pause", "resume"} /\ jobs'[k] # Absent
                              /\ RunsOn(jobs'[k]) = (c.op = "resume")
                              /\ c.op = "resume" => a.on,
              l = "remove" => ~RunsOn(jobs'[k]),
              c.op # "reconcile"
       PROVE  InSync'
  <2> HIDE DEF l, a, row
  <2>1. d.pc = l /\ d.op = c.op /\ d.job = k /\ d.arg = a
    <3> HIDE DEF c, d
    <3> QED  BY <1>1, <1>4, <1>14 DEF Turns, c, d
  <2>2. Behind(p)' /\ call'[p].job = k
    BY <1>14, <2>1 DEF Behind, At
  <2>3. l = "install" => ToInstall(call[p])'
    BY <1>11, <1>14, <2>1 DEF ToInstall, IsOn, Enabled
  <2>4. l = "reload" => ToReload(call[p])'
    BY <1>14, <2>1 DEF ToReload, Enabled
  <2>5. l = "remove" => ToRemove(call[p])'
    BY <1>14, <2>1 DEF ToRemove, Enabled
  <2> HIDE DEF c, d
  <2>6. Fits(p)'
    BY <1>2, <1>3, <1>14, <2>1, <2>3, <2>4, <2>5 DEF Fits, d
  <2> QED  BY <1>8, <1>9, <2>2, <2>6, SyncMove
<1>20. CASE c.op = "create"
  <2>1. /\ jobs'[k] # Absent /\ jobs'[k].enabled = TRUE /\ jobs'[k].spec = c.arg.spec
    BY <1>1, <1>2, <1>20, ChangedRow
  <2>2. l = "install" /\ a = c.arg
    BY <1>7, <1>20 DEF AfterChange, Captured
  <2>3. c.arg.on = TRUE  BY <1>2, <1>5, <1>20 DEF ToUpdate, Timer
  <2> HIDE DEF l, a, c, row
  <2> QED  BY <1>14, <1>20, <2>1, <2>2, <2>3 DEF RunsOn
<1>21. CASE c.op # "create" /\ row = Absent
  <2>1. l = "idle"  BY <1>7, <1>21 DEF AfterChange
  <2>2. jobs'[k] = jobs[k] /\ jobs[k] = Absent
    BY <1>1, <1>2, <1>6, <1>21, ChangedRow
  <2>3. c.op = "delete" => Synced(k)
    BY <1>1, <1>2, <1>11, <2>2 DEF ToUpdate, Synced, Enabled, RunsOn
  <2>4. Synced(k)'  BY <1>3, <1>10, <2>2, <2>3, SyncedStays
  <2> QED  BY <1>13, <2>1, <2>4
<1>22. CASE c.op = "edit" /\ row # Absent
  <2>1. /\ jobs'[k] # Absent /\ jobs'[k].enabled = jobs[k].enabled /\ jobs'[k].spec = c.arg.spec
    BY <1>1, <1>2, <1>6, <1>22, ChangedRow
  <2>2. Front[p] # "tui"  BY <1>2, <1>22 DEF FrontsUse
  <2>3. l = "install" /\ a = [c.arg EXCEPT !.on = row.enabled]
    BY <1>7, <1>22, <2>2 DEF AfterChange, Captured
  <2>4. a.spec = c.arg.spec /\ a.on = jobs[k].enabled
    <3> HIDE DEF c, l, row, a
    <3> QED  BY <1>5, <1>6, <2>3 DEF Timer
  <2>5. IsOn(k) = jobs[k].enabled /\ jobs[k].enabled \in BOOLEAN
    BY <1>5, <1>6, <1>10, <1>22 DEF Synced, Enabled, RunsOn, Job
  <2>6. (a.on \/ IsOn(k)) = RunsOn(jobs'[k])
    BY <2>1, <2>4, <2>5 DEF RunsOn
  <2> HIDE DEF l, a, c, row
  <2> QED  BY <1>14, <1>22, <2>1, <2>3, <2>4, <2>6
<1>23. CASE c.op = "pause" /\ row # Absent
  <2>1. jobs'[k] # Absent /\ RunsOn(jobs'[k]) = FALSE
    BY <1>1, <1>2, <1>6, <1>23, ChangedRow DEF RunsOn
  <2>2. l \in {"reload", "remove"}
    BY <1>7, <1>23 DEF AfterChange
  <2> HIDE DEF l, a, c, row
  <2> QED  BY <1>14, <1>23, <2>1, <2>2
<1>24. CASE c.op = "resume" /\ row # Absent
  <2>1. jobs'[k] # Absent /\ RunsOn(jobs'[k]) = TRUE /\ jobs'[k].spec = jobs[k].spec
    BY <1>1, <1>2, <1>6, <1>24, ChangedRow DEF RunsOn
  <2>2. Front[p] \in {"web", "cli", "tui"}
    BY <1>2, <1>24, JobsAssumption DEF FrontsUse, Fronts
  <2>3. c.arg.on = TRUE /\ (Front[p] = "tui" => c.arg.spec = jobs[k].spec)
    BY <1>1, <1>2, <1>5, <1>24 DEF ToUpdate, Timer
  <2>4. CASE Front[p] = "web"
    <3>1. l = "install" /\ a = [spec |-> row.spec, on |-> TRUE]
      BY <1>7, <1>24, <2>4 DEF AfterChange, Captured
    <3>2. a.spec = jobs'[k].spec /\ a.on = TRUE  BY <1>6, <2>1, <3>1
    <3> HIDE DEF l, a, c, row
    <3> QED  BY <1>14, <1>24, <2>1, <3>1, <3>2
  <2>5. CASE Front[p] # "web"
    <3>1. a = c.arg /\ l = IF Front[p] = "cli" THEN "reload" ELSE "install"
      BY <1>7, <1>24, <2>5 DEF AfterChange, Captured
    <3> HIDE DEF l, a, c, row
    <3> QED  BY <1>14, <1>24, <2>1, <2>2, <2>3, <2>5, <3>1
  <2> QED  BY <2>4, <2>5
<1>25. CASE c.op = "delete" /\ row # Absent
  <2>1. jobs'[k] = Absent  BY <1>1, <1>2, <1>25, ChangedRow
  <2>2. l = "idle"  BY <1>7, <1>25 DEF AfterChange
  <2>3. ~IsOn(k)  BY <1>1, <1>2, <1>25 DEF ToUpdate
  <2>4. Synced(k)'  BY <1>11, <2>1, <2>3 DEF Synced, Enabled, RunsOn
  <2> QED  BY <1>13, <2>2, <2>4
<1>26. c.op \in {"create", "edit", "pause", "resume", "delete"}
  BY <1>2 DEF ToUpdate
<1> HIDE DEF c, row
<1> QED  BY <1>20, <1>21, <1>22, <1>23, <1>24, <1>25, <1>26

(* The commands load the job they have switched, and act on what they see. *)
LEMMA SyncReload ==
  ASSUME CallsShaped, Typed, LockHeld, LockHeld', InSync, NEW p \in Procs, Solo(p), Reload(p)
  PROVE  InSync'
<1> DEFINE c == call[p]
           d == call'[p]
           l == IF c.op = "pause" THEN "remove" ELSE "install"
<1>1. PICK k \in Jobs : k = call[p].job  BY DEF Typed, CallTyped
<1>2. ToReload(c) /\ c.op \in Uses[p] /\ c.pc = "reload"
  BY DEF Reload, InSync, Fits, At
<1>3. UNCHANGED <<jobs, timers, storeLock>> /\ p \notin storeLock
  BY DEF Reload, storeVars, LockHeld, Updating, At
<1>4. jobs[k] # Absent /\ Enabled(k) = (c.op = "resume")
  BY <1>1, <1>2 DEF ToReload
<1>5. Become(p, [call[p] EXCEPT !.pc = l, !.arg.spec = jobs[k].spec])
  BY <1>1, <1>4 DEF Reload
<1>6. Turns(p, l, c.op, c.job, c.snap, [c.arg EXCEPT !.spec = jobs[k].spec], c.todo, c.status)
  <2> HIDE DEF l
  <2> QED  BY <1>5, TurnArg
<1>7. c.arg \in Timer /\ timers[k] \in Timer \cup {NoTimer}
  BY DEF Typed, CallTyped
<1>8. l \in {"remove", "install"} /\ (l = "install" => c.op = "resume")
      /\ (l = "remove" => c.op = "pause")
  BY <1>2 DEF ToReload
<1> HIDE DEF l
<1>9. /\ d.pc = l /\ d.op = c.op /\ d.job = k
      /\ d.arg = [c.arg EXCEPT !.spec = jobs[k].spec]
  <2> HIDE DEF c, d
  <2> QED  BY <1>1, <1>6, <1>8 DEF Turns, c, d
<1>10. d.arg.spec = jobs[k].spec /\ d.arg.on = c.arg.on
  BY <1>7, <1>9 DEF Timer
<1>11. l = "install" => ToInstall(call[p])'
  <2>1. ASSUME l = "install"  PROVE (d.arg.on \/ IsOn(k)) = Enabled(k)
    <3>1. c.arg.on = TRUE  BY <1>2, <1>7, <1>8, <2>1 DEF ToReload, Timer
    <3>2. Enabled(k) = TRUE  BY <1>4, <1>8, <2>1
    <3> QED  BY <1>10, <3>1, <3>2
  <2> QED  BY <1>3, <1>4, <1>9, <1>10, <2>1 DEF ToInstall, IsOn, Enabled
<1>12. l = "remove" => ToRemove(call[p])'
  BY <1>3, <1>4, <1>8, <1>9 DEF ToRemove, Enabled
<1>13. Fits(p)'
  BY <1>2, <1>3, <1>8, <1>9, <1>11, <1>12 DEF Fits
<1>14. Behind(p)' /\ call'[p].job = k
  BY <1>8, <1>9 DEF Behind, At
<1>15. \A j \in Jobs \ {k} : Synced(j)'
  BY <1>1, <1>3, SyncedBut, SyncedStays
<1>16. \A q \in Procs \ {p} : call'[q] = call[q]  BY <1>6 DEF Turns
<1> QED  BY <1>13, <1>14, <1>15, <1>16, SyncMove

(* Install sets the timer of its job right.                                *)
LEMMA SyncInstall ==
  ASSUME CallsShaped, Typed, LockHeld, LockHeld', InSync, NEW p \in Procs, Solo(p), Install(p)
  PROVE  InSync'
<1> DEFINE c == call[p]
           l == IF WritesBack(p) THEN "record" ELSE "idle"
<1>1. PICK k \in Jobs : k = call[p].job  BY DEF Typed, CallTyped
<1>2. ToInstall(c) /\ c.op \in Uses[p] /\ c.pc = "install"
      /\ (c.op = "reconcile" => ToDo(c.todo))
  BY DEF Install, InSync, Fits, At
<1>3. UNCHANGED <<jobs, storeLock>> /\ p \notin storeLock
  BY DEF Install, storeVars, LockHeld, Updating, At
<1>4. timers \in [Jobs -> Timer \cup {NoTimer}] /\ c.arg \in Timer
  BY DEF Typed, CallTyped
<1>5. /\ \A j \in Jobs \ {k} : timers'[j] = timers[j]
      /\ timers'[k] = [spec |-> c.arg.spec, on |-> c.arg.on \/ IsOn(k)]
  BY <1>1, <1>4 DEF Install, SetTimer
<1>6. timers'[k].spec = c.arg.spec /\ timers'[k].on = (c.arg.on \/ IsOn(k)) /\ timers'[k] # NoTimer
  <2>1. IsOn(k) \in BOOLEAN /\ c.arg.on \in BOOLEAN /\ c.arg.spec \in Specs
    BY <1>4 DEF IsOn, Timer
  <2>2. timers'[k] \in Timer  BY <1>5, <2>1 DEF Timer
  <2> QED  BY <1>5, <2>2, AbsenceAssumption
<1>7. Synced(k)'
  <2>1. /\ (IsOn(k))' = (c.arg.on \/ IsOn(k)) /\ (Enabled(k))' = Enabled(k)
        /\ timers'[k].spec = jobs'[k].spec
    BY <1>1, <1>2, <1>3, <1>6 DEF IsOn, Enabled, ToInstall
  <2>2. (c.arg.on \/ IsOn(k)) = Enabled(k)  BY <1>1, <1>2 DEF ToInstall
  <2> QED  BY <2>1, <2>2 DEF Synced
<1>8. \A j \in Jobs \ {k} : Synced(j)'
  BY <1>1, <1>3, <1>5, SyncedBut, SyncedStays
<1>9. Turns(p, l, c.op, c.job, c.snap, c.arg, c.todo, c.status)
  BY TurnGoto DEF Install
<1>10. \A q \in Procs \ {p} : call'[q] = call[q]  BY <1>9 DEF Turns
<1>11. l \in {"record", "idle"}  OBVIOUS
<1> HIDE DEF l, c
<1>12. Fits(p)'
  <2>1. CASE l = "idle"  BY <1>9, <2>1, FitsOver DEF Turns
  <2>2. CASE l = "record"
    <3>1. call'[p].pc = "record" /\ call'[p].op = c.op /\ call'[p].todo = c.todo
      BY <1>9, <2>2 DEF Turns
    <3>2. c.op = "reconcile" => ToDo(call[p].todo)'
      BY <1>2, <1>3, <3>1 DEF ToDo, Enabled
    <3> QED  BY <1>2, <1>3, <3>1, <3>2 DEF Fits
  <2> QED  BY <1>11, <2>1, <2>2
<1> QED  BY <1>7, <1>8, <1>10, <1>12, SyncMove

(* Remove leaves no timer: its job is not enabled, or will go now.         *)
LEMMA SyncRemove ==
  ASSUME CallsShaped, PcInv, Typed, FrontsUse, LockHeld, LockHeld', InSync, NEW p \in Procs,
         Solo(p), Remove(p)
  PROVE  InSync'
<1> DEFINE c == call[p]
           d == call'[p]
           l == AfterRemove(p, IF Front[p] = "web" THEN "idle" ELSE "record")
           moved == [call[p] EXCEPT !.pc = l]
<1>1. PICK k \in Jobs : k = call[p].job  BY DEF Typed, CallTyped
<1>2. ToRemove(c) /\ c.op \in Uses[p] /\ c.pc = "remove"
      /\ (c.op = "reconcile" => ToDo(c.todo))
  BY DEF Remove, InSync, Fits, At
<1>3. PICK S : /\ Die(S, With(p, moved))
               /\ S \subseteq {q \in Procs : Front[q] = "os" /\ ~At(q, "idle")}
  BY DEF Remove, Removing
<1>4. S = {}
  <2>1. c.op # "run"  BY <1>2 DEF PcInv, Placed, RunPcs, Checked
  <2>2. Front[p] # "os"  BY <1>2, <2>1 DEF FrontsUse
  <2> QED  BY <1>3, <2>2 DEF Solo
<1>5. \A q \in Procs : call'[q] = With(p, moved)[q]
  BY <1>3, <1>4 DEF Die
<1>6. \A q \in Procs \ {p} : call'[q] = call[q]
  BY <1>5 DEF With, CallsShaped
<1>7. IF l = "idle" THEN d = NoCall ELSE d.pc = l /\ d.op = c.op /\ d.job = c.job /\ d.todo = c.todo
  <2>1. d = With(p, moved)[p]  BY <1>5
  <2> HIDE DEF l, d
  <2> QED  BY <2>1, WithTurn
<1>8. jobs' = jobs /\ p \notin storeLock'
  BY <1>2, <1>3 DEF Die, LockHeld, Updating
<1>9. timers \in [Jobs -> Timer \cup {NoTimer}]  BY DEF Typed
<1>10. /\ timers'[k] = NoTimer
       /\ \A j \in Jobs \ {k} : timers'[j] = timers[j]
  BY <1>1, <1>9 DEF Remove
<1>11. \A j \in Jobs \ {k} : Synced(j)'
  BY <1>1, <1>8, <1>10, SyncedBut, SyncedStays
<1>12. (IsOn(k))' = FALSE  BY <1>10 DEF IsOn
<1>13. (Enabled(k))' = Enabled(k)  BY <1>8 DEF Enabled
<1>14. CASE c.op = "delete"
  <2>1. l = "update"  BY <1>14 DEF AfterRemove
  <2> HIDE DEF l, c, d
  <2>2. d.pc = "update" /\ d.op = "delete" /\ d.job = k
    BY <1>1, <1>7, <1>14, <2>1 DEF c
  <2>3. Behind(p)' /\ call'[p].job = k  BY <2>2 DEF Behind, At, d
  <2>4. ToUpdate(p, call[p])'  BY <1>12, <2>2 DEF ToUpdate, d
  <2>5. Fits(p)'  BY <1>2, <1>8, <1>14, <2>2, <2>4 DEF Fits, d
  <2> QED  BY <1>6, <1>11, <2>3, <2>5, SyncMove
<1>15. CASE c.op # "delete"
  <2>1. ~Enabled(k)  BY <1>1, <1>2, <1>15 DEF ToRemove
  <2>2. Enabled(k) = FALSE
    <3>1. jobs[k] \in Job \cup {Absent}  BY DEF Typed, Rows
    <3> QED  BY <2>1, <3>1 DEF Enabled, RunsOn, Job
  <2>3. Synced(k)'  BY <1>12, <1>13, <2>2 DEF Synced
  <2>4. /\ l \in {"next", "idle", "record"}
        /\ l = "next" => c.op = "reconcile"
    BY <1>15 DEF AfterRemove
  <2> HIDE DEF l, c, d
  <2>5. Fits(p)'
    <3>1. CASE l = "idle"  BY <1>7, <3>1, FitsOver DEF d
    <3>2. CASE l # "idle"
      <4>1. d.pc = l /\ d.op = c.op /\ d.todo = c.todo  BY <1>7, <3>2
      <4>2. c.op = "reconcile" => ToDo(call[p].todo)'
        BY <1>2, <1>8, <4>1 DEF ToDo, Enabled, d
      <4> QED  BY <1>2, <1>8, <2>4, <3>2, <4>1, <4>2 DEF Fits, d
    <3> QED  BY <3>1, <3>2
  <2> QED  BY <1>6, <1>11, <2>3, <2>5, SyncMove
<1> QED  BY <1>14, <1>15

(* What a reconciliation wants done agrees with the jobs it has loaded.    *)
LEMMA WantedFits ==
  ASSUME jobs \in Rows  PROVE ToDo(Wanted(jobs, TRUE))
<1>1. ASSUME NEW b \in Wanted(jobs, TRUE)
      PROVE  IF b.kind = "install" THEN Enabled(b.job) /\ b.spec = jobs[b.job].spec
                                   ELSE ~Enabled(b.job)
  BY DEF Wanted, Enabled, RunsOn
<1> QED  BY <1>1 DEF ToDo

(* A reconciliation, from its snapshot                                     *)
LEMMA SyncList ==
  ASSUME CallsShaped, Typed, LockHeld, LockHeld', InSync, NEW p \in Procs, Solo(p),
         LoadSnapshot(p) \/ ListTimers(p, TRUE)
  PROVE  InSync'
<1> DEFINE c == call[p]
           d == call'[p]
<1>1. c.pc \in {"load", "list"} /\ c.op \in Uses[p] /\ (c.pc = "list" => c.snap = jobs)
  BY DEF LoadSnapshot, ListTimers, InSync, Fits, At
<1>2. UNCHANGED <<jobs, timers, storeLock>> /\ p \notin storeLock
  BY <1>1 DEF LoadSnapshot, ListTimers, storeVars, LockHeld, Updating
<1>3. \A j \in Jobs : Synced(j)'
  <2>1. ~Behind(p)  BY <1>1 DEF Behind, At
  <2> QED  BY <1>2, <2>1, SyncedBut, SyncedStays
<1>4. PICK k \in Jobs : TRUE  BY JobsAssumption
<1>5. CASE LoadSnapshot(p)
  <2>1. Turns(p, "list", c.op, c.job, jobs, c.arg, c.todo, c.status)
    BY <1>5, TurnLoad
  <2> HIDE DEF c
  <2>2. d.pc = "list" /\ d.op = c.op /\ d.snap = jobs  BY <2>1 DEF Turns
  <2>3. Fits(p)'  BY <1>1, <1>2, <2>2 DEF Fits
  <2>4. \A q \in Procs \ {p} : call'[q] = call[q]  BY <2>1 DEF Turns
  <2> QED  BY <1>3, <2>3, <2>4, SyncMove
<1>6. CASE ListTimers(p, TRUE)
  <2> DEFINE t == Wanted(c.snap, TRUE)
  <2>1. Turns(p, "next", c.op, c.job, NoCall.snap, c.arg, t, c.status)
    BY <1>6, TurnList
  <2>2. ToDo(t)
    <3>1. c.snap = jobs /\ jobs \in Rows  BY <1>1, <1>6 DEF ListTimers, At, Typed
    <3> QED  BY <3>1, WantedFits
  <2> HIDE DEF c, t
  <2>3. d.pc = "next" /\ d.op = c.op /\ d.todo = t  BY <2>1 DEF Turns
  <2>4. ToDo(call[p].todo)'  BY <1>2, <2>2, <2>3 DEF ToDo, Enabled
  <2>5. Fits(p)'  BY <1>1, <1>2, <2>3, <2>4 DEF Fits
  <2>6. \A q \in Procs \ {p} : call'[q] = call[q]  BY <2>1 DEF Turns
  <2> QED  BY <1>3, <2>5, <2>6, SyncMove
<1> QED  BY <1>5, <1>6

(* to its last action.                                                     *)
LEMMA SyncNext ==
  ASSUME CallsShaped, PcInv, Typed, LockHeld, LockHeld', InSync, NEW p \in Procs, Solo(p),
         NextAction(p)
  PROVE  InSync'
<1> DEFINE c == call[p]
           d == call'[p]
<1>1. PICK x \in c.todo :
        Become(p, [call[p] EXCEPT !.pc = IF x.kind = "install" THEN "install" ELSE "remove",
                                  !.job = x.job, !.arg.spec = x.spec, !.todo = @ \ {x}])
  BY DEF NextAction
<1>2. c.pc = "next" /\ c.op = "reconcile" /\ c.op \in Uses[p] /\ ToDo(c.todo)
  BY DEF NextAction, At, PcInv, Placed, InSync, Fits
<1>3. UNCHANGED <<jobs, timers, storeLock>> /\ p \notin storeLock
  BY <1>2 DEF NextAction, storeVars, LockHeld, Updating
<1> DEFINE l == IF x.kind = "install" THEN "install" ELSE "remove"
           t == c.todo \ {x}
           a == [c.arg EXCEPT !.spec = x.spec]
<1>4. Turns(p, l, c.op, x.job, c.snap, a, t, c.status)
  BY <1>1, TurnNext
<1>5. x.job \in Jobs /\ x.spec \in Specs /\ c.arg \in Timer /\ jobs[x.job] \in Job \cup {Absent}
  BY DEF Typed, CallTyped, Action, Rows
<1>6. a.spec = x.spec /\ a.on = c.arg.on /\ a.on \in BOOLEAN
  BY <1>5 DEF Timer
<1>7. \A j \in Jobs : Synced(j)
  <2>1. ~Behind(p)  BY <1>2 DEF Behind, At
  <2> QED  BY <2>1, SyncedBut
<1>8. l \in {"install", "remove"} /\ (l = "install") = (x.kind = "install")  OBVIOUS
<1>9. IF l = "install" THEN Enabled(x.job) /\ x.spec = jobs[x.job].spec ELSE ~Enabled(x.job)
  BY <1>2 DEF ToDo
<1>10. l = "install" => jobs[x.job] # Absent /\ (a.on \/ IsOn(x.job)) = Enabled(x.job)
  <2>1. ASSUME l = "install"  PROVE jobs[x.job] # Absent /\ (a.on \/ IsOn(x.job)) = Enabled(x.job)
    <3>1. Enabled(x.job) /\ jobs[x.job] # Absent  BY <1>9, <2>1 DEF Enabled, RunsOn
    <3>2. Enabled(x.job) \in BOOLEAN  BY <1>5 DEF Enabled, RunsOn, Job
    <3>3. IsOn(x.job) = Enabled(x.job)  BY <1>5, <1>7 DEF Synced
    <3> HIDE DEF a
    <3> QED  BY <1>6, <3>1, <3>2, <3>3
  <2> QED  BY <2>1
<1>11. ToDo(t)  BY <1>2 DEF ToDo
<1> HIDE DEF l, t, a, c
<1>12. d.pc = l /\ d.op = "reconcile" /\ d.job = x.job /\ d.arg = a /\ d.todo = t
  BY <1>2, <1>4, <1>8 DEF Turns
<1>13. l = "install" => ToInstall(call[p])'
  BY <1>3, <1>6, <1>9, <1>10, <1>12 DEF ToInstall, Enabled, IsOn
<1>14. l = "remove" => ToRemove(call[p])'
  BY <1>3, <1>9, <1>12 DEF ToRemove, Enabled
<1>15. ToDo(call[p].todo)'
  BY <1>3, <1>11, <1>12 DEF ToDo, Enabled
<1>16. Fits(p)'
  BY <1>2, <1>3, <1>8, <1>12, <1>13, <1>14, <1>15 DEF Fits
<1>17. \A j \in Jobs : Synced(j)'
  BY <1>3, <1>7, SyncedStays
<1>18. \A q \in Procs \ {p} : call'[q] = call[q]  BY <1>4 DEF Turns
<1> QED  BY <1>5, <1>16, <1>17, <1>18, SyncMove

(* A run leaves the timers, except that it repairs its own job's.          *)
LEMMA SyncRepair ==
  ASSUME CallsShaped, PcInv, Typed, LockHeld, LockHeld', InSync, NEW p \in Procs, Solo(p),
         SelfRepair(p)
  PROVE  InSync'
<1> DEFINE c == call[p]
           d == call'[p]
<1>1. PICK k \in Jobs : k = call[p].job  BY DEF Typed, CallTyped
<1>2. c.pc = "repair" /\ c.op = "run" /\ c.op \in Uses[p]
  BY DEF SelfRepair, At, PcInv, Placed, ChangePcs, InSync, Fits
<1>3. UNCHANGED <<jobs, timers, storeLock>> /\ p \notin storeLock
  BY <1>2 DEF SelfRepair, storeVars, LockHeld, Updating
<1>4. ~Behind(p)  BY <1>2 DEF Behind, At
<1>5. CASE Goto(p, "start")
  <2>1. Turns(p, "start", c.op, c.job, c.snap, c.arg, c.todo, c.status)
    BY <1>5, TurnGoto
  <2>2. "start" \in Plain \cup {"idle"} /\ ~At(p, "idle")  BY <1>2 DEF Plain, At
  <2> QED  BY <1>3, <1>4, <2>1, <2>2, PlainMove
<1>6. CASE RunsOn(jobs[k]) /\ Become(p, [call[p] EXCEPT !.pc = "install", !.arg.spec = jobs[k].spec])
  <2>1. Turns(p, "install", c.op, c.job, c.snap, [c.arg EXCEPT !.spec = jobs[k].spec], c.todo,
              c.status)
    BY <1>6, TurnArg
  <2>2. c.arg \in Timer /\ jobs[k] \in Job \cup {Absent}  BY DEF Typed, CallTyped, Rows
  <2> HIDE DEF c
  <2>3. /\ d.pc = "install" /\ d.op = "run" /\ d.job = k
        /\ d.arg = [c.arg EXCEPT !.spec = jobs[k].spec]
    BY <1>1, <1>2, <2>1 DEF Turns, c
  <2>4. d.arg.spec = jobs[k].spec /\ d.arg.on \in BOOLEAN
    BY <2>2, <2>3 DEF Timer
  <2>5. (d.arg.on \/ IsOn(k)) = Enabled(k)
    <3>1. Enabled(k) \in BOOLEAN  BY <2>2 DEF Enabled, RunsOn, Job
    <3>2. Enabled(k) = TRUE  BY <1>6, <3>1 DEF Enabled
    <3>3. IsOn(k) = Enabled(k)  BY <1>4, SyncedBut DEF Synced
    <3> QED  BY <2>4, <3>2, <3>3
  <2>6. jobs[k] # Absent  BY <1>6 DEF RunsOn
  <2>7. ToInstall(call[p])'
    BY <1>3, <2>3, <2>4, <2>5, <2>6 DEF ToInstall, Enabled, IsOn
  <2>8. Fits(p)'  BY <1>2, <1>3, <2>3, <2>7 DEF Fits
  <2>9. \A j \in Jobs : Synced(j)'  BY <1>3, <1>4, SyncedBut, SyncedStays
  <2>10. \A q \in Procs \ {p} : call'[q] = call[q]  BY <2>1 DEF Turns
  <2> QED  BY <2>8, <2>9, <2>10, SyncMove
<1> QED  BY <1>1, <1>5, <1>6 DEF SelfRepair

(* The other steps of a run, and the end of a reconciliation.              *)
LEMMA SyncRun ==
  ASSUME CallsShaped, PcInv, Typed, LockHeld, LockHeld', InSync, NEW p \in Procs, Solo(p),
         \/ LoadJob(p) \/ EndReconcile(p) \/ FindJob(p) \/ BeginRun(p) \/ Claim(p)
         \/ \E st \in Outcomes, r \in BOOLEAN : EndSession(p, st, r)
         \/ AppendRun(p) \/ Prune(p) \/ Rewrite(p) \/ Release(p)
  PROVE  InSync'
<1> DEFINE c == call[p]
<1>1. /\ c.pc \in {"load", "next", "find", "start", "claim", "session", "append", "trace",
                   "prune", "rewrite", "release"}
      /\ UNCHANGED <<jobs, timers, storeLock>>
  BY DEF LoadJob, EndReconcile, FindJob, BeginRun, Claim, EndSession, AppendRun, Prune, Rewrite,
         Release, At, storeVars
<1>2. /\ ~Behind(p) /\ ~At(p, "idle") /\ p \notin storeLock'
  BY <1>1 DEF Behind, At, LockHeld, Updating
<1>3. \E l \in Plain \cup {"idle"} : \E st : Turns(p, l, c.op, c.job, c.snap, c.arg, c.todo, st)
  <2> USE DEF Plain
  <2>1. ASSUME NEW l \in Plain \cup {"idle"}, Goto(p, l) \/ NewRecord(p, l)
        PROVE  Turns(p, l, c.op, c.job, c.snap, c.arg, c.todo, c.status)
    BY <2>1, TurnGoto, TurnRecord
  <2>2. CASE LoadJob(p) \/ EndReconcile(p) \/ FindJob(p) \/ BeginRun(p) \/ Claim(p) \/ Release(p)
    <3>1. \E l \in {"repair", "trace", "idle", "load", "claim", "session"} :
             Goto(p, l) \/ NewRecord(p, l)
      BY <2>2 DEF LoadJob, EndReconcile, FindJob, BeginRun, Claim, Release
    <3> QED  BY <2>1, <3>1
  <2>3. ASSUME NEW st \in Outcomes, NEW r \in BOOLEAN, EndSession(p, st, r)
        PROVE  \E l \in Plain : Turns(p, l, c.op, c.job, c.snap, c.arg, c.todo, st)
    <3>1. Turns(p, IF r THEN "report" ELSE "append", c.op, c.job, c.snap, c.arg, c.todo, st)
      BY <2>3, TurnEnd
    <3> HIDE DEF c
    <3> QED  BY <3>1
  <2>4. ASSUME AppendRun(p)
        PROVE  \E l \in Plain \cup {"idle"} : \E st : Turns(p, l, c.op, c.job, c.snap, c.arg,
                                                            c.todo, st)
    <3> DEFINE l == IF c.pc = "append" THEN "prune" ELSE "idle"
    <3>1. Turns(p, l, c.op, c.job, c.snap, c.arg, c.todo, NoCall.status)
      BY <2>4, TurnAppend
    <3>2. l \in Plain \cup {"idle"}  OBVIOUS
    <3> HIDE DEF c, l
    <3> QED  BY <3>1, <3>2
  <2>5. CASE Prune(p) \/ Rewrite(p)
    <3>1. \/ Goto(p, "release")
          \/ \E l \in {"rewrite", "release"} : \E k : Become(p, [call[p] EXCEPT !.pc = l, !.kept = k])
      BY <2>5 DEF Prune, Rewrite
    <3>2. ASSUME NEW l \in {"rewrite", "release"}, NEW k,
                 Become(p, [call[p] EXCEPT !.pc = l, !.kept = k])
          PROVE  Turns(p, l, c.op, c.job, c.snap, c.arg, c.todo, c.status)
      BY <3>2, TurnKept
    <3> HIDE DEF c
    <3> QED  BY <2>1, <3>1, <3>2
  <2> HIDE DEF c
  <2> QED  BY <2>2, <2>3, <2>4, <2>5
<1>4. PICK l \in Plain \cup {"idle"} : \E st : Turns(p, l, c.op, c.job, c.snap, c.arg, c.todo, st)
  BY <1>3
<1> QED  BY <1>1, <1>2, <1>4, PlainMove

(* Whatever works leaves everything in sync when nobody else is in a call. *)
LEMMA SyncStep ==
  ASSUME CallsShaped, PcInv, Typed, FrontsUse, LockHeld, LockHeld', InSync, NEW p \in Procs,
         Solo(p), Works(p)
  PROVE  InSync'
<1>1. CASE Starts(p)  BY <1>1, SyncStart
<1>2. CASE LockStore(p)  BY <1>2, SyncLock
<1>3. CASE SaveStore(p)
  <2>1. call[p].pc \in {"update", "record", "report"}  BY <1>3 DEF SaveStore, Updating
  <2> QED  BY <1>3, <2>1, SyncChange, SyncMark
<1>4. CASE Reload(p)  BY <1>4, SyncReload
<1>5. CASE Install(p)  BY <1>5, SyncInstall
<1>6. CASE Remove(p)  BY <1>6, SyncRemove
<1>7. CASE LoadSnapshot(p) \/ ListTimers(p, TRUE)  BY <1>7, SyncList
<1>8. CASE NextAction(p)  BY <1>8, SyncNext
<1>9. CASE SelfRepair(p)  BY <1>9, SyncRepair
<1>10. CASE \/ LoadJob(p) \/ EndReconcile(p) \/ FindJob(p) \/ BeginRun(p) \/ Claim(p)
            \/ \E st \in Outcomes, r \in BOOLEAN : EndSession(p, st, r)
            \/ AppendRun(p) \/ Prune(p) \/ Rewrite(p) \/ Release(p)
  BY <1>10, SyncRun
<1> QED  BY <1>1, <1>2, <1>3, <1>4, <1>5, <1>6, <1>7, <1>8, <1>9, <1>10, WorksAt

(* There are no jobs and no timers at first.                               *)
LEMMA SyncInit == Init => InSync
<1>1. Init => \A p \in Procs : call[p] = NoCall /\ storeLock = {}
  BY DEF Init
<1>2. Init => \A j \in Jobs : Synced(j)
  BY DEF Init, Synced, IsOn, Enabled, RunsOn
<1> QED  BY <1>1, <1>2, NoCallShape DEF InSync, OneCall, Fits, At

(* As long as nothing fails and no two calls overlap, the timers are those *)
(* of the enabled jobs, with their schedules, after any sequence of        *)
(* creations, edits, pauses, resumptions, deletions, reconciliations and   *)
(* runs from any fronts, of any jobs, each of which decides anew what to   *)
(* install, what to remove and what to record.  An edit in the list is     *)
(* excepted: applyJobEdit installs the timer of a paused job switched on.  *)
THEOREM TimersFollowJobs_always ==
  ASSUME FrontsUse  PROVE Spec => []TimersFollowJobs
<1> DEFINE Base == CallsShaped /\ PcInv /\ Typed /\ LockHeld
<1>1. Base /\ TidyInv => TimersFollowJobs
  <2>1. ASSUME InSync, \A p \in Procs : At(p, "idle"), NEW j \in Jobs
        PROVE  IsOn(j) = Enabled(j) /\ (Enabled(j) => timers[j].spec = jobs[j].spec)
    <3>1. ~\E p \in Procs : Behind(p)  BY <2>1 DEF Behind, At
    <3> QED  BY <2>1, <3>1 DEF InSync, Synced
  <2> QED  BY <2>1 DEF TimersFollowJobs, TidyInv
<1>2. Init => Base /\ TidyInv
  BY InitInv, InitTyped, SyncInit DEF Init, LockHeld, TidyInv
<1>3. ASSUME Base, TidyInv, [Next]_vars  PROVE Base' /\ TidyInv'
  <2>1. Base'  BY <1>3, StepInv, TypedStep, HeldStep
  <2>2. CASE UNCHANGED vars
    <3>1. InSync => InSync'
      <4>1. UNCHANGED <<jobs, timers, storeLock, call>>  BY <2>2 DEF vars
      <4>2. \A j : Synced(j)' = Synced(j)  BY <4>1 DEF Synced, IsOn, Enabled
      <4>3. \A p : Behind(p)' = Behind(p) /\ At(p, "idle")' = At(p, "idle")
        BY <4>1 DEF Behind, At
      <4>4. \A p : Fits(p) => Fits(p)'
        BY <4>1 DEF Fits, IsOn, Enabled, ToUpdate, ToReload, ToInstall, ToRemove, ToDo
      <4> QED  BY <4>1, <4>2, <4>3, <4>4 DEF InSync, OneCall
    <3> QED  BY <1>3, <2>1, <2>2, <3>1 DEF vars, TidyInv
  <2>3. ASSUME NEW p \in Procs, Works(p), Note(p, TRUE)  PROVE TidyInv'
    <3>1. ASSUME tidy'  PROVE InSync'
      <4>1. tidy /\ Solo(p)  BY <2>3, <3>1 DEF Note, Solo
      <4> QED  BY <1>3, <2>1, <2>3, <4>1, SyncStep DEF TidyInv
    <3> QED  BY <3>1 DEF TidyInv
  <2>4. ASSUME NEW p \in Procs, Note(p, FALSE)  PROVE TidyInv'
    BY <2>4 DEF Note, TidyInv
  <2> QED  BY <1>3, <2>1, <2>2, <2>3, <2>4 DEF Next
<1> HIDE DEF Base
<1> QED  BY <1>1, <1>2, <1>3, PTL DEF Spec
-----------------------------------------------------------------------------
(***************************************************************************)
(* The sort of ReadAll.  Its records are all different, because each gets  *)
(* a time of its own; so there is a place for each: the number of records  *)
(* that are not older.                                                     *)
(***************************************************************************)
Distinct(f) == \A i, k \in 1 .. Len(f) : f[i] = f[k] => i = k

(* A file of n records has n places.                                       *)
LEMMA Places == ASSUME NEW n \in Nat  PROVE IsFiniteSet(1 .. n) /\ Cardinality(1 .. n) = n
<1>1. IsFiniteSet(1 .. n) /\ Cardinality(1 .. n) = IF 1 > n THEN 0 ELSE n - 1 + 1
  BY FS_Interval
<1> QED  BY <1>1

(* The file of such records, and how many there are.                       *)
LEMMA DistinctCount ==
  ASSUME NEW f \in Seq(Nat), Distinct(f)
  PROVE  /\ Elements(f) \subseteq Nat /\ IsFiniteSet(Elements(f))
         /\ Cardinality(Elements(f)) = Len(f)
<1> DEFINE n == Len(f)
           S == Elements(f)
           h == [i \in 1 .. n |-> f[i]]
<1>1. n \in Nat /\ \A i \in 1 .. n : f[i] \in Nat  OBVIOUS
<1>2. IsFiniteSet(1 .. n) /\ Cardinality(1 .. n) = n  BY <1>1, Places
<1>3. h \in Bijection(1 .. n, S)
  <2>1. h \in [1 .. n -> S]  BY DEF Elements
  <2>2. \A i, k \in 1 .. n : h[i] = h[k] => i = k  BY DEF Distinct
  <2>3. \A s \in S : \E i \in 1 .. n : h[i] = s  BY DEF Elements
  <2> HIDE DEF h, S, n
  <2> QED  BY <2>1, <2>2, <2>3, Fun_IsBij
<1>4. ExistsBijection(1 .. n, S)  BY <1>3 DEF ExistsBijection
<1>5. IsFiniteSet(S) /\ Cardinality(S) = n  BY <1>2, <1>4, FS_Bijection
<1>6. S \subseteq Nat  BY <1>1 DEF Elements
<1> QED  BY <1>5, <1>6

(* What readAll returns: the records of the file, most recent first.       *)
LEMMA ReadAllSorts ==
  ASSUME NEW f \in Seq(Nat), Distinct(f)
  PROVE  /\ ReadAll(f) \in [1 .. Len(f) -> Elements(f)]
         /\ \A i, k \in 1 .. Len(f) : i < k => ReadAll(f)[i] > ReadAll(f)[k]
<1> DEFINE n == Len(f)
           S == Elements(f)
           Above(s) == {t \in S : t >= s}
           rank == [s \in S |-> Cardinality(Above(s))]
           g == [i \in 1 .. n |-> CHOOSE s \in S : rank[s] = i]
<1>1. n \in Nat /\ S \subseteq Nat /\ IsFiniteSet(S) /\ Cardinality(S) = n
  BY DistinctCount
<1> HIDE DEF n, S
<1>2. \A s \in S : /\ Above(s) \subseteq S /\ IsFiniteSet(Above(s))
                   /\ Cardinality(Above(s)) \in Nat /\ Cardinality(Above(s)) <= n
                   /\ s \in Above(s)
  <2>1. ASSUME NEW s \in S
        PROVE  /\ IsFiniteSet(Above(s)) /\ Cardinality(Above(s)) \in Nat
               /\ Cardinality(Above(s)) <= n
    <3>1. Above(s) \in SUBSET S  OBVIOUS
    <3> HIDE DEF Above
    <3>2. IsFiniteSet(Above(s)) /\ Cardinality(Above(s)) <= n  BY <1>1, <3>1, FS_Subset
    <3> QED  BY <3>2, FS_CardinalityType
  <2> QED  BY <1>1, <2>1
<1>3. \A s, t \in S : s < t => Cardinality(Above(t)) < Cardinality(Above(s))
  <2>1. ASSUME NEW s \in S, NEW t \in S, s < t
        PROVE  Cardinality(Above(t)) < Cardinality(Above(s))
    <3>1. Above(t) \in SUBSET Above(s) /\ s \notin Above(t)
      <4>1. s \in Nat /\ t \in Nat  BY <1>1
      <4>2. \A x \in S : x >= t => x >= s  BY <1>1, <2>1, <4>1
      <4>3. ~(s >= t)  BY <2>1, <4>1
      <4> QED  BY <4>2, <4>3
    <3>2. s \in Above(s) /\ IsFiniteSet(Above(s)) /\ Cardinality(Above(s)) \in Nat
          /\ Cardinality(Above(t)) \in Nat
      BY <1>2
    <3> HIDE DEF Above
    <3>3. Cardinality(Above(t)) <= Cardinality(Above(s))
          /\ Cardinality(Above(s)) # Cardinality(Above(t))
      BY <3>1, <3>2, FS_Subset
    <3> QED  BY <3>2, <3>3
  <2> QED  BY <2>1
<1>4. rank \in Injection(S, 1 .. n)
  <2>1. \A s \in S : Cardinality(Above(s)) \in 1 .. n
    <3>1. ASSUME NEW s \in S  PROVE Cardinality(Above(s)) # 0
      <4>1. IsFiniteSet(Above(s)) /\ Above(s) # {}  BY <1>2
      <4> HIDE DEF Above
      <4> QED  BY <4>1, FS_EmptySet
    <3> HIDE DEF Above
    <3> QED  BY <1>1, <1>2, <3>1
  <2>2. rank \in [S -> 1 .. n]
    <3> HIDE DEF Above
    <3> QED  BY <2>1
  <2>3. \A s, t \in S : rank[s] = rank[t] => s = t
    <3> HIDE DEF Above
    <3>1. \A s, t \in S : s < t \/ t < s \/ s = t  BY <1>1
    <3> QED  BY <1>2, <1>3, <3>1
  <2> HIDE DEF rank
  <2> QED  BY <2>2, <2>3, Fun_IsInj
<1>5. \A i \in 1 .. n : \E s \in S : rank[s] = i
  <2>1. IsFiniteSet(1 .. n) /\ Cardinality(1 .. n) = n  BY <1>1, Places
  <2> HIDE DEF rank
  <2>2. rank \in Surjection(S, 1 .. n)
    BY <1>1, <1>4, <2>1, FS_Injection
  <2> QED  BY <2>2 DEF Surjection
<1>6. \A i \in 1 .. n : g[i] \in S /\ rank[g[i]] = i
  <2> HIDE DEF rank
  <2> QED  BY <1>5
<1>7. \A i, k \in 1 .. n : i < k => g[i] > g[k]
  <2>1. \A i \in 1 .. n : g[i] \in S /\ g[i] \in Nat /\ Cardinality(Above(g[i])) = i
    <3> HIDE DEF Above, g
    <3> QED  BY <1>1, <1>6
  <2> HIDE DEF g, rank, Above
  <2>2. ASSUME NEW i \in 1 .. n, NEW k \in 1 .. n, i < k, ~(g[i] > g[k])  PROVE FALSE
    <3>1. g[i] < g[k] \/ g[i] = g[k]  BY <2>1, <2>2
    <3>2. k < i \/ k = i  BY <1>3, <2>1, <3>1
    <3> QED  BY <2>2, <3>2
  <2> QED  BY <2>2
<1>8. g \in [1 .. n -> S]
  <2> HIDE DEF rank
  <2> QED  BY <1>6
<1> HIDE DEF g, rank, Above
<1>9. \E x \in [1 .. n -> S] : \A i, k \in 1 .. n : i < k => x[i] > x[k]
  BY <1>7, <1>8
<1> QED  BY <1>9 DEF ReadAll, n, S

(* It leaves out none.                                                     *)
LEMMA ReadAllReads ==
  ASSUME NEW f \in Seq(Nat), Distinct(f)
  PROVE  /\ ReadAll(f) \in Seq(Nat) /\ Len(ReadAll(f)) = Len(f)
         /\ \A i \in 1 .. Len(f) : ReadAll(f)[i] \in Elements(f)
         /\ \A i, k \in 1 .. Len(f) : i < k => ReadAll(f)[i] > ReadAll(f)[k]
         /\ \A r \in Elements(f) : \E i \in 1 .. Len(f) : ReadAll(f)[i] = r
<1> DEFINE n == Len(f)
           S == Elements(f)
           g == ReadAll(f)
<1>1. n \in Nat /\ S \subseteq Nat /\ IsFiniteSet(S) /\ Cardinality(S) = n
  BY DistinctCount
<1>2. g \in [1 .. n -> S] /\ \A i, k \in 1 .. n : i < k => g[i] > g[k]
  BY ReadAllSorts
<1> HIDE DEF n, S, g
<1>3. IsFiniteSet(1 .. n) /\ Cardinality(1 .. n) = n  BY <1>1, Places
<1>4. g \in Injection(1 .. n, S)
  <2>1. \A i, k \in 1 .. n : g[i] = g[k] => i = k
    <3>1. \A i \in 1 .. n : g[i] \in Nat  BY <1>1, <1>2
    <3>2. \A i, k \in 1 .. n : i < k \/ k < i \/ i = k  BY <1>1
    <3> QED  BY <1>2, <3>1, <3>2
  <2> QED  BY <1>2, <2>1, Fun_IsInj
<1>5. g \in Surjection(1 .. n, S)  BY <1>1, <1>3, <1>4, FS_Injection
<1>6. \A r \in S : \E i \in 1 .. n : g[i] = r  BY <1>5 DEF Surjection
<1>7. g \in Seq(Nat) /\ Len(g) = n
  <2>1. g \in [1 .. n -> Nat]  BY <1>1, <1>2
  <2> QED  BY <1>1, <2>1
<1> QED  BY <1>2, <1>6, <1>7 DEF n, S, g

(* A first part of a file.                                                 *)
LEMMA FirstPart ==
  ASSUME NEW f \in Seq(Nat), NEW n \in 0 .. Len(f)
  PROVE  /\ SubSeq(f, 1, n) \in Seq(Nat) /\ Len(SubSeq(f, 1, n)) = n
         /\ \A i \in 1 .. n : SubSeq(f, 1, n)[i] = f[i]
         /\ Elements(SubSeq(f, 1, n)) \subseteq Elements(f)
         /\ Distinct(f) => Distinct(SubSeq(f, 1, n))
<1>1. n \in Int /\ 1 \in Int /\ \A i \in 1 .. n : f[i] \in Nat /\ i \in 1 .. Len(f)  OBVIOUS
<1> DEFINE g == SubSeq(f, 1, n)
<1>2. /\ g \in Seq(Nat)
      /\ Len(g) = IF 1 <= n THEN n - 1 + 1 ELSE 0
      /\ \A i \in 1 .. n - 1 + 1 : g[i] = f[1 + i - 1]
  BY <1>1, SubSeqProperties
<1> HIDE DEF g
<1>3. Len(g) = n /\ \A i \in 1 .. n : g[i] = f[i]  BY <1>1, <1>2
<1> QED  BY <1>1, <1>2, <1>3 DEF g, Elements, Distinct

(* What a prune keeps: as many records as it should, of those in the file. *)
LEMMA KeptOfFile ==
  ASSUME NEW f \in Seq(Nat), Distinct(f), Len(f) > Keep
  PROVE  LET k == SubSeq(ReadAll(f), 1, Keep) IN
         /\ k \in Seq(Nat) /\ Distinct(k) /\ Len(k) = Keep
         /\ Elements(k) \subseteq Elements(f)
<1> DEFINE g == ReadAll(f)
<1>1. /\ g \in Seq(Nat) /\ Len(g) = Len(f) /\ Keep \in 0 .. Len(g)
      /\ \A i \in 1 .. Len(f) : g[i] \in Elements(f)
      /\ \A i, k \in 1 .. Len(f) : i < k => g[i] > g[k]
  BY ReadAllReads, JobsAssumption
<1> HIDE DEF g
<1>2. Distinct(g)
  <2>1. \A i, k \in 1 .. Len(f) : i < k \/ k < i \/ i = k  OBVIOUS
  <2>2. \A i \in 1 .. Len(f) : g[i] \in Nat  BY <1>1
  <2> QED  BY <1>1, <2>1, <2>2 DEF Distinct
<1>3. Elements(g) \subseteq Elements(f)  BY <1>1 DEF Elements
<1> QED  BY <1>1, <1>2, <1>3, FirstPart DEF g

(* They are newer than a record it does not keep, and than one for which   *)
(* the file has Keep newer ones.                                           *)
LEMMA KeptAreNewest ==
  ASSUME NEW f \in Seq(Nat), Distinct(f), Len(f) > Keep, NEW r \in Nat,
         r \notin Elements(SubSeq(ReadAll(f), 1, Keep)),
         r \in Elements(f) \/ Cardinality({x \in Elements(f) : x > r}) >= Keep
  PROVE  LET S == Elements(SubSeq(ReadAll(f), 1, Keep)) IN
         Cardinality({x \in S : x > r}) >= Keep
<1> DEFINE g == ReadAll(f)
           k == SubSeq(g, 1, Keep)
           n == Len(f)
           S == Elements(f)
           K == Elements(k)
<1>1. /\ g \in Seq(Nat) /\ Len(g) = n
      /\ \A i \in 1 .. n : g[i] \in S
      /\ \A i, m \in 1 .. n : i < m => g[i] > g[m]
      /\ \A x \in S : \E i \in 1 .. n : g[i] = x
  BY ReadAllReads
<1>2. Keep \in Nat /\ n \in Nat /\ n > Keep  BY JobsAssumption
<1>3. k \in Seq(Nat) /\ Distinct(k) /\ Len(k) = Keep  BY KeptOfFile
<1>4. \A i \in 1 .. Keep : k[i] = g[i]
  <2> HIDE DEF g
  <2>1. Keep \in 0 .. Len(g)  BY <1>1, <1>2
  <2> QED  BY <1>1, <2>1, FirstPart
<1>5. IsFiniteSet(S) /\ S \subseteq Nat  BY DistinctCount
<1>6. Cardinality(K) = Keep /\ K \subseteq Nat
  <2> HIDE DEF k
  <2> QED  BY <1>3, DistinctCount
<1>7. r \notin K /\ (r \in S \/ Cardinality({x \in S : x > r}) >= Keep)  OBVIOUS
<1>8. K = {k[i] : i \in 1 .. Keep}
  <2> HIDE DEF k
  <2> QED  BY <1>3 DEF Elements
<1> HIDE DEF k, g, n, S, K
<1>9. ASSUME NEW i \in 1 .. Keep  PROVE k[i] > r
  <2>0. i \in 1 .. n /\ g[i] \in Nat /\ k[i] = g[i]  BY <1>1, <1>2, <1>4
  <2>1. CASE r \in S
    <3>1. PICK m \in 1 .. n : g[m] = r  BY <1>1, <2>1
    <3>2. m \notin 1 .. Keep  BY <1>4, <1>7, <1>8, <3>1
    <3>3. i < m  BY <1>2, <3>2
    <3> QED  BY <1>1, <2>0, <3>1, <3>3
  <2>2. CASE Cardinality({x \in S : x > r}) >= Keep
    <3> DEFINE N == {x \in S : x > r}
               h == [m \in 1 .. i - 1 |-> g[m]]
               T == {g[m] : m \in 1 .. i - 1}
    <3>1. SUFFICES ASSUME ~(g[i] > r)  PROVE FALSE  BY <2>0
    <3>2. N \subseteq T
      <4>1. ASSUME NEW x \in S, x > r  PROVE x \in T
        <5>1. PICK m \in 1 .. n : g[m] = x  BY <1>1, <4>1
        <5>2. x \in Nat  BY <1>5
        <5>3. ~(i < m) /\ i # m
          <6>1. g[m] > g[i]  BY <2>0, <3>1, <4>1, <5>1, <5>2
          <6> QED  BY <1>1, <2>0, <5>1, <5>2, <6>1
        <5>4. m \in 1 .. i - 1  BY <1>2, <5>3
        <5> QED  BY <5>1, <5>4
      <4> QED  BY <4>1
    <3>3. i - 1 \in Nat /\ IsFiniteSet(1 .. i - 1) /\ Cardinality(1 .. i - 1) = i - 1
      <4>1. i - 1 \in Nat  BY <1>2
      <4> QED  BY <4>1, Places
    <3>4. h \in Surjection(1 .. i - 1, T)
      <4>1. h \in [1 .. i - 1 -> T] /\ \A t \in T : \E m \in 1 .. i - 1 : h[m] = t  OBVIOUS
      <4> HIDE DEF h, T
      <4> QED  BY <4>1, Fun_IsSurj
    <3> HIDE DEF h, T, N
    <3>5. IsFiniteSet(T) /\ Cardinality(T) <= i - 1  BY <3>3, <3>4, FS_Surjection
    <3>6. Cardinality(N) <= Cardinality(T) /\ IsFiniteSet(N)  BY <3>2, <3>5, FS_Subset
    <3>7. Cardinality(N) \in Nat /\ Cardinality(T) \in Nat  BY <3>5, <3>6, FS_CardinalityType
    <3>8. Cardinality(N) >= Keep  BY <2>2 DEF N
    <3> QED  BY <1>2, <3>3, <3>5, <3>6, <3>7, <3>8
  <2> QED  BY <1>7, <2>1, <2>2
<1>10. {x \in K : x > r} = K
  BY <1>8, <1>9
<1>11. Cardinality({x \in K : x > r}) >= Keep
  <2>1. Cardinality({x \in K : x > r}) = Keep  BY <1>6, <1>10, Zenon
  <2> QED  BY <1>2, <2>1
<1> QED  BY <1>11 DEF K, k, g

-----------------------------------------------------------------------------
(***************************************************************************)
(* The run records.  A record gets its time when it is made, and belongs   *)
(* to its run until it is appended (Fresh); so no file has one twice, even *)
(* where two processes get into a lock at a time.                          *)
(***************************************************************************)
HasRecord == {"claim", "session", "report", "append", "trace"}

FileTyped(f, n) == f \in Seq(Nat) /\ Distinct(f) /\ Elements(f) \subseteq 1 .. n

RecordTyped(c, n) == /\ c.op \in Calls
                     /\ c.run \in 0 .. n /\ (c.pc \in HasRecord => c.run # 0)
                     /\ FileTyped(c.kept, n) /\ (c.pc = "rewrite" => Len(c.kept) = Keep)

Files == /\ now \in 0 .. MaxRuns
         /\ runs \in [Jobs -> Seq(Nat)] /\ \A j \in Jobs : FileTyped(runs[j], now)
         /\ \A p \in Procs : RecordTyped(call[p], now)

Filed(r, files, calls) == \/ \E j \in Jobs : r \in Elements(files[j])
                          \/ \E p \in Procs : r \in Elements(calls[p].kept)
Own(p, files, calls) == /\ ~Filed(calls[p].run, files, calls)
                        /\ \A q \in Procs \ {p} : calls[q].run # calls[p].run
Fresh == \A p \in Procs : call[p].run # 0 => Own(p, runs, call)

(* Who has the lock of a file of records is about to rewrite it.           *)
Writers == /\ runsLock \in [Jobs -> SUBSET Procs]
           /\ \A j \in Jobs : \A q \in runsLock[j] : At(q, "rewrite") /\ call[q].job = j

RecordInv == Files /\ Fresh /\ Writers

-----------------------------------------------------------------------------
(* A step that leaves the records alone.                                   *)
RecordQuiet(p) ==
  /\ UNCHANGED <<runs, runsLock, now, written>> /\ ~At(p, "rewrite")
  /\ \A q \in Procs \ {p} : call'[q] = call[q]
  /\ \/ call'[p] = NoCall
     \/ /\ call'[p].pc # "rewrite" /\ call'[p].op \in Calls \cup {call[p].op}
        /\ \/ call'[p].run = call[p].run /\ call'[p].kept = call[p].kept
           \/ call'[p].run = 0 /\ call'[p].kept = <<>>
        /\ call'[p].pc \in HasRecord => call[p].pc \in HasRecord /\ call'[p].run = call[p].run

(* A call that becomes such a record, its run and what it keeps included.  *)
LEMMA BecomeCallOf ==
  ASSUME CallsShaped, NEW p \in Procs, NEW l, NEW o, NEW j, NEW sn, NEW a, NEW t, NEW r, NEW st,
         NEW k, Become(p, CallOf(l, o, j, sn, a, t, r, st, k))
  PROVE  /\ \A q \in Procs \ {p} : call'[q] = call[q]
         /\ IF l = "idle" THEN call'[p] = NoCall
            ELSE call'[p].pc = l /\ call'[p].op = o /\ call'[p].job = j /\ call'[p].run = r
                 /\ call'[p].kept = k
<1> DEFINE d == CallOf(l, o, j, sn, a, t, r, st, k)
<1>1. d.pc = l /\ d.op = o /\ d.job = j /\ d.run = r /\ d.kept = k  BY DEF CallOf
<1> HIDE DEF d
<1>2. /\ \A q \in Procs \ {p} : call'[q] = call[q]
      /\ call'[p] = IF d.pc = "idle" THEN NoCall ELSE d
  BY DEF CallsShaped, Become, With, d
<1> QED  BY <1>1, <1>2

(* Such a step: the call goes on with its record, or before it has one.    *)
LEMMA KeepsRecord ==
  ASSUME CallsShaped, NEW p \in Procs, UNCHANGED <<runs, runsLock, now, written>>,
         NEW l, NEW o, NEW j, NEW sn, NEW a, NEW t, NEW st, NEW d, Become(p, d),
         d = CallOf(l, o, j, sn, a, t, call[p].run, st, call[p].kept),
         o \in Calls \cup {call[p].op}, l # "rewrite", call[p].pc # "rewrite",
         l \in HasRecord => call[p].pc \in HasRecord
  PROVE  RecordQuiet(p)
<1>1. /\ \A q \in Procs \ {p} : call'[q] = call[q]
      /\ IF l = "idle" THEN call'[p] = NoCall
         ELSE call'[p].pc = l /\ call'[p].op = o /\ call'[p].job = j
              /\ call'[p].run = call[p].run /\ call'[p].kept = call[p].kept
  BY BecomeCallOf
<1> QED  BY <1>1 DEF RecordQuiet, At

(* The other steps make, append, prune or rewrite records, or end calls.   *)
LEMMA RecordSteps ==
  ASSUME CallsShaped, NEW p \in Procs, Works(p) \/ Fails(p)
  PROVE  \/ RecordQuiet(p)
         \/ /\ \E l \in {"trace", "claim"} : NewRecord(p, l)
            /\ UNCHANGED <<runs, runsLock, written>> /\ ~At(p, "rewrite")
         \/ AppendRun(p) \/ Prune(p) \/ Rewrite(p)
         \/ Remove(p) \/ RemoveFails(p) \/ Crash(p)
<1> DEFINE c == call[p]
<1> USE DEF HasRecord
<1>0. IsCall(c)  BY DEF CallsShaped
<1>1. ASSUME NEW o, NEW j, NEW l, NEW s, Start(p, o, j, l, s), l \notin HasRecord \cup {"rewrite"}
      PROVE  RecordQuiet(p)
  <2> DEFINE d == [NoCall EXCEPT !.pc = l, !.op = o, !.job = j, !.arg.spec = s]
  <2>0. IsCall(NoCall)  BY NoCallShape
  <2>1. d = CallOf(l, o, j, NoCall.snap, [NoCall.arg EXCEPT !.spec = s], NoCall.todo, NoCall.run,
                   NoCall.status, NoCall.kept)
    BY <2>0, ShapeStart
  <2>2. /\ UNCHANGED <<runs, runsLock, now, written>> /\ c.pc = "idle" /\ Become(p, d)
        /\ o \in Calls
    BY <1>1, JobsAssumption DEF Start, At, runVars
  <2>3. NoCall.run = 0 /\ NoCall.kept = <<>>  BY DEF NoCall
  <2> HIDE DEF d
  <2>4. /\ \A q \in Procs \ {p} : call'[q] = call[q]
        /\ IF l = "idle" THEN call'[p] = NoCall
           ELSE call'[p].pc = l /\ call'[p].op = o /\ call'[p].job = j
                /\ call'[p].run = NoCall.run /\ call'[p].kept = NoCall.kept
    BY <2>1, <2>2, BecomeCallOf
  <2> QED  BY <1>1, <2>2, <2>3, <2>4 DEF RecordQuiet, At
<1>2. ASSUME NEW l, Goto(p, l), UNCHANGED <<runs, runsLock, now, written>>, c.pc # "rewrite",
             l # "rewrite", l \in HasRecord => c.pc \in HasRecord
      PROVE  RecordQuiet(p)
  <2> DEFINE d == [c EXCEPT !.pc = l]
  <2>1. d = CallOf(l, c.op, c.job, c.snap, c.arg, c.todo, c.run, c.status, c.kept)
    BY <1>0, ShapePc
  <2>2. Become(p, d)  BY <1>2 DEF Goto
  <2> HIDE DEF d
  <2> QED  BY <1>2, <2>1, <2>2, KeepsRecord
<1>3. ASSUME NEW l \in {"remove", "install"}, NEW s, UNCHANGED <<runs, runsLock, now, written>>,
             Become(p, [call[p] EXCEPT !.pc = l, !.arg.spec = s]), c.pc # "rewrite"
      PROVE  RecordQuiet(p)
  <2> DEFINE d == [c EXCEPT !.pc = l, !.arg.spec = s]
             a == [c.arg EXCEPT !.spec = s]
  <2>1. d = CallOf(l, c.op, c.job, c.snap, a, c.todo, c.run, c.status, c.kept)
    BY <1>0, ShapeArg
  <2>2. Become(p, d)  BY <1>3
  <2> HIDE DEF d, a
  <2> QED  BY <1>3, <2>1, <2>2, KeepsRecord
<1>4. CASE LockStore(p)
  <2> DEFINE d == [c EXCEPT !.snap = jobs]
  <2>1. d = CallOf(c.pc, c.op, c.job, jobs, c.arg, c.todo, c.run, c.status, c.kept)
    BY <1>0, ShapeSnap
  <2>2. Become(p, d) /\ UNCHANGED <<runs, runsLock, now, written>> /\ c.pc # "rewrite"
    BY <1>4 DEF LockStore, Updating, runVars
  <2> HIDE DEF d
  <2> QED  BY <2>1, <2>2, KeepsRecord
<1>5. CASE SaveStore(p)
  <2> DEFINE l == AfterUpdate(c, AfterChange(p, c.snap[c.job]))
             a == Captured(p, c.snap[c.job])
             sn == NoCall.snap
             d == [c EXCEPT !.pc = l, !.arg = a, !.snap = sn]
  <2>1. Become(p, d) /\ UNCHANGED <<runs, runsLock, now, written>>
        /\ c.pc \in {"update", "record", "report"}
    BY <1>5 DEF SaveStore, Updating, runVars
  <2>2. l # "rewrite" /\ (l \in HasRecord => c.pc \in HasRecord)
    BY <2>1 DEF AfterUpdate, AfterChange
  <2> HIDE DEF l, a, sn
  <2>3. d = CallOf(l, c.op, c.job, sn, a, c.todo, c.run, c.status, c.kept)
    BY <1>0, ShapeSave
  <2> HIDE DEF d
  <2> QED  BY <2>1, <2>2, <2>3, KeepsRecord
<1>6. CASE StoreError(p)
  <2> DEFINE l == AfterUpdate(c, "idle")
             sn == NoCall.snap
             d == [c EXCEPT !.pc = l, !.snap = sn]
  <2>1. Become(p, d) /\ UNCHANGED <<runs, runsLock, now, written>>
        /\ c.pc \in {"update", "record", "report"}
    BY <1>6 DEF StoreError, Updating, runVars
  <2>2. l # "rewrite" /\ (l \in HasRecord => c.pc \in HasRecord)
    BY <2>1 DEF AfterUpdate
  <2> HIDE DEF l, sn
  <2>3. d = CallOf(l, c.op, c.job, sn, c.arg, c.todo, c.run, c.status, c.kept)
    BY <1>0, ShapePcSnap
  <2> HIDE DEF d
  <2> QED  BY <2>1, <2>2, <2>3, KeepsRecord
<1>7. CASE LoadSnapshot(p)
  <2> DEFINE d == [c EXCEPT !.pc = "list", !.snap = jobs]
  <2>1. d = CallOf("list", c.op, c.job, jobs, c.arg, c.todo, c.run, c.status, c.kept)
    BY <1>0, ShapePcSnap
  <2>2. Become(p, d) /\ UNCHANGED <<runs, runsLock, now, written>> /\ c.pc = "load"
    BY <1>7 DEF LoadSnapshot, At, runVars
  <2> HIDE DEF d
  <2> QED  BY <2>1, <2>2, KeepsRecord
<1>8. ASSUME NEW b, ListTimers(p, b)  PROVE RecordQuiet(p)
  <2> DEFINE t == Wanted(c.snap, b)
             sn == NoCall.snap
             d == [c EXCEPT !.pc = "next", !.todo = t, !.snap = sn]
  <2>1. Become(p, d) /\ UNCHANGED <<runs, runsLock, now, written>> /\ c.pc = "list"
    BY <1>8 DEF ListTimers, At, runVars
  <2> HIDE DEF t, sn
  <2>2. d = CallOf("next", c.op, c.job, sn, c.arg, t, c.run, c.status, c.kept)
    BY <1>0, ShapeTodo
  <2> HIDE DEF d
  <2> QED  BY <2>1, <2>2, KeepsRecord
<1>9. CASE NextAction(p)
  <2>1. PICK x \in c.todo :
          Become(p, [call[p] EXCEPT !.pc = IF x.kind = "install" THEN "install" ELSE "remove",
                                    !.job = x.job, !.arg.spec = x.spec, !.todo = @ \ {x}])
    BY <1>9 DEF NextAction
  <2> DEFINE l == IF x.kind = "install" THEN "install" ELSE "remove"
             t == c.todo \ {x}
             a == [c.arg EXCEPT !.spec = x.spec]
             d == [c EXCEPT !.pc = l, !.job = x.job, !.arg.spec = x.spec, !.todo = t]
  <2>2. Become(p, d) /\ UNCHANGED <<runs, runsLock, now, written>> /\ c.pc = "next"
    BY <1>9, <2>1 DEF NextAction, At, runVars
  <2>3. l \in {"install", "remove"}  OBVIOUS
  <2> HIDE DEF l, t
  <2>4. d = CallOf(l, c.op, x.job, c.snap, a, t, c.run, c.status, c.kept)
    BY <1>0, ShapeNext
  <2> HIDE DEF a, d
  <2> QED  BY <2>2, <2>3, <2>4, KeepsRecord
<1>10. ASSUME NEW st, NEW r, EndSession(p, st, r)  PROVE RecordQuiet(p)
  <2> DEFINE l == IF r THEN "report" ELSE "append"
             d == [c EXCEPT !.pc = l, !.status = st]
  <2>1. Become(p, d) /\ UNCHANGED <<runs, runsLock, now, written>> /\ c.pc = "session"
    BY <1>10 DEF EndSession, At, runVars
  <2>2. l \in {"report", "append"}  OBVIOUS
  <2> HIDE DEF l
  <2>3. d = CallOf(l, c.op, c.job, c.snap, c.arg, c.todo, c.run, st, c.kept)
    BY <1>0, ShapeStatus
  <2> HIDE DEF d
  <2> QED  BY <2>1, <2>2, <2>3, KeepsRecord
<1>11. CASE \/ \E j \in Jobs : \/ \E s \in Specs : StartCreate(p, j, s) \/ StartEdit(p, j, s)
                               \/ \E o \in {"pause", "resume"} : StartSwitch(p, o, j)
                               \/ StartDelete(p, j) \/ StartRun(p, j)
            \/ StartReconcile(p)
  BY <1>1, <1>11 DEF StartCreate, StartEdit, StartSwitch, StartDelete, StartRun, StartReconcile
<1>12. CASE Reload(p) \/ SelfRepair(p)
  <2>1. UNCHANGED <<runs, runsLock, now, written>> /\ c.pc \in {"reload", "repair"}
    BY <1>12 DEF Reload, SelfRepair, At, runVars
  <2>2. \/ \E l \in {"idle", "start"} : Goto(p, l)
        \/ \E l \in {"remove", "install"} : \E s : Become(p, [call[p] EXCEPT !.pc = l, !.arg.spec = s])
    BY <1>12 DEF Reload, SelfRepair
  <2> QED  BY <1>2, <1>3, <2>1, <2>2
<1>13. CASE Install(p) \/ InstallFails(p) \/ EndReconcile(p) \/ FindJob(p)
  <2>1. UNCHANGED <<runs, runsLock, now, written>> /\ c.pc \in {"install", "next", "find"}
    BY <1>13 DEF Install, InstallFails, EndReconcile, FindJob, At, runVars
  <2>2. \E l \in {"idle", "record", "next", "start", "load"} : Goto(p, l)
    BY <1>13, <2>1 DEF Install, InstallFails, EndReconcile, FindJob, AfterUpdate, At
  <2> QED  BY <1>2, <2>1, <2>2
<1>14. CASE LoadJob(p) \/ BeginRun(p)
  <2>1. UNCHANGED <<runs, runsLock, written>> /\ c.pc \in {"load", "start"}
    BY <1>14 DEF LoadJob, BeginRun, At, runVars
  <2>2. \/ Goto(p, "repair") /\ UNCHANGED now
        \/ \E l \in {"trace", "claim"} : NewRecord(p, l)
    BY <1>14 DEF LoadJob, BeginRun
  <2>3. ~At(p, "rewrite")  BY <2>1 DEF At
  <2> QED  BY <1>2, <2>1, <2>2, <2>3
<1>15. CASE Claim(p) \/ Release(p)
  <2>1. UNCHANGED <<runs, runsLock, now, written>> /\ c.pc \in {"claim", "release"}
    BY <1>15 DEF Claim, Release, At
  <2>2. \/ c.pc = "claim" /\ \E l \in {"session", "trace"} : Goto(p, l)
        \/ Goto(p, "idle")
    BY <1>15, <2>1 DEF Claim, Release, At
  <2> QED  BY <1>2, <2>1, <2>2
<1> HIDE DEF c
<1> QED  BY <1>4, <1>5, <1>6, <1>7, <1>8, <1>9, <1>10, <1>11, <1>12, <1>13, <1>14, <1>15
         DEF Works, Fails

(* The empty call has no record and keeps none.                            *)
LEMMA NoCallRecord ==
  ASSUME NEW n \in Nat
  PROVE  /\ RecordTyped(NoCall, n) /\ NoCall.pc = "idle"
         /\ NoCall.run = 0 /\ NoCall.kept = <<>> /\ Elements(<<>>) = {} /\ FileTyped(<<>>, n)
<1>1. Elements(<<>>) = {}  BY DEF Elements
<1>2. FileTyped(<<>>, n)  BY <1>1 DEF FileTyped, Distinct
<1>3. NoCall.run = 0 /\ NoCall.kept = <<>> /\ NoCall.pc = "idle" /\ NoCall.op = "run"
  BY DEF NoCall
<1> QED  BY <1>1, <1>2, <1>3 DEF RecordTyped, HasRecord, Calls

(* What belongs to a run stays its own while no record is made or filed.   *)
LEMMA FreshStays ==
  ASSUME Fresh, \A p \in Procs : call'[p].run \in {call[p].run, 0},
         \A r : Filed(r, runs', call') => Filed(r, runs, call)
  PROVE  Fresh'
<1>1. ASSUME NEW p \in Procs, call'[p].run # 0  PROVE Own(p, runs', call')
  <2>1. call'[p].run = call[p].run /\ call[p].run # 0  BY <1>1
  <2>2. Own(p, runs, call)  BY <2>1 DEF Fresh
  <2>3. \A q \in Procs \ {p} : call'[q].run # call'[p].run
    BY <2>1, <2>2 DEF Own
  <2> QED  BY <2>1, <2>2, <2>3 DEF Own
<1> QED  BY <1>1 DEF Fresh

(* A quiet step.                                                           *)
LEMMA RecordsQuiet ==
  ASSUME RecordInv, NEW p \in Procs, RecordQuiet(p)
  PROVE  RecordInv'
<1>0. now \in Nat  BY DEF RecordInv, Files
<1>1. UNCHANGED <<runs, runsLock, now>> /\ \A q \in Procs \ {p} : call'[q] = call[q]
  BY DEF RecordQuiet
<1>2. /\ RecordTyped(call'[p], now) /\ call'[p].pc # "rewrite" /\ call[p].pc # "rewrite"
      /\ call'[p].run \in {call[p].run, 0}
      /\ Elements(call'[p].kept) \subseteq Elements(call[p].kept)
  BY <1>0, NoCallRecord DEF RecordInv, Files, RecordQuiet, RecordTyped, At
<1>3. Files'  BY <1>1, <1>2 DEF RecordInv, Files
<1>4. Fresh'
  <2>1. \A q \in Procs : call'[q].run \in {call[q].run, 0}  BY <1>1, <1>2
  <2>2. \A r : Filed(r, runs', call') => Filed(r, runs, call)  BY <1>1, <1>2 DEF Filed
  <2> QED  BY <2>1, <2>2, FreshStays DEF RecordInv
<1>5. Writers'  BY <1>1, <1>2 DEF RecordInv, Writers, At
<1> QED  BY <1>3, <1>4, <1>5 DEF RecordInv

(* Types hold as time goes by.                                             *)
LEMMA RecordLater ==
  ASSUME NEW n \in Nat, NEW m \in Nat, n <= m, NEW c, RecordTyped(c, n)
  PROVE  RecordTyped(c, m)
<1>1. c.run \in 0 .. m  BY DEF RecordTyped
<1>2. FileTyped(c.kept, m)  BY DEF RecordTyped, FileTyped
<1> QED  BY <1>1, <1>2 DEF RecordTyped

(* A new record has a time of its own.                                     *)
LEMMA RecordsNew ==
  ASSUME CallsShaped, RecordInv, NEW p \in Procs, NEW l \in {"trace", "claim"}, NewRecord(p, l),
         UNCHANGED <<runs, runsLock>>, ~At(p, "rewrite")
  PROVE  RecordInv'
<1> DEFINE c == call[p]
           r == now'
           d == [c EXCEPT !.pc = l, !.run = r]
<1>1. /\ Become(p, d) /\ now < MaxRuns /\ r = now + 1 /\ r \in Nat /\ now <= r /\ now \in Nat /\ MaxRuns \in Nat
      /\ now \in 0 .. MaxRuns
  BY JobsAssumption DEF NewRecord, RecordInv, Files
<1>2. IsCall(c)  BY DEF CallsShaped
<1> HIDE DEF r
<1>3. d = CallOf(l, c.op, c.job, c.snap, c.arg, c.todo, r, c.status, c.kept)
  BY <1>2, ShapeRun
<1> HIDE DEF d, c
<1>4. /\ \A q \in Procs \ {p} : call'[q] = call[q]
      /\ call'[p].pc = l /\ call'[p].op = c.op /\ call'[p].run = r /\ call'[p].kept = c.kept
  BY <1>1, <1>3, BecomeCallOf
<1>5. \A x \in Jobs : FileTyped(runs[x], r)
  BY <1>1 DEF RecordInv, Files, FileTyped
<1>6. \A q \in Procs : RecordTyped(call[q], r)
  BY <1>1, RecordLater DEF RecordInv, Files
<1>7. RecordTyped(call'[p], r)  BY <1>1, <1>4, <1>6 DEF RecordTyped, HasRecord, c
<1>8. Files'  BY <1>1, <1>4, <1>5, <1>6, <1>7 DEF RecordInv, Files, r
<1>9. \A x : Filed(x, runs', call') => Filed(x, runs, call) /\ x \in 1 .. now
  BY <1>4 DEF Filed, RecordInv, Files, FileTyped, RecordTyped, c
<1>10. \A q \in Procs : call[q].run \in 0 .. now
  BY DEF RecordInv, Files, RecordTyped
<1>11. Fresh'
  <2>1. r \notin 0 .. now /\ r \notin 1 .. now  BY <1>1
  <2>2. ASSUME NEW q \in Procs, call'[q].run # 0  PROVE Own(q, runs', call')
    <3>1. CASE q = p
      <4>1. call'[q].run = r  BY <1>4, <3>1
      <4>2. ~Filed(call'[q].run, runs', call')  BY <1>9, <2>1, <4>1
      <4>3. \A x \in Procs \ {q} : call'[x].run # call'[q].run
        BY <1>4, <1>10, <2>1, <3>1, <4>1
      <4> QED  BY <4>2, <4>3 DEF Own
    <3>2. CASE q # p
      <4>1. call'[q].run = call[q].run /\ Own(q, runs, call)
        BY <1>4, <2>2, <3>2 DEF RecordInv, Fresh
      <4>2. call'[p].run # call'[q].run  BY <1>4, <1>10, <2>1, <4>1
      <4>3. \A x \in Procs \ {q} : call'[x].run # call'[q].run
        BY <1>4, <4>1, <4>2 DEF Own
      <4> QED  BY <1>9, <4>1, <4>3 DEF Own
    <3> QED  BY <3>1, <3>2
  <2> QED  BY <2>2 DEF Fresh
<1>12. Writers'
  <2>1. call[p].pc # "rewrite"  BY DEF At
  <2> QED  BY <1>4, <2>1 DEF RecordInv, Writers, At
<1> QED  BY <1>8, <1>11, <1>12 DEF RecordInv

(* A file with one more record.                                            *)
LEMMA AppendFile ==
  ASSUME NEW n \in Nat, NEW f, FileTyped(f, n), NEW r \in 1 .. n, r \notin Elements(f)
  PROVE  FileTyped(Append(f, r), n) /\ Elements(Append(f, r)) = Elements(f) \cup {r}
<1> DEFINE g == Append(f, r)
           m == Len(f)
<1>1. f \in Seq(Nat) /\ Distinct(f) /\ Elements(f) \subseteq 1 .. n /\ r \in Nat
  BY DEF FileTyped
<1>2. /\ g \in Seq(Nat) /\ Len(g) = m + 1 /\ m \in Nat /\ g[m + 1] = r
      /\ \A i \in 1 .. m : g[i] = f[i]
  BY <1>1
<1> HIDE DEF g, m
<1>3. \A i \in 1 .. m + 1 : i = m + 1 \/ i \in 1 .. m  BY <1>2
<1>4. m + 1 \in 1 .. m + 1 /\ \A i \in 1 .. m : i \in 1 .. m + 1  BY <1>2
<1>5. Elements(f) = {f[i] : i \in 1 .. m} /\ Elements(g) = {g[i] : i \in 1 .. m + 1}
  BY <1>2 DEF Elements, m
<1>6. Elements(g) = Elements(f) \cup {r}  BY <1>2, <1>3, <1>4, <1>5
<1>7. Distinct(g)
  <2>1. \A i, k \in 1 .. m : f[i] = f[k] => i = k  BY <1>1 DEF Distinct, m
  <2>2. \A i \in 1 .. m : g[i] # r  BY <1>2, <1>5
  <2>3. ASSUME NEW i \in 1 .. m + 1, NEW k \in 1 .. m + 1, g[i] = g[k]  PROVE i = k
    BY <1>2, <1>3, <2>1, <2>2, <2>3
  <2> QED  BY <1>2, <2>3 DEF Distinct
<1> QED  BY <1>1, <1>2, <1>6, <1>7 DEF FileTyped, g

(* An append files the record of its run.                                  *)
LEMMA RecordsAppend ==
  ASSUME CallsShaped, RecordInv, NEW p \in Procs, call[p].job \in Jobs, AppendRun(p)
  PROVE  RecordInv'
<1> DEFINE c == call[p]
           j == c.job
           l == IF c.pc = "append" THEN "prune" ELSE "idle"
           st == NoCall.status
           d == [c EXCEPT !.pc = l, !.run = 0, !.status = st]
<1>0. now \in Nat /\ j \in Jobs  BY DEF RecordInv, Files
<1>1. /\ c.pc \in {"append", "trace"} /\ Become(p, d) /\ UNCHANGED <<runsLock, now>>
      /\ runs' = runs \/ runs' = [runs EXCEPT ![j] = Append(@, c.run)]
  BY DEF AppendRun
<1>2. IsCall(c) /\ l \in {"prune", "idle"}  BY DEF CallsShaped
<1> HIDE DEF l, st
<1>3. d = CallOf(l, c.op, c.job, c.snap, c.arg, c.todo, 0, st, c.kept)
  BY <1>2, ShapeAppend
<1> HIDE DEF d
<1>4. /\ \A q \in Procs \ {p} : call'[q] = call[q]
      /\ IF l = "idle" THEN call'[p] = NoCall
         ELSE call'[p].pc = l /\ call'[p].op = c.op /\ call'[p].run = 0 /\ call'[p].kept = c.kept
  BY <1>1, <1>3, BecomeCallOf
<1>5. /\ RecordTyped(c, now) /\ c.run # 0 /\ c.run \in 1 .. now /\ Own(p, runs, call)
  BY <1>0, <1>1 DEF RecordInv, Files, RecordTyped, HasRecord, Fresh
<1>6. /\ RecordTyped(call'[p], now) /\ call'[p].run = 0 /\ call'[p].pc # "rewrite"
      /\ Elements(call'[p].kept) \subseteq Elements(c.kept)
  BY <1>0, <1>2, <1>4, <1>5, NoCallRecord DEF RecordTyped, HasRecord
<1>7. FileTyped(runs[j], now) /\ c.run \notin Elements(runs[j])
  BY <1>0, <1>5 DEF RecordInv, Files, Own, Filed, c
<1>8. /\ \A x \in Jobs : FileTyped(runs'[x], now)
      /\ \A x \in Jobs : Elements(runs'[x]) \subseteq Elements(runs[x]) \cup {c.run}
      /\ runs' \in [Jobs -> Seq(Nat)]
  <2>1. runs \in [Jobs -> Seq(Nat)] /\ \A x \in Jobs : FileTyped(runs[x], now)
    BY DEF RecordInv, Files
  <2>2. CASE runs' = runs  BY <2>1, <2>2
  <2>3. CASE runs' = [runs EXCEPT ![j] = Append(@, c.run)]
    <3>1. FileTyped(Append(runs[j], c.run), now)
          /\ Elements(Append(runs[j], c.run)) = Elements(runs[j]) \cup {c.run}
      BY <1>0, <1>5, <1>7, AppendFile
    <3>2. \A x \in Jobs : runs'[x] = IF x = j THEN Append(runs[j], c.run) ELSE runs[x]
      BY <2>1, <2>3
    <3>3. runs' = [x \in Jobs |-> runs'[x]]  BY <2>1, <2>3
    <3> HIDE DEF j, c
    <3>4. \A x \in Jobs : runs'[x] \in Seq(Nat)  BY <2>1, <3>1, <3>2 DEF FileTyped
    <3>5. runs' \in [Jobs -> Seq(Nat)]  BY <3>3, <3>4
    <3> QED  BY <2>1, <3>1, <3>2, <3>5
  <2> QED  BY <1>1, <2>2, <2>3
<1>9. Files'
  BY <1>1, <1>4, <1>6, <1>8 DEF RecordInv, Files
<1>10. Fresh'
  <2>1. \A r : Filed(r, runs', call') => Filed(r, runs, call) \/ r = c.run
    BY <1>4, <1>6, <1>8 DEF Filed
  <2>2. ASSUME NEW q \in Procs, call'[q].run # 0  PROVE Own(q, runs', call')
    <3>1. q # p /\ call'[q] = call[q]  BY <1>4, <1>6, <2>2
    <3>2. Own(q, runs, call)  BY <2>2, <3>1 DEF RecordInv, Fresh
    <3>3. call[q].run # c.run  BY <3>1, <3>2 DEF Own
    <3>4. ~Filed(call'[q].run, runs', call')  BY <2>1, <3>1, <3>2, <3>3 DEF Own
    <3>5. \A x \in Procs \ {q} : call'[x].run # call'[q].run
      BY <1>4, <1>6, <2>2, <3>1, <3>2 DEF Own
    <3> QED  BY <3>4, <3>5 DEF Own
  <2> QED  BY <2>2 DEF Fresh
<1>11. Writers'
  BY <1>1, <1>4 DEF RecordInv, Writers, At
<1> QED  BY <1>9, <1>10, <1>11 DEF RecordInv

(* A prune reads the file and has its lock, or goes on.                    *)
LEMMA RecordsPrune ==
  ASSUME CallsShaped, RecordInv, NEW p \in Procs, call[p].job \in Jobs, Prune(p)
  PROVE  RecordInv'
<1> DEFINE c == call[p]
           j == c.job
           k == SubSeq(ReadAll(runs[j]), 1, Keep)
<1>0. now \in Nat /\ j \in Jobs /\ IsCall(c) /\ RecordTyped(c, now) /\ FileTyped(runs[j], now)
  BY DEF RecordInv, Files, CallsShaped
<1>1. UNCHANGED <<runs, now, written>> /\ c.pc = "prune"  BY DEF Prune, At
<1>2. CASE Goto(p, "release") /\ UNCHANGED runsLock
  <2> DEFINE d == [c EXCEPT !.pc = "release"]
  <2>1. d = CallOf("release", c.op, c.job, c.snap, c.arg, c.todo, c.run, c.status, c.kept)
    BY <1>0, ShapePc
  <2>2. Become(p, d)  BY <1>2 DEF Goto
  <2> HIDE DEF d
  <2>3. RecordQuiet(p)  BY <1>1, <1>2, <2>1, <2>2, KeepsRecord DEF HasRecord
  <2> QED  BY <2>3, RecordsQuiet
<1>3. CASE /\ Len(ReadAll(runs[j])) > Keep /\ runsLock' = [runsLock EXCEPT ![j] = @ \cup {p}]
           /\ Become(p, [c EXCEPT !.pc = "rewrite", !.kept = k])
  <2>1. runs[j] \in Seq(Nat) /\ Distinct(runs[j])  BY <1>0 DEF FileTyped
  <2>2. Len(runs[j]) > Keep
    <3>1. Len(ReadAll(runs[j])) = Len(runs[j])  BY <2>1, ReadAllReads
    <3> QED  BY <1>3, <3>1
  <2>3. /\ k \in Seq(Nat) /\ Distinct(k) /\ Len(k) = Keep
        /\ Elements(k) \subseteq Elements(runs[j])
    BY <2>1, <2>2, KeptOfFile
  <2>4. FileTyped(k, now)  BY <1>0, <2>3 DEF FileTyped
  <2> DEFINE d == [c EXCEPT !.pc = "rewrite", !.kept = k]
  <2>5. Become(p, d)  BY <1>3
  <2> HIDE DEF k
  <2>6. d = CallOf("rewrite", c.op, c.job, c.snap, c.arg, c.todo, c.run, c.status, k)
    BY <1>0, ShapeKept
  <2> HIDE DEF d
  <2>7. /\ \A q \in Procs \ {p} : call'[q] = call[q]
        /\ call'[p].pc = "rewrite" /\ call'[p].op = c.op /\ call'[p].job = c.job
        /\ call'[p].run = c.run /\ call'[p].kept = k
    BY <2>5, <2>6, BecomeCallOf
  <2>8. RecordTyped(call'[p], now)
    BY <1>0, <2>3, <2>4, <2>7 DEF RecordTyped, HasRecord
  <2>9. Files'  BY <1>1, <2>7, <2>8 DEF RecordInv, Files
  <2>10. Fresh'
    <3>1. \A q \in Procs : call'[q].run \in {call[q].run, 0}  BY <2>7
    <3>2. \A r : Filed(r, runs', call') => Filed(r, runs, call)
      BY <1>0, <1>1, <2>3, <2>7 DEF Filed
    <3> QED  BY <3>1, <3>2, FreshStays DEF RecordInv
  <2>11. Writers'
    <3>1. runsLock' \in [Jobs -> SUBSET Procs]
          /\ \A x \in Jobs : runsLock'[x] = IF x = j THEN runsLock[x] \cup {p} ELSE runsLock[x]
      BY <1>0, <1>3 DEF RecordInv, Writers
    <3> QED  BY <1>1, <2>7, <3>1 DEF RecordInv, Writers, At
  <2> QED  BY <2>9, <2>10, <2>11 DEF RecordInv
<1> QED  BY <1>2, <1>3 DEF Prune

(* A rewrite gives the file what the prune has kept, and frees it.         *)
LEMMA RecordsRewrite ==
  ASSUME CallsShaped, RecordInv, NEW p \in Procs, call[p].job \in Jobs, Rewrite(p)
  PROVE  RecordInv'
<1> DEFINE c == call[p]
           j == c.job
           d == [c EXCEPT !.pc = "release", !.kept = <<>>]
<1>0. /\ now \in Nat /\ j \in Jobs /\ IsCall(c) /\ RecordTyped(c, now)
      /\ runs \in [Jobs -> Seq(Nat)]
  BY DEF RecordInv, Files, CallsShaped
<1>1. /\ UNCHANGED <<now, written>> /\ c.pc = "rewrite" /\ Become(p, d)
      /\ runs' = [runs EXCEPT ![j] = c.kept]
      /\ runsLock' = [runsLock EXCEPT ![j] = @ \ {p}]
  BY DEF Rewrite, At
<1>2. d = CallOf("release", c.op, c.job, c.snap, c.arg, c.todo, c.run, c.status, <<>>)
  BY <1>0, ShapeKept
<1> HIDE DEF d
<1>3. /\ \A q \in Procs \ {p} : call'[q] = call[q]
      /\ call'[p].pc = "release" /\ call'[p].op = c.op /\ call'[p].run = c.run
      /\ call'[p].kept = <<>>
  BY <1>1, <1>2, BecomeCallOf
<1>4. RecordTyped(call'[p], now) /\ Elements(call'[p].kept) = {}
  BY <1>0, <1>3, NoCallRecord DEF RecordTyped, HasRecord
<1>5. FileTyped(c.kept, now) /\ c.kept \in Seq(Nat)  BY <1>0 DEF RecordTyped, FileTyped
<1>6. /\ runs' \in [Jobs -> Seq(Nat)]
      /\ \A x \in Jobs : runs'[x] = IF x = j THEN c.kept ELSE runs[x]
  BY <1>0, <1>1, <1>5
<1>7. Files'  BY <1>1, <1>3, <1>4, <1>5, <1>6 DEF RecordInv, Files
<1>8. Fresh'
  <2>1. \A q \in Procs : call'[q].run \in {call[q].run, 0}  BY <1>3
  <2>2. \A r : Filed(r, runs', call') => Filed(r, runs, call)
    BY <1>3, <1>4, <1>6 DEF Filed
  <2> QED  BY <2>1, <2>2, FreshStays DEF RecordInv
<1>9. Writers'
  <2>1. runsLock' \in [Jobs -> SUBSET Procs]
        /\ \A x \in Jobs : runsLock'[x] = IF x = j THEN runsLock[x] \ {p} ELSE runsLock[x]
    BY <1>0, <1>1 DEF RecordInv, Writers
  <2> QED  BY <1>3, <2>1 DEF RecordInv, Writers, At
<1> QED  BY <1>7, <1>8, <1>9 DEF RecordInv

(* What the death of some calls does: the records that were in their hands *)
(* are gone, and a file that one of them was rewriting has a first part of *)
(* what it was to have.                                                    *)
Gone(S, p) ==
  /\ S \subseteq Procs /\ now' = now
  /\ \A q \in S : call'[q] = NoCall
  /\ \A q \in Procs \ (S \cup {p}) : call'[q] = call[q]
  /\ p \notin S => /\ call[p].pc = "remove"
                   /\ \/ call'[p] = NoCall
                      \/ /\ call'[p].pc \in ChangePcs /\ call'[p].op = call[p].op
                         /\ call'[p].run = call[p].run /\ call'[p].kept = call[p].kept
  /\ runsLock' = [j \in Jobs |-> runsLock[j] \ S]
  /\ runs' = [j \in Jobs |-> runs'[j]] /\ written' = [j \in Jobs |-> written'[j]]
  /\ \A j \in Jobs :
       IF runsLock[j] \cap S = {} THEN runs'[j] = runs[j] /\ written'[j] = written[j]
       ELSE /\ \E w \in runsLock[j] \cap S, n \in 0 .. Keep : runs'[j] = SubSeq(call[w].kept, 1, n)
            /\ written'[j] = Elements(runs'[j])

(* A removal or a crash is such a death.                                   *)
LEMMA RecordDeath ==
  ASSUME CallsShaped, PcInv, NEW p \in Procs, Remove(p) \/ RemoveFails(p) \/ Crash(p)
  PROVE  \E S : Gone(S, p)
<1>1. PICK S, calls :
        /\ Die(S, calls) /\ S \subseteq Procs
        /\ \A q \in Procs \ {p} : calls[q] = call[q]
        /\ \/ calls = call /\ p \in S /\ Crash(p)
           \/ /\ call[p].pc = "remove"
              /\ \E l : /\ Removing(p, l)
                        /\ calls = With(p, [call[p] EXCEPT !.pc = l])
  BY EveryDeath
<1>2. /\ \A q \in Procs : call'[q] = IF q \in S THEN NoCall ELSE calls[q]
      /\ runsLock' = [j \in Jobs |-> runsLock[j] \ S] /\ now' = now
  BY <1>1 DEF Die
<1>3. ASSUME p \notin S
      PROVE  /\ call[p].pc = "remove"
             /\ \/ call'[p] = NoCall
                \/ /\ call'[p].pc \in ChangePcs /\ call'[p].op = call[p].op
                   /\ call'[p].run = call[p].run /\ call'[p].kept = call[p].kept
  <2> DEFINE c == call[p]
  <2>1. PICK l : c.pc = "remove" /\ calls = With(p, [c EXCEPT !.pc = l])
    BY <1>1, <1>3
  <2> DEFINE d == [c EXCEPT !.pc = l]
  <2>2. IsCall(c)  BY DEF CallsShaped
  <2>3. d = CallOf(l, c.op, c.job, c.snap, c.arg, c.todo, c.run, c.status, c.kept)
    BY <2>2, ShapePc
  <2>4. call'[p] = IF d.pc = "idle" THEN NoCall ELSE d
    BY <1>2, <1>3, <2>1 DEF With, CallsShaped
  <2>5. c.op # "run"  BY <2>1 DEF PcInv, Placed, RunPcs, Checked
  <2>6. CallStep(p)
    <3>1. Works(p) \/ Fails(p)  BY DEF Works, Fails
    <3> QED  BY <3>1, EveryStep
  <2>7. call'[p] = NoCall \/ call'[p].pc \in ChangePcs
    BY <2>1, <2>5, <2>6 DEF CallStep, Legal
  <2> HIDE DEF d
  <2>8. d.op = c.op /\ d.run = c.run /\ d.kept = c.kept  BY <2>3 DEF CallOf
  <2> HIDE DEF c
  <2> QED  BY <2>1, <2>4, <2>7, <2>8 DEF c
<1> DEFINE torn == {j \in Jobs : runsLock[j] \cap S # {}}
           writer(j) == CHOOSE q \in S : q \in runsLock[j]
<1>4. PICK n \in [torn -> 0 .. Keep] :
        runs' = [j \in Jobs |-> IF j \in torn THEN SubSeq(call[writer(j)].kept, 1, n[j])
                                ELSE runs[j]]
  BY <1>1 DEF Die
<1>5. written' = [j \in Jobs |-> IF j \in torn THEN Elements(runs'[j]) ELSE written[j]]
  BY <1>1 DEF Die
<1>6. ASSUME NEW j \in Jobs
      PROVE  IF runsLock[j] \cap S = {} THEN runs'[j] = runs[j] /\ written'[j] = written[j]
             ELSE /\ \E w \in runsLock[j] \cap S, m \in 0 .. Keep :
                       runs'[j] = SubSeq(call[w].kept, 1, m)
                  /\ written'[j] = Elements(runs'[j])
  <2>1. CASE runsLock[j] \cap S = {}
    <3>1. j \notin torn  BY <2>1
    <3> HIDE DEF torn, writer
    <3> QED  BY <1>4, <1>5, <2>1, <3>1
  <2>2. CASE runsLock[j] \cap S # {}
    <3>1. j \in torn  BY <2>2
    <3>2. writer(j) \in runsLock[j] \cap S  BY <2>2
    <3> HIDE DEF torn, writer
    <3>3. n[j] \in 0 .. Keep /\ runs'[j] = SubSeq(call[writer(j)].kept, 1, n[j])
          /\ written'[j] = Elements(runs'[j])
      BY <1>4, <1>5, <3>1
    <3> QED  BY <2>2, <3>2, <3>3
  <2> QED  BY <2>1, <2>2
<1>7. runs' = [j \in Jobs |-> runs'[j]] /\ written' = [j \in Jobs |-> written'[j]]
  <2> HIDE DEF torn, writer
  <2> QED  BY <1>4, <1>5
<1>8. /\ \A q \in S : call'[q] = NoCall
      /\ \A q \in Procs \ (S \cup {p}) : call'[q] = call[q]
  BY <1>1, <1>2
<1> HIDE DEF torn, writer
<1>9. Gone(S, p)
  BY <1>1, <1>2, <1>3, <1>6, <1>7, <1>8 DEF Gone
<1> QED  BY <1>9

(* It leaves the records as they should be.                                *)
LEMMA RecordsGone ==
  ASSUME RecordInv, NEW p \in Procs, NEW S, Gone(S, p)
  PROVE  RecordInv'
<1>0. now \in Nat /\ Keep \in Nat /\ now' = now /\ S \subseteq Procs
  BY JobsAssumption DEF RecordInv, Files, Gone
<1>1. ASSUME NEW q \in Procs
      PROVE  /\ RecordTyped(call'[q], now)
             /\ call'[q].run \in {call[q].run, 0}
             /\ Elements(call'[q].kept) \subseteq Elements(call[q].kept)
             /\ call'[q].pc = "rewrite" => q \notin S /\ call'[q] = call[q]
  <2>0. RecordTyped(call[q], now)  BY DEF RecordInv, Files
  <2>1. CASE call'[q] = NoCall  BY <1>0, <2>1, NoCallRecord
  <2>2. CASE q \notin S /\ call'[q] = call[q]  BY <2>0, <2>2
  <2>3. CASE /\ call'[q].pc \in ChangePcs /\ call'[q].op = call[q].op
             /\ call'[q].run = call[q].run /\ call'[q].kept = call[q].kept
    BY <2>0, <2>3 DEF RecordTyped, ChangePcs, HasRecord
  <2> QED  BY <2>1, <2>2, <2>3 DEF Gone
<1>2. ASSUME NEW j \in Jobs
      PROVE  /\ FileTyped(runs'[j], now)
             /\ \/ Elements(runs'[j]) \subseteq Elements(runs[j])
                \/ \E w \in Procs : Elements(runs'[j]) \subseteq Elements(call[w].kept)
  <2>1. CASE runsLock[j] \cap S = {}
    <3>1. runs'[j] = runs[j]  BY <2>1 DEF Gone
    <3> QED  BY <3>1 DEF RecordInv, Files
  <2>2. CASE runsLock[j] \cap S # {}
    <3>1. PICK w \in runsLock[j] \cap S, n \in 0 .. Keep : runs'[j] = SubSeq(call[w].kept, 1, n)
      BY <2>2 DEF Gone
    <3> DEFINE k == call[w].kept
    <3>2. w \in Procs /\ call[w].pc = "rewrite"  BY <1>0, <3>1 DEF RecordInv, Writers, At
    <3>3. FileTyped(k, now) /\ Len(k) = Keep
      BY <3>2 DEF RecordInv, Files, RecordTyped
    <3> HIDE DEF k
    <3>4. k \in Seq(Nat) /\ Distinct(k) /\ n \in 0 .. Len(k) /\ Elements(k) \subseteq 1 .. now
      BY <3>3 DEF FileTyped
    <3>5. /\ SubSeq(k, 1, n) \in Seq(Nat) /\ Elements(SubSeq(k, 1, n)) \subseteq Elements(k)
          /\ Distinct(SubSeq(k, 1, n))
      BY <3>4, FirstPart
    <3>6. runs'[j] = SubSeq(k, 1, n)  BY <3>1 DEF k
    <3>7. FileTyped(runs'[j], now) /\ Elements(runs'[j]) \subseteq Elements(k)
      BY <3>4, <3>5, <3>6 DEF FileTyped
    <3> QED  BY <3>2, <3>7 DEF k
  <2> QED  BY <2>1, <2>2
<1>3. runs' \in [Jobs -> Seq(Nat)]
  <2>1. \A j \in Jobs : runs'[j] \in Seq(Nat)  BY <1>2 DEF FileTyped
  <2>2. runs' = [j \in Jobs |-> runs'[j]]  BY DEF Gone
  <2> QED  BY <2>1, <2>2
<1>4. Files'  BY <1>0, <1>1, <1>2, <1>3 DEF RecordInv, Files
<1>5. Fresh'
  <2>1. \A r : Filed(r, runs', call') => Filed(r, runs, call)
    BY <1>1, <1>2 DEF Filed
  <2> QED  BY <1>1, <2>1, FreshStays DEF RecordInv
<1>6. Writers'
  <2>1. /\ runsLock \in [Jobs -> SUBSET Procs] /\ runsLock' = [j \in Jobs |-> runsLock[j] \ S]
        /\ \A j \in Jobs : \A q \in runsLock[j] : call[q].pc = "rewrite" /\ call[q].job = j
    BY DEF RecordInv, Writers, Gone, At
  <2>2. runsLock' \in [Jobs -> SUBSET Procs]  BY <2>1
  <2>3. ASSUME NEW j \in Jobs, NEW q \in runsLock'[j]  PROVE call'[q].pc = "rewrite" /\ call'[q].job = j
    <3>1. q \in runsLock[j] /\ q \in Procs /\ q \notin S  BY <2>1
    <3>2. call[q].pc = "rewrite" /\ call[q].job = j  BY <2>1, <3>1
    <3>3. q # p  BY <3>1, <3>2 DEF Gone
    <3>4. call'[q] = call[q]  BY <3>1, <3>3 DEF Gone
    <3> QED  BY <3>2, <3>4
  <2> QED  BY <2>2, <2>3 DEF Writers, At
<1> QED  BY <1>4, <1>5, <1>6 DEF RecordInv

(* RecordInv is inductive.                                                 *)
LEMMA RecordStep ==
  ASSUME CallsShaped, PcInv, Typed, RecordInv, NEW p \in Procs, Works(p) \/ Fails(p)
  PROVE  RecordInv'
<1>1. call[p].job \in Jobs  BY DEF Typed, CallTyped
<1>2. CASE Remove(p) \/ RemoveFails(p) \/ Crash(p)
  <2>1. PICK S : Gone(S, p)  BY <1>2, RecordDeath
  <2> QED  BY <2>1, RecordsGone
<1> QED  BY <1>1, <1>2, RecordSteps, RecordsQuiet, RecordsNew, RecordsAppend, RecordsPrune,
            RecordsRewrite

(* There are no records at first.                                          *)
LEMMA InitRecords == Init => RecordInv
<1> SUFFICES ASSUME Init  PROVE RecordInv
  OBVIOUS
<1>1. /\ runs = [j \in Jobs |-> <<>>] /\ now = 0 /\ runsLock = [j \in Jobs |-> {}]
      /\ \A p \in Procs : call[p] = NoCall
  BY DEF Init
<1>2. /\ RecordTyped(NoCall, 0) /\ NoCall.run = 0 /\ FileTyped(<<>>, 0)
  BY NoCallRecord
<1>3. Files
  <2>1. 0 \in 0 .. MaxRuns  BY JobsAssumption
  <2>2. runs \in [Jobs -> Seq(Nat)]  BY <1>1
  <2> QED  BY <1>1, <1>2, <2>1, <2>2 DEF Files
<1>4. Fresh  BY <1>1, <1>2 DEF Fresh
<1>5. Writers  BY <1>1 DEF Writers
<1> QED  BY <1>3, <1>4, <1>5 DEF RecordInv

(* What is left of TypeOK.                                                 *)
Rest == born \subseteq Jobs /\ runLock \in [Jobs -> SUBSET Procs]

(* Only a save makes jobs known, only claims, releases and deaths move the *)
(* locks of the jobs.                                                      *)
LEMMA RestStep ==
  ASSUME CallsShaped, PcInv, LockHeld, Rest, [Next]_vars
  PROVE  Rest'
<1>1. CASE UNCHANGED vars  BY <1>1 DEF vars, Rest
<1>2. ASSUME NEW p \in Procs, Works(p) \/ Fails(p)  PROVE Rest'
  <2>1. born' \subseteq Jobs
    BY <1>2, StoreStep DEF Rest, Quiet, LockStore, SaveStore
  <2>2. runLock' \in [Jobs -> SUBSET Procs]
    <3>0. runLock \in [Jobs -> SUBSET Procs]  BY DEF Rest
    <3>1. CASE RunQuiet(p)  BY <3>0, <3>1 DEF RunQuiet
    <3>2. CASE SaveStore(p) \/ StoreError(p) \/ \E st \in Outcomes, r \in BOOLEAN : EndSession(p, st, r)
      BY <3>0, <3>2 DEF SaveStore, StoreError, EndSession, runVars
    <3>3. CASE Claim(p) \/ Release(p)
      BY <3>0, <3>3 DEF Claim, Release
    <3>4. CASE Remove(p) \/ RemoveFails(p) \/ Crash(p)
      <4>1. PICK S : runLock' = [j \in Jobs |-> runLock[j] \ S]
        BY <3>4, EveryDeath DEF Die
      <4> QED  BY <3>0, <4>1
    <3> QED  BY <1>2, <3>1, <3>2, <3>3, <3>4, RunSteps
  <2> QED  BY <2>1, <2>2 DEF Rest
<1> QED  BY <1>1, <1>2 DEF Next

(* All of TypeOK, for any fronts, jobs, processes and records, whether or  *)
(* not locks exclude: no file of records has one twice, so that readAll    *)
(* can sort it and a rewrite has Keep of them.                             *)
THEOREM TypeOK_always == Spec => []TypeOK
<1> DEFINE Base == CallsShaped /\ PcInv /\ Typed /\ LockHeld /\ Rest /\ RecordInv
<1>1. Base => TypeOK
  <2> SUFFICES ASSUME Base  PROVE TypeOK
    OBVIOUS
  <2>1. ASSUME NEW p \in Procs  PROVE call[p] \in Call
    <3> DEFINE c == call[p]
    <3>1. IsCall(c)  BY DEF CallsShaped
    <3>2. CallTyped(c)  BY DEF Typed
    <3>3. RecordTyped(c, now)  BY DEF RecordInv, Files
    <3>4. c.pc \in Labels  BY DEF PcInv, Placed, RunPcs, Checked, ChangePcs, Labels
    <3>5. now \in Nat  BY DEF RecordInv, Files
    <3> HIDE DEF c
    <3>6. c.job \in Jobs /\ c.snap \in [Jobs -> Job \cup {Absent}] /\ c.arg \in Timer
          /\ c.todo \in SUBSET Action /\ c.status \in Outcomes
      BY <3>2 DEF CallTyped, Rows
    <3>7. c.op \in Calls /\ c.run \in Nat /\ c.kept \in Seq(Nat)
      BY <3>3, <3>5 DEF RecordTyped, FileTyped
    <3>8. c \in Call  BY <3>1, <3>4, <3>6, <3>7 DEF IsCall, Call
    <3> QED  BY <3>8 DEF c
  <2>2. call \in [Procs -> Call]  BY <2>1 DEF CallsShaped
  <2>3. /\ jobs \in [Jobs -> Job \cup {Absent}] /\ timers \in [Jobs -> Timer \cup {NoTimer}]
        /\ runs \in [Jobs -> Seq(Nat)] /\ now \in 0 .. MaxRuns
        /\ runsLock \in [Jobs -> SUBSET Procs] /\ storeLock \subseteq Procs
    BY DEF Typed, Rows, RecordInv, Files, Writers, LockHeld
  <2> QED  BY <2>2, <2>3 DEF TypeOK, Rest
<1>2. Init => Base
  BY InitInv, InitTyped, InitRecords DEF Init, LockHeld, Rest
<1>3. Base /\ [Next]_vars => Base'
  <2> SUFFICES ASSUME Base, [Next]_vars  PROVE Base'
    OBVIOUS
  <2>1. CallsShaped' /\ PcInv' /\ Typed' /\ LockHeld' /\ Rest'
    BY StepInv, TypedStep, HeldStep, RestStep
  <2>2. RecordInv'
    <3>1. CASE UNCHANGED vars
      BY <3>1 DEF vars, RecordInv, Files, Fresh, Writers, At
    <3>2. ASSUME NEW p \in Procs, Works(p) \/ Fails(p)  PROVE RecordInv'
      BY <3>2, RecordStep
    <3> QED  BY <3>1, <3>2 DEF Next
  <2> QED  BY <2>1, <2>2
<1> HIDE DEF Base
<1> QED  BY <1>1, <1>2, <1>3, PTL DEF Spec

-----------------------------------------------------------------------------
(***************************************************************************)
(* The newest records.  Where a lock has one holder, the file a prune is   *)
(* about to rewrite is as it has read it, since an append takes the lock.  *)
(***************************************************************************)
RewritesCurrent ==
  \A q \in Procs : At(q, "rewrite") =>
    /\ runsLock[call[q].job] = {q} /\ Len(runs[call[q].job]) > Keep
    /\ call[q].kept = SubSeq(ReadAll(runs[call[q].job]), 1, Keep)

(* All records ever written are in the file or have Keep newer ones there. *)
NewestOf(all, f) ==
  \A r \in all \ Elements(f) : Cardinality({k \in Elements(f) : k > r}) >= Keep

NewestInv == /\ written \in [Jobs -> SUBSET Nat] /\ RewritesCurrent
             /\ \A j \in Jobs : NewestOf(written[j], runs[j])

(* A step that starts no rewrite, and meets none with what it changes.     *)
LEMMA RewritesStay ==
  ASSUME RewritesCurrent,
         \A q \in Procs : call'[q].pc = "rewrite" =>
           /\ call'[q] = call[q] /\ runs'[call[q].job] = runs[call[q].job]
           /\ runsLock'[call[q].job] = runsLock[call[q].job]
  PROVE  RewritesCurrent'
<1>1. ASSUME NEW q \in Procs, call'[q].pc = "rewrite"
      PROVE  /\ runsLock'[call'[q].job] = {q} /\ Len(runs'[call'[q].job]) > Keep
             /\ call'[q].kept = SubSeq(ReadAll(runs'[call'[q].job]), 1, Keep)
  <2>1. /\ call'[q] = call[q] /\ runs'[call[q].job] = runs[call[q].job]
        /\ runsLock'[call[q].job] = runsLock[call[q].job]
    BY <1>1
  <2>2. /\ runsLock[call[q].job] = {q} /\ Len(runs[call[q].job]) > Keep
        /\ call[q].kept = SubSeq(ReadAll(runs[call[q].job]), 1, Keep)
    BY <1>1, <2>1 DEF RewritesCurrent, At
  <2> QED  BY <2>1, <2>2
<1> QED  BY <1>1 DEF RewritesCurrent, At

(* Records that are added to a file make it no worse.                      *)
LEMMA NewestAppend ==
  ASSUME NEW n \in Nat, NEW f, FileTyped(f, n), NEW g, FileTyped(g, n), NEW r \in Nat,
         Elements(g) = Elements(f) \cup {r}, NEW all \in SUBSET Nat, NewestOf(all, f)
  PROVE  NewestOf(all \cup {r}, g)
<1> SUFFICES ASSUME NEW x \in (all \cup {r}) \ Elements(g)
             PROVE  Cardinality({k \in Elements(g) : k > x}) >= Keep
  BY DEF NewestOf
<1> DEFINE A == {k \in Elements(f) : k > x}
           B == {k \in Elements(g) : k > x}
<1>1. x \in all \ Elements(f)  OBVIOUS
<1>2. Cardinality(A) >= Keep  BY <1>1 DEF NewestOf
<1>3. IsFiniteSet(Elements(g))  BY DistinctCount DEF FileTyped
<1>4. A \in SUBSET B /\ B \in SUBSET Elements(g)  OBVIOUS
<1> HIDE DEF A, B
<1>5. IsFiniteSet(B)  BY <1>3, <1>4, FS_Subset
<1>6. IsFiniteSet(A) /\ Cardinality(A) <= Cardinality(B)  BY <1>4, <1>5, FS_Subset
<1>7. Cardinality(A) \in Nat /\ Cardinality(B) \in Nat /\ Keep \in Nat
  BY <1>5, <1>6, FS_CardinalityType, JobsAssumption
<1>8. Cardinality(B) >= Keep  BY <1>2, <1>6, <1>7
<1> QED  BY <1>8 DEF B

(* NewestInv is inductive.                                                 *)
LEMMA NewestStep ==
  ASSUME AtomicLocks, CallsShaped, PcInv, Typed, RecordInv, NewestInv,
         NEW p \in Procs, Works(p) \/ Fails(p), RecordInv'
  PROVE  NewestInv'
<1> DEFINE c == call[p]
           j == c.job
<1>0. /\ j \in Jobs /\ now \in Nat /\ now' \in Nat /\ RewritesCurrent
      /\ written \in [Jobs -> SUBSET Nat]
      /\ \A x \in Jobs : FileTyped(runs[x], now) /\ FileTyped(runs'[x], now')
      /\ \A x \in Jobs : NewestOf(written[x], runs[x])
  BY DEF Typed, CallTyped, RecordInv, Files, NewestInv
<1>1. ASSUME UNCHANGED <<runs, runsLock, written>>, call[p].pc # "rewrite",
             call'[p].pc # "rewrite", \A q \in Procs \ {p} : call'[q] = call[q]
      PROVE  NewestInv'
  BY <1>0, <1>1, RewritesStay DEF NewestInv
<1>2. CASE RecordQuiet(p)
  <2>1. call'[p].pc # "rewrite"  BY <1>2, NoCallShape DEF RecordQuiet
  <2> QED  BY <1>1, <1>2, <2>1 DEF RecordQuiet, At
<1>3. ASSUME NEW l \in {"trace", "claim"}, NewRecord(p, l), UNCHANGED <<runs, runsLock, written>>,
             ~At(p, "rewrite")
      PROVE  NewestInv'
  <2>1. Turns(p, l, c.op, c.job, c.snap, c.arg, c.todo, c.status)
    BY <1>3, TurnRecord
  <2> QED  BY <1>1, <1>3, <2>1 DEF Turns, At
<1>4. CASE AppendRun(p)
  <2> DEFINE l == IF c.pc = "append" THEN "prune" ELSE "idle"
  <2>1. Turns(p, l, c.op, c.job, c.snap, c.arg, c.todo, NoCall.status)
    BY <1>4, TurnAppend
  <2>2. /\ \A q \in Procs \ {p} : call'[q] = call[q]
        /\ call'[p].pc # "rewrite" /\ call[p].pc \in {"append", "trace"}
    BY <1>4, <2>1, NoCallShape DEF Turns, AppendRun
  <2>3. CASE UNCHANGED <<runs, written>>
    BY <1>1, <1>4, <2>2, <2>3 DEF AppendRun
  <2>4. CASE /\ OpenTo(p, runsLock[j]) /\ runs' = [runs EXCEPT ![j] = Append(@, c.run)]
             /\ written' = [written EXCEPT ![j] = @ \cup {c.run}]
    <3>1. runsLock[j] = {} /\ runsLock' = runsLock  BY <1>4, <2>4 DEF OpenTo, AppendRun
    <3>2. /\ \A x \in Jobs \ {j} : runs'[x] = runs[x] /\ written'[x] = written[x]
          /\ runs'[j] = Append(runs[j], c.run) /\ written'[j] = written[j] \cup {c.run}
          /\ written' = [x \in Jobs |-> written'[x]]
      BY <1>0, <2>4 DEF RecordInv, Files
    <3>3. /\ c.run \in 1 .. now /\ c.run \in Nat /\ c.run \notin Elements(runs[j])
      <4>1. RecordTyped(c, now) /\ c.run # 0
        BY <2>2 DEF RecordInv, Files, RecordTyped, HasRecord
      <4>2. Own(p, runs, call)  BY <4>1 DEF RecordInv, Fresh
      <4> QED  BY <1>0, <4>1, <4>2 DEF RecordTyped, Own, Filed
    <3>4. /\ FileTyped(Append(runs[j], c.run), now)
          /\ Elements(Append(runs[j], c.run)) = Elements(runs[j]) \cup {c.run}
      BY <1>0, <3>3, AppendFile
    <3>5. NewestOf(written[j] \cup {c.run}, Append(runs[j], c.run))
      BY <1>0, <3>3, <3>4, NewestAppend
    <3> HIDE DEF c, j
    <3>6. \A x \in Jobs : NewestOf(written'[x], runs'[x])
      BY <1>0, <3>2, <3>5
    <3>7. written' \in [Jobs -> SUBSET Nat]
      <4>1. \A x \in Jobs : written'[x] \in SUBSET Nat  BY <1>0, <3>2, <3>3
      <4> QED  BY <3>2, <4>1
    <3>8. \A q \in Procs : call'[q].pc = "rewrite" =>
            /\ call'[q] = call[q] /\ runs'[call[q].job] = runs[call[q].job]
            /\ runsLock'[call[q].job] = runsLock[call[q].job]
      <4>1. ASSUME NEW q \in Procs, call'[q].pc = "rewrite"
            PROVE  call'[q] = call[q] /\ runs'[call[q].job] = runs[call[q].job]
        <5>1. q # p /\ call'[q] = call[q] /\ call[q].pc = "rewrite"  BY <2>2, <4>1
        <5>2. runsLock[call[q].job] = {q} /\ call[q].job \in Jobs
          BY <1>0, <5>1 DEF RewritesCurrent, At, Typed, CallTyped
        <5>3. call[q].job # j  BY <3>1, <5>2
        <5> QED  BY <3>2, <5>1, <5>2, <5>3
      <4> QED  BY <3>1, <4>1
    <3>9. RewritesCurrent'  BY <1>0, <3>8, RewritesStay
    <3> QED  BY <3>6, <3>7, <3>9 DEF NewestInv
  <2> QED  BY <1>4, <2>3, <2>4 DEF AppendRun
<1>5. CASE Prune(p)
  <2>1. UNCHANGED <<runs, written>> /\ call[p].pc = "prune"  BY <1>5 DEF Prune, At
  <2>2. CASE Goto(p, "release") /\ UNCHANGED runsLock
    <3>1. Turns(p, "release", c.op, c.job, c.snap, c.arg, c.todo, c.status)
      BY <2>2, TurnGoto
    <3> QED  BY <1>1, <2>1, <2>2, <3>1 DEF Turns
  <2>3. CASE /\ OpenTo(p, runsLock[j]) /\ Len(ReadAll(runs[j])) > Keep
             /\ runsLock' = [runsLock EXCEPT ![j] = @ \cup {p}]
             /\ Become(p, [c EXCEPT !.pc = "rewrite", !.kept = SubSeq(ReadAll(runs[j]), 1, Keep)])
    <3> DEFINE k == SubSeq(ReadAll(runs[j]), 1, Keep)
               d == [c EXCEPT !.pc = "rewrite", !.kept = k]
    <3>1. Become(p, d) /\ IsCall(c)  BY <2>3 DEF CallsShaped
    <3>2. runs[j] \in Seq(Nat) /\ Distinct(runs[j])  BY <1>0 DEF FileTyped
    <3>3. Len(runs[j]) > Keep
      <4>1. Len(ReadAll(runs[j])) = Len(runs[j])  BY <3>2, ReadAllReads
      <4> QED  BY <2>3, <4>1
    <3> HIDE DEF k
    <3>4. d = CallOf("rewrite", c.op, c.job, c.snap, c.arg, c.todo, c.run, c.status, k)
      BY <3>1, ShapeKept
    <3> HIDE DEF d
    <3>5. /\ \A q \in Procs \ {p} : call'[q] = call[q]
          /\ call'[p].pc = "rewrite" /\ call'[p].job = j /\ call'[p].kept = k
      BY <3>1, <3>4, BecomeCallOf
    <3>6. runsLock[j] = {}  BY <2>3 DEF OpenTo
    <3>7. \A x \in Jobs : runsLock'[x] = IF x = j THEN {p} ELSE runsLock[x]
      BY <1>0, <2>3, <3>6 DEF RecordInv, Writers
    <3> HIDE DEF j
    <3>8. RewritesCurrent'
      <4>1. ASSUME NEW q \in Procs \ {p}, call'[q].pc = "rewrite"
            PROVE  /\ runsLock'[call'[q].job] = {q} /\ Len(runs'[call'[q].job]) > Keep
                   /\ call'[q].kept = SubSeq(ReadAll(runs'[call'[q].job]), 1, Keep)
        <5>1. call'[q] = call[q] /\ call[q].job \in Jobs  BY <3>5 DEF Typed, CallTyped
        <5>2. /\ runsLock[call[q].job] = {q} /\ Len(runs[call[q].job]) > Keep
              /\ call[q].kept = SubSeq(ReadAll(runs[call[q].job]), 1, Keep)
          BY <1>0, <4>1, <5>1 DEF RewritesCurrent, At
        <5>3. call[q].job # j  BY <3>6, <5>2
        <5> QED  BY <2>1, <3>7, <5>1, <5>2, <5>3
      <4>2. /\ runsLock'[call'[p].job] = {p} /\ Len(runs'[call'[p].job]) > Keep
            /\ call'[p].kept = SubSeq(ReadAll(runs'[call'[p].job]), 1, Keep)
        BY <1>0, <2>1, <3>3, <3>5, <3>7 DEF k
      <4> QED  BY <4>1, <4>2 DEF RewritesCurrent, At
    <3> QED  BY <1>0, <2>1, <3>8 DEF NewestInv
  <2> QED  BY <1>5, <2>2, <2>3 DEF Prune
<1>6. CASE Rewrite(p)
  <2>1. /\ c.pc = "rewrite" /\ runs' = [runs EXCEPT ![j] = c.kept] /\ written' = written
        /\ runsLock' = [runsLock EXCEPT ![j] = @ \ {p}]
        /\ Become(p, [c EXCEPT !.pc = "release", !.kept = <<>>])
    BY <1>6 DEF Rewrite, At
  <2>2. Turns(p, "release", c.op, c.job, c.snap, c.arg, c.todo, c.status)
    BY <2>1, TurnKept
  <2>3. /\ \A q \in Procs \ {p} : call'[q] = call[q]
        /\ call'[p].pc = "release"
    BY <2>2 DEF Turns
  <2>4. /\ \A x \in Jobs \ {j} : runs'[x] = runs[x] /\ runsLock'[x] = runsLock[x]
        /\ runs'[j] = c.kept
    BY <1>0, <2>1 DEF RecordInv, Files, Writers
  <2>5. /\ runsLock[j] = {p} /\ Len(runs[j]) > Keep
        /\ c.kept = SubSeq(ReadAll(runs[j]), 1, Keep)
    BY <1>0, <2>1 DEF RewritesCurrent, At
  <2>6. NewestOf(written[j], c.kept)
    <3>1. ASSUME NEW r \in written[j] \ Elements(c.kept)
          PROVE  Cardinality({x \in Elements(c.kept) : x > r}) >= Keep
      <4>1. r \in Nat /\ runs[j] \in Seq(Nat) /\ Distinct(runs[j])
        BY <1>0 DEF FileTyped
      <4>2. r \in Elements(runs[j]) \/ Cardinality({x \in Elements(runs[j]) : x > r}) >= Keep
        BY <1>0, <3>1 DEF NewestOf
      <4>3. r \notin Elements(SubSeq(ReadAll(runs[j]), 1, Keep))  BY <2>5, <3>1
      <4> HIDE DEF j
      <4>4. LET S == Elements(SubSeq(ReadAll(runs[j]), 1, Keep)) IN
            Cardinality({x \in S : x > r}) >= Keep
        BY <2>5, <4>1, <4>2, <4>3, KeptAreNewest
      <4> QED  BY <2>5, <4>4
    <3> QED  BY <3>1 DEF NewestOf
  <2>7. \A x \in Jobs : NewestOf(written'[x], runs'[x])
    BY <1>0, <2>1, <2>4, <2>6
  <2>8. \A q \in Procs : call'[q].pc = "rewrite" =>
          /\ call'[q] = call[q] /\ runs'[call[q].job] = runs[call[q].job]
          /\ runsLock'[call[q].job] = runsLock[call[q].job]
    <3>1. ASSUME NEW q \in Procs, call'[q].pc = "rewrite"
          PROVE  call'[q] = call[q] /\ call[q].job \in Jobs \ {j}
      <4>1. q # p /\ call'[q] = call[q]  BY <2>3, <3>1
      <4>2. runsLock[call[q].job] = {q} /\ call[q].job \in Jobs
        BY <1>0, <3>1, <4>1 DEF RewritesCurrent, At, Typed, CallTyped
      <4> QED  BY <2>5, <4>1, <4>2
    <3> QED  BY <2>4, <3>1
  <2>9. RewritesCurrent'  BY <1>0, <2>8, RewritesStay
  <2> QED  BY <1>0, <2>1, <2>7, <2>9 DEF NewestInv
<1>7. CASE Remove(p) \/ RemoveFails(p) \/ Crash(p)
  <2>1. PICK S : Gone(S, p)  BY <1>7, RecordDeath
  <2>2. ASSUME NEW x \in Jobs
        PROVE  NewestOf(written'[x], runs'[x]) /\ written'[x] \in SUBSET Nat
    <3>1. CASE runsLock[x] \cap S = {}  BY <1>0, <2>1, <3>1 DEF Gone
    <3>2. CASE runsLock[x] \cap S # {}
      <4>1. written'[x] = Elements(runs'[x])  BY <2>1, <3>2 DEF Gone
      <4>2. now' \in Nat /\ FileTyped(runs'[x], now')  BY <1>0
      <4>3. Elements(runs'[x]) \subseteq 1 .. now'  BY <4>2 DEF FileTyped
      <4>4. Elements(runs'[x]) \subseteq Nat  BY <4>2, <4>3
      <4> QED  BY <4>1, <4>4 DEF NewestOf
    <3> QED  BY <3>1, <3>2
  <2>3. written' \in [Jobs -> SUBSET Nat]  BY <2>1, <2>2 DEF Gone
  <2>4. \A q \in Procs : call'[q].pc = "rewrite" =>
          /\ call'[q] = call[q] /\ runs'[call[q].job] = runs[call[q].job]
          /\ runsLock'[call[q].job] = runsLock[call[q].job]
    <3>1. ASSUME NEW q \in Procs, call'[q].pc = "rewrite"
          PROVE  /\ call'[q] = call[q] /\ runs'[call[q].job] = runs[call[q].job]
                 /\ runsLock'[call[q].job] = runsLock[call[q].job]
      <4>1. q \notin S  BY <2>1, <3>1, NoCallShape DEF Gone
      <4>2. q # p
        BY <2>1, <3>1, <4>1, NoCallShape DEF Gone, ChangePcs
      <4>3. call'[q] = call[q]  BY <2>1, <4>1, <4>2 DEF Gone
      <4>4. runsLock[call[q].job] = {q} /\ call[q].job \in Jobs
        BY <1>0, <3>1, <4>3 DEF RewritesCurrent, At, Typed, CallTyped
      <4>5. runsLock[call[q].job] \cap S = {} /\ runsLock[call[q].job] \ S = {q}
        BY <4>1, <4>4
      <4> QED  BY <2>1, <4>3, <4>4, <4>5 DEF Gone
    <3> QED  BY <3>1
  <2>5. RewritesCurrent'  BY <1>0, <2>4, RewritesStay
  <2> QED  BY <2>2, <2>3, <2>5 DEF NewestInv
<1> QED  BY <1>2, <1>3, <1>4, <1>5, <1>6, <1>7, RecordSteps

(* Of the records written, the newest Keep are in the file, for any runs   *)
(* that append and prune and die, as long as AcquireLock gives each lock   *)
(* to one process at a time (Append and Prune take runs/<job>.lock before  *)
(* they read).                                                             *)
THEOREM NewestRunsKept_always == AtomicLocks /\ Spec => []NewestRunsKept
<1> DEFINE Base == CallsShaped /\ PcInv /\ Typed /\ RecordInv
<1>1. NewestInv => NewestRunsKept
  BY DEF NewestInv, NewestOf, NewestRunsKept
<1>2. Init => Base /\ NewestInv
  <2>1. Init => NewestInv
    <3> SUFFICES ASSUME Init  PROVE NewestInv
      OBVIOUS
    <3>1. \A q \in Procs : ~At(q, "rewrite")  BY NoCallShape DEF Init, At
    <3>2. written = [x \in Jobs |-> {}]  BY DEF Init
    <3> QED  BY <3>1, <3>2 DEF NewestInv, RewritesCurrent, NewestOf
  <2> QED  BY <2>1, InitInv, InitTyped, InitRecords
<1>3. ASSUME AtomicLocks, Base, NewestInv, [Next]_vars  PROVE Base' /\ NewestInv'
  <2>1. CallsShaped' /\ PcInv' /\ Typed'  BY <1>3, StepInv, TypedStep
  <2>2. CASE UNCHANGED vars
    <3>1. RecordInv'
      BY <1>3, <2>2 DEF vars, RecordInv, Files, Fresh, Writers, At
    <3>2. NewestInv'
      BY <1>3, <2>2 DEF vars, NewestInv, RewritesCurrent, At
    <3> QED  BY <2>1, <3>1, <3>2
  <2>3. ASSUME NEW p \in Procs, Works(p) \/ Fails(p)  PROVE Base' /\ NewestInv'
    <3>1. RecordInv'  BY <1>3, <2>3, RecordStep
    <3> QED  BY <1>3, <2>1, <2>3, <3>1, NewestStep
  <2> QED  BY <1>3, <2>2, <2>3 DEF Next
<1>4. CASE AtomicLocks
  <2>1. Base /\ NewestInv /\ [Next]_vars => (Base /\ NewestInv)'  BY <1>3, <1>4
  <2> HIDE DEF Base
  <2> QED  BY <1>1, <1>2, <2>1, PTL DEF Spec
<1> QED  BY <1>4
=============================================================================
