---------------------------- MODULE ProjectState ----------------------------
(***************************************************************************)
(* One project's state.json and everything that writes it: the lifecycle   *)
(* handlers of the dashboard (internal/web/handlers/lifecycle.go with      *)
(* internal/web/apply) and pipeline runs (internal/pipeline with           *)
(* state.MergePipelineResult), together with the two files written beside  *)
(* it, todos.md and the target file of the apply blocks.                   *)
(*                                                                         *)
(* A handler holds the project's lock from its Load to its Save.  A run    *)
(* loads its snapshot without the lock and takes it to merge at the end;   *)
(* nothing guards its read and its rewriting of todos.md.                  *)
(* A `dreamer analyze` process has a lock of its own, so it excludes       *)
(* nobody.  Left out: ChatHashes, usage counters and the Phase 1 cache;    *)
(* the second merge of a run that fails after Phase 1.                     *)
(***************************************************************************)
EXTENDS Naturals, Sequences, FiniteSets

CONSTANTS
  Findings,     \* finding hashes
  Strategy,     \* the strategy of each finding's apply block, or "none"
  Recorded,     \* findings that earlier runs have recorded
  Handlers,     \* concurrent lifecycle requests
  Runs,         \* pipeline runs, one of the daemon's at a time
  Foreign,      \* those of them that run in a `dreamer analyze` process
  Calls,        \* the calls clients make: <<transition, status of the finding>>
  MaxHashes,    \* MaxFindingHashes, a bound of the code
  MaxFile,      \* bound: pieces of text in the target file
  SaveCanFail   \* whether state.Save may fail

Statuses    == {"absent", "open", "applied", "dismissed", "resolved"}
Transitions == {"apply", "undo", "dismiss", "resolve", "undismiss", "unresolve"}

ASSUME StateAssumption ==
  /\ Strategy \in [Findings -> {"none", "append-file", "replace-file", "append-section"}]
  /\ Recorded \subseteq Findings
  /\ Handlers \cap Runs = {} /\ "free" \notin Handlers \cup Runs
  /\ Foreign \subseteq Runs
  /\ Calls \subseteq Transitions \X (Statuses \ {"absent"})
  /\ MaxHashes \in Nat /\ MaxFile \in Nat
  /\ SaveCanFail \in BOOLEAN

Actors == Handlers \cup Runs
Local  == Actors \ Foreign

VARIABLES
  disk,     \* state.json: Findings and FindingHashes
  todos,    \* findings listed in todos.md
  target,   \* the target file: snippets and the operator's own text
  lock,     \* who holds the daemon's ProjectLock, or "free"
  pc,       \* idle, loaded, analysing, listing, unmerged or saving
  copy,     \* the state each actor has loaded
  request,  \* transition and finding of each handler
  draft,    \* what each run has read of todos.md, and what it will add
  deleted,  \* history: findings whose entry a call has come to delete
  raced     \* history: findings a run listed while another was rewriting todos.md

vars == <<disk, todos, target, lock, pc, copy, request, draft, deleted, raced>>

\* A FindingState.  The zero value stands for a missing key, as in Go; status
\* "" is "open".  AppliedAt is set and cleared together with the reversal.
Absent  == [status |-> "absent", spec |-> FALSE, reversal |-> {}]
Shown(entry) == IF entry.status = "absent" THEN "open" ELSE entry.status
Nothing == [findings |-> [f \in Findings |-> Absent], hashes |-> {}]
NoDraft == [read |-> {}, new |-> {}]

\* Every variable has its type; a FindingState holds at most one reversal.
TypeOK ==
  /\ \A s \in {disk} \cup {copy[a] : a \in Actors} :
       /\ s.hashes \subseteq Findings
       /\ \A f \in Findings :
            LET e == s.findings[f] IN
            /\ e.status \in Statuses /\ e.spec \in BOOLEAN
            /\ \A r, q \in e.reversal : r = q
            /\ e.status = "applied" => e.reversal # {}
            /\ e.status \in {"absent", "open"} => e.reversal = {}
            /\ e.status = "absent" => ~e.spec
  /\ todos \subseteq Findings
  /\ target \in Seq(Findings \cup {"edit"})
  /\ lock \in Local \cup {"free"}
  /\ pc \in [Actors -> {"idle", "loaded", "analysing", "listing", "unmerged", "saving"}]
  /\ draft \in [Runs -> [read : SUBSET Findings, new : SUBSET Findings]]
  /\ deleted \subseteq Findings /\ raced \subseteq Findings

\* What earlier runs have left.
Init ==
  /\ disk = [findings |-> [f \in Findings |->
                IF f \in Recorded /\ Strategy[f] # "none"
                THEN [Absent EXCEPT !.status = "open", !.spec = TRUE] ELSE Absent],
             hashes |-> Recorded]
  /\ todos = Recorded
  /\ target = <<>>
  /\ lock = "free"
  /\ pc = [a \in Actors |-> "idle"]
  /\ copy = [a \in Actors |-> Nothing]
  /\ request = [h \in Handlers |-> <<>>]
  /\ draft = [r \in Runs |-> NoDraft]
  /\ deleted = {} /\ raced = {}

history == <<deleted, raced>>

\* The actors hold nothing any more.
Gone(actors) ==
  /\ pc'   = [a \in Actors |-> IF a \in actors THEN "idle" ELSE pc[a]]
  /\ copy' = [a \in Actors |-> IF a \in actors THEN Nothing ELSE copy[a]]
  /\ lock' = IF lock \in actors THEN "free" ELSE lock
  /\ request' = [h \in Handlers |-> IF h \in actors THEN <<>> ELSE request[h]]
  /\ draft' = [r \in Runs |-> IF r \in actors THEN NoDraft ELSE draft[r]]

Done(a) == Gone({a})

(***************************************************************************)
(* The lifecycle handlers.                                                 *)
(***************************************************************************)
\* resolveProjectAndState.
Load(h, t, f) ==
  /\ pc[h] = "idle" /\ lock = "free"
  /\ <<t, Shown(disk.findings[f])>> \in Calls
  /\ lock' = h
  /\ pc' = [pc EXCEPT ![h] = "loaded"]
  /\ copy' = [copy EXCEPT ![h] = disk]
  /\ request' = [request EXCEPT ![h] = <<t, f>>]
  /\ UNCHANGED <<disk, todos, target, draft, history>>

\* Apply and Undo have several checks and may fail on the file; they then
\* return before they change anything.
Refuse(h) ==
  /\ pc[h] = "loaded" /\ request[h][1] \in {"apply", "undo"}
  /\ Done(h)
  /\ UNCHANGED <<disk, todos, target, history>>

Becomes(h, f, entry) ==
  /\ copy' = [copy EXCEPT ![h].findings[f] = entry]
  /\ pc' = [pc EXCEPT ![h] = "saving"]
  /\ UNCHANGED <<disk, todos, lock, request, draft, raced>>

\* The text after a strategy.  append-section replaces a section that is there;
\* the operator's own text counts as sections of its own.
Transform(text, f) ==
  IF Strategy[f] = "replace-file" THEN <<f>>
  ELSE IF Strategy[f] = "append-section" /\ \E i \in DOMAIN text : text[i] = f THEN text
  ELSE Append(text, f)

ApplyFile(h, f) ==
  LET e == copy[h].findings[f] IN
  /\ pc[h] = "loaded" /\ request[h] = <<"apply", f>>
  /\ e.spec
  /\ ~(e.status = "applied" /\ e.reversal # {})
  /\ Len(Transform(target, f)) <= MaxFile
  /\ target' = Transform(target, f)
  /\ Becomes(h, f, [e EXCEPT !.status = "applied",
                             !.reversal = {[pre |-> target, post |-> target']}])
  /\ UNCHANGED deleted

\* Fault: the entry is dropped, with its apply plan.
FaultForgetPlan(h, f) ==
  LET e == copy[h].findings[f] IN
  /\ pc[h] = "loaded" /\ request[h] = <<"undo", f>>
  /\ e.status = "applied"
  /\ \E r \in e.reversal : target = r.post /\ target' = r.pre
  /\ Becomes(h, f, Absent)
  /\ UNCHANGED deleted

UndoFile(h, f) ==
  LET e == copy[h].findings[f] IN
  /\ pc[h] = "loaded" /\ request[h] = <<"undo", f>>
  /\ e.status = "applied"
  /\ \E r \in e.reversal : target = r.post /\ target' = r.pre
  /\ Becomes(h, f, [e EXCEPT !.status = "open", !.reversal = {}])
  /\ UNCHANGED deleted

\* Fault: a dismissed finding starts afresh.
FaultSetAside(h, f) ==
  /\ pc[h] = "loaded"
  /\ \E t \in {<<"dismiss", "dismissed">>, <<"resolve", "resolved">>} :
       /\ request[h] = <<t[1], f>>
       /\ Becomes(h, f, [Absent EXCEPT !.status = t[2]])
  /\ UNCHANGED <<target, deleted>>

\* Dismiss and Resolve.
SetAside(h, f) ==
  /\ pc[h] = "loaded"
  /\ \E t \in {<<"dismiss", "dismissed">>, <<"resolve", "resolved">>} :
       /\ request[h] = <<t[1], f>>
       /\ Becomes(h, f, [copy[h].findings[f] EXCEPT !.status = t[2]])
  /\ UNCHANGED <<target, deleted>>

TakenBack(e) == IF e.reversal # {} THEN [e EXCEPT !.status = "applied"] ELSE Absent

\* Undismiss and Unresolve; nothing happens to a finding in another status.
TakeBack(h, f) ==
  LET e == copy[h].findings[f] IN
  /\ pc[h] = "loaded"
  /\ \E t \in {<<"undismiss", "dismissed">>, <<"unresolve", "resolved">>} :
       /\ request[h] = <<t[1], f>>
       /\ Becomes(h, f, IF e.status = t[2] THEN TakenBack(e) ELSE e)
       /\ deleted' = IF e.status = t[2] /\ e.reversal = {} THEN deleted \cup {f} ELSE deleted
  /\ UNCHANGED target

\* state.Save, of a handler and of a merge, and the release of the lock.
Save(a) ==
  /\ pc[a] = "saving"
  /\ \/ disk' = copy[a]
     \/ SaveCanFail /\ UNCHANGED disk
  /\ Done(a)
  /\ UNCHANGED <<todos, target, history>>

(***************************************************************************)
(* Pipeline runs.                                                          *)
(***************************************************************************)
StartRun(r) ==
  /\ pc[r] = "idle"
  /\ pc' = [pc EXCEPT ![r] = "analysing"]
  /\ copy' = [copy EXCEPT ![r] = disk]
  /\ UNCHANGED <<disk, todos, target, lock, request, draft, history>>

\* collectDismissedHashes: what the analyzer must not emit.
Dedup(s) == s.hashes \cup {f \in Findings : s.findings[f].status = "dismissed"}

\* mergeHashLists drops the oldest hashes beyond the cap.  Age is abstracted to
\* a choice among the old ones.  The bound: a run emits at most MaxHashes.
Smaller(m, n) == IF m < n THEN m ELSE n
Capped(old, new) ==
  {kept \in SUBSET (old \cup new) :
     /\ new \subseteq kept
     /\ Cardinality(kept) = Smaller(MaxHashes, Cardinality(old \cup new))}

\* recordFindingApplySpecs.
WithSpecs(findings, new) ==
  [f \in Findings |->
     IF f \in new /\ Strategy[f] # "none"
     THEN [findings[f] EXCEPT !.spec = TRUE, !.status = Shown(findings[f])]
     ELSE findings[f]]

\* The analysis has found the new findings; GenerateTodos reads todos.md.
ReadTodos(r, new) ==
  /\ pc[r] = "analysing"
  /\ new \cap Dedup(copy[r]) = {}
  /\ draft' = [draft EXCEPT ![r] = [read |-> todos, new |-> new]]
  /\ pc' = [pc EXCEPT ![r] = "listing"]
  /\ UNCHANGED <<disk, todos, target, lock, copy, request, history>>

\* The findings and their plans go into the run's snapshot.
Record(r, new) ==
  /\ \E kept \in Capped(copy[r].hashes, new) :
       copy' = [copy EXCEPT ![r] = [findings |-> WithSpecs(copy[r].findings, new), hashes |-> kept]]
  /\ draft' = [draft EXCEPT ![r] = NoDraft]
  /\ pc' = [pc EXCEPT ![r] = "unmerged"]
  /\ UNCHANGED <<disk, target, lock, request, deleted>>

\* Fault: the findings go to the state only, todos.md is left for later.
FaultWriteTodos(r) ==
  /\ pc[r] = "listing"
  /\ Record(r, draft[r].new)
  /\ UNCHANGED <<todos, raced>>

\* The whole file is written anew from what was read, unless there is neither a
\* new finding nor a warning to add; the state comes after it.
WriteTodos(r) ==
  LET read == draft[r].read
      new  == draft[r].new
  IN
  /\ pc[r] = "listing"
  /\ \/ todos' = read \cup new
     \/ new \subseteq read /\ UNCHANGED todos
  /\ raced' = IF \E q \in Runs \ {r} : pc[q] = "listing" THEN raced \cup new ELSE raced
  /\ Record(r, new)

\* persistFailureState, and the early save of a run without messages: the
\* snapshot is merged as it was loaded.
FailRun(r) ==
  /\ pc[r] = "analysing"
  /\ pc' = [pc EXCEPT ![r] = "unmerged"]
  /\ UNCHANGED <<disk, todos, target, lock, copy, request, draft, history>>

\* Errors after which Run returns without saving: transcripts, todos.md.
AbandonRun(r) ==
  /\ pc[r] \in {"analysing", "listing"}
  /\ Done(r)
  /\ UNCHANGED <<disk, todos, target, history>>

\* Fault: the snapshot's entries win.
FaultMerged(d, s) == [d EXCEPT !.findings = s.findings, !.hashes = @ \cup s.hashes]

Merged(d, s) ==
  [findings |-> [f \in Findings |->
      IF d.findings[f].status = "absent" THEN s.findings[f]
      ELSE [d.findings[f] EXCEPT !.spec = @ \/ s.findings[f].spec]],
   hashes |-> d.hashes \cup s.hashes]

\* MergePipelineResult up to its Save.
Merge(r) ==
  /\ pc[r] = "unmerged"
  /\ IF r \in Foreign THEN UNCHANGED lock ELSE lock = "free" /\ lock' = r
  /\ copy' = [copy EXCEPT ![r] = Merged(disk, copy[r])]
  /\ pc' = [pc EXCEPT ![r] = "saving"]
  /\ UNCHANGED <<disk, todos, target, request, draft, history>>

(***************************************************************************)
(* The operator and the processes.                                         *)
(***************************************************************************)
\* The operator adds text of their own to the target file or cuts its end.
Edit ==
  /\ \/ Len(target) < MaxFile /\ target' = Append(target, "edit")
     \/ target # <<>> /\ target' = SubSeq(target, 1, Len(target) - 1)
  /\ UNCHANGED <<disk, todos, lock, pc, copy, request, draft, history>>

\* A process dies: the daemon with its handlers and its run, or an analyze.
Die(actors) == Gone(actors) /\ UNCHANGED <<disk, todos, target, history>>

Crash == Die(Local) \/ \E r \in Foreign : Die({r})

-----------------------------------------------------------------------------
Handle(h) ==
  \/ \E t \in Transitions, f \in Findings : Load(h, t, f)
  \/ Refuse(h)
  \/ \E f \in Findings : ApplyFile(h, f) \/ UndoFile(h, f) \/ SetAside(h, f) \/ TakeBack(h, f)

Run(r) ==
  \/ StartRun(r)
  \/ \E new \in SUBSET Findings : ReadTodos(r, new)
  \/ WriteTodos(r)
  \/ FailRun(r)
  \/ AbandonRun(r)
  \/ Merge(r)

Next ==
  \/ \E h \in Handlers : Handle(h)
  \/ \E r \in Runs : Run(r)
  \/ \E a \in Actors : Save(a)
  \/ Edit
  \/ Crash

Spec == Init /\ [][Next]_vars
-----------------------------------------------------------------------------
(***************************************************************************)
(* Properties.                                                             *)
(***************************************************************************)
SetAsideOnDisk(f) == disk.findings[f].status \in {"dismissed", "resolved"}

\* A run's merge, however old its snapshot, moves no finding that has an entry
\* and takes no reversal from it, and what it adds is open: MergePipelineResult
\* leaves "web-owned fields untouched" (merge.go:19-20).  An entry that a call
\* has deleted since is another matter, see DeletedStaysDeleted.
RunsLeaveLifecycle ==
  [][\A r \in Runs : pc[r] = "saving" /\ pc'[r] = "idle" =>
       \A f \in Findings :
         disk.findings[f].status # "absent" \/ f \notin deleted =>
           /\ Shown(disk'.findings[f]) = Shown(disk.findings[f])
           /\ disk'.findings[f].reversal = disk.findings[f].reversal]_vars

\* "Drops a dismissed lifecycle entry so the finding returns to the open pool"
\* (lifecycle.go:332-333): a run's merge does not bring its old state back.
DeletedStaysDeleted ==
  [][\A r \in Runs : pc[r] = "saving" /\ pc'[r] = "idle" =>
       \A f \in deleted : Shown(disk'.findings[f]) = Shown(disk.findings[f])]_vars

\* What an apply saved for its undo is dropped by that undo, or by applying the
\* finding again after it was set aside; no run, no dismissal, no way back from
\* one and no other finding's call takes it.
ReversalIsKept ==
  [][\A f \in Findings :
       \/ disk.findings[f].reversal \subseteq disk'.findings[f].reversal
       \/ \E h \in Handlers :
            /\ pc[h] = "saving"
            /\ \/ request[h] = <<"undo", f>>
               \/ request[h] = <<"apply", f>> /\ SetAsideOnDisk(f)]_vars

\* A second apply "would clobber the AppliedReversal preimage, stranding undo"
\* and is refused (lifecycle.go:160-161): only an undo drops a preimage.
PreimageIsKept ==
  [][\A f \in Findings :
       \/ disk.findings[f].reversal \subseteq disk'.findings[f].reversal
       \/ \E h \in Handlers : pc[h] = "saving" /\ request[h] = <<"undo", f>>]_vars

\* A finding the analyzer will not emit again because a run recorded its hash
\* is in todos.md: no crash, failed save or abandoned run loses one for good.
\* The exception is what a run listed while another one, of the daemon and of
\* `dreamer analyze`, was between its reading and its writing of the file.
NoFindingLost == disk.hashes \subseteq todos \cup raced

\* Every recorded finding is in todos.md, two runs at once or not.
FindingsListed == disk.hashes \subseteq todos

\* A listed open finding with an apply block can be applied, or the next
\* analysis may still record its plan: "no apply spec recorded for this finding;
\* re-run analysis to capture it" (lifecycle.go:152).  Where a call deleted the
\* entry the plan went with it, see AdviceHelps.
CanBeApplied ==
  \A f \in todos \ deleted :
    Strategy[f] # "none" /\ Shown(disk.findings[f]) = "open"
      => disk.findings[f].spec \/ f \notin Dedup(disk)

\* The same advice, for every finding.
AdviceHelps ==
  \A f \in todos :
    Strategy[f] # "none" /\ Shown(disk.findings[f]) = "open"
      => disk.findings[f].spec \/ f \notin Dedup(disk)

\* FindingHashes has a cap, so that state.json does not grow "without bound on
\* long-lived projects" (cache.go:151-155).
HashesBounded == Cardinality(disk.hashes) <= MaxHashes

\* The operator's view of the findings follows the abstract lifecycle.
Lifecycle == INSTANCE FindingLifecycle WITH
  shown    <- [f \in Findings |-> Shown(disk.findings[f])],
  undoable <- {f \in Findings : disk.findings[f].reversal # {}},
  dropped  <- {f \in deleted : disk.findings[f].status = "absent"}
ImplementsFindingLifecycle == Lifecycle!Spec
=============================================================================
