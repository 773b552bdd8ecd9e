------------------------- MODULE ProjectStateProofs -------------------------
(***************************************************************************)
(* Proofs about ProjectState for any findings, handlers and runs, with     *)
(* saves that may fail and processes that may die at any step.             *)
(***************************************************************************)
EXTENDS ProjectState, TLAPS

Text      == Seq(Findings \cup {"edit"})
WellFormed(e) ==
  /\ \A r, q \in e.reversal : r = q
  /\ e.status = "applied" => e.reversal # {}
  /\ e.status \in {"absent", "open"} => e.reversal = {}
  /\ e.status = "absent" => ~e.spec
EntryType ==
  {e \in [status : Statuses, spec : BOOLEAN, reversal : SUBSET [pre : Text, post : Text]] :
     WellFormed(e)}
StateType == [findings : [Findings -> EntryType], hashes : SUBSET Findings]

\* TypeOK speaks of every copy at once; this form is easier to use.
Types ==
  /\ disk \in StateType
  /\ copy \in [Actors -> StateType]
  /\ todos \in SUBSET Findings
  /\ target \in Text
  /\ lock \in Local \cup {"free"}
  /\ pc \in [Actors -> {"idle", "loaded", "analysing", "listing", "unmerged", "saving"}]
  /\ request \in [Handlers -> {<<>>} \cup Transitions \X Findings]
  /\ draft \in [Runs -> [read : SUBSET Findings, new : SUBSET Findings]]
  /\ deleted \in SUBSET Findings /\ raced \in SUBSET Findings

-----------------------------------------------------------------------------
\* The zero FindingState and the empty State have their types.
LEMMA ZeroValues == Absent \in EntryType /\ Nothing \in StateType
<1>1. Absent \in EntryType
  BY DEF Absent, EntryType, WellFormed, Statuses
<1>2. QED BY <1>1 DEF Nothing, StateType

\* transform of apply.go yields a text.
LEMMA TransformType ==
  ASSUME NEW text \in Text, NEW f \in Findings
  PROVE  Transform(text, f) \in Text
BY DEF Transform, Text

\* An entry that is given a plan is well formed; a missing one becomes open.
LEMMA GivenPlanType ==
  ASSUME NEW e \in EntryType
  PROVE  [e EXCEPT !.spec = TRUE, !.status = Shown(e)] \in EntryType
<1> DEFINE given == [e EXCEPT !.spec = TRUE, !.status = Shown(e)]
<1>1. given \in [status : Statuses, spec : BOOLEAN, reversal : SUBSET [pre : Text, post : Text]]
  BY DEF EntryType, Shown, Statuses
<1>2. given.reversal = e.reversal /\ given.status = Shown(e) /\ given.spec
  BY DEF EntryType
<1>3. WellFormed(given)
  BY <1>2 DEF EntryType, WellFormed, Shown
<1>4. QED BY <1>1, <1>3 DEF EntryType

\* An entry that is there is well formed with any plan.
LEMMA PlanType ==
  ASSUME NEW e \in EntryType, e.status # "absent", NEW spec \in BOOLEAN
  PROVE  [e EXCEPT !.spec = spec] \in EntryType
BY DEF EntryType, WellFormed

\* recordFindingApplySpecs yields a well-typed state.
LEMMA RecordedType ==
  ASSUME NEW s \in StateType, NEW new \in SUBSET Findings,
         NEW kept \in Capped(s.hashes, new)
  PROVE  [findings |-> WithSpecs(s.findings, new), hashes |-> kept] \in StateType
<1>1. kept \in SUBSET Findings
  BY DEF Capped, StateType
<1>2. \A f \in Findings : s.findings[f] \in EntryType
  BY DEF StateType
<1>3. ASSUME NEW e \in EntryType PROVE [e EXCEPT !.spec = TRUE, !.status = Shown(e)] \in EntryType
  BY GivenPlanType
<1>4. WithSpecs(s.findings, new) \in [Findings -> EntryType]
  BY <1>2, <1>3 DEF WithSpecs
<1>5. QED BY <1>1, <1>4 DEF StateType

\* MergePipelineResult yields a well-typed state.
LEMMA MergedType ==
  ASSUME NEW d \in StateType, NEW s \in StateType
  PROVE  Merged(d, s) \in StateType
<1>1. \A f \in Findings : /\ d.findings[f] \in EntryType
                          /\ s.findings[f] \in EntryType
  BY DEF StateType
<1>2. ASSUME NEW f \in Findings, d.findings[f].status # "absent"
      PROVE  [d.findings[f] EXCEPT !.spec = @ \/ s.findings[f].spec] \in EntryType
  <2>1. (d.findings[f].spec \/ s.findings[f].spec) \in BOOLEAN
    OBVIOUS
  <2>2. QED BY <1>1, <1>2, <2>1, PlanType
<1>3. d.hashes \cup s.hashes \in SUBSET Findings
  BY DEF StateType
<1>4. QED BY <1>1, <1>2, <1>3 DEF Merged, StateType

-----------------------------------------------------------------------------
\* A handler that changes one entry of its copy keeps the types.
LEMMA BecomesTypes ==
  ASSUME Types, NEW h \in Handlers, NEW f \in Findings, NEW entry \in EntryType,
         target' \in Text, deleted' \in SUBSET Findings, Becomes(h, f, entry)
  PROVE  Types'
<1>1. copy[h] \in StateType /\ h \in Actors
  BY DEF Types, Actors
<1>2. [copy[h] EXCEPT !.findings[f] = entry] \in StateType
  BY <1>1 DEF StateType
<1>3. copy' = [copy EXCEPT ![h] = [copy[h] EXCEPT !.findings[f] = entry]]
  BY <1>1 DEF Becomes, Types
<1>4. copy' \in [Actors -> StateType]
  BY <1>2, <1>3 DEF Types
<1>5. QED BY <1>4 DEF Types, Becomes

\* Actors that end keep the types.
LEMMA GoneTypes ==
  ASSUME Types, NEW actors, Gone(actors), UNCHANGED <<todos, target, history>>, disk' \in StateType
  PROVE  Types'
BY ZeroValues DEF Gone, NoDraft, history, Types

\* So does every step of the handlers.
LEMMA HandleTypes ==
  ASSUME Types, NEW h \in Handlers, Handle(h)
  PROVE  Types'
<1>0. h \in Actors /\ h \in Local /\ copy[h] \in StateType
  BY StateAssumption DEF Actors, Local, Types
<1>1. ASSUME NEW t \in Transitions, NEW f \in Findings, Load(h, t, f) PROVE Types'
  BY <1>0, <1>1 DEF Load, history, Types
<1>2. CASE Refuse(h)
  BY <1>2, GoneTypes DEF Refuse, Done, Types
<1>3. ASSUME NEW f \in Findings, ApplyFile(h, f) PROVE Types'
  <2> DEFINE e == copy[h].findings[f]
             applied == [e EXCEPT !.status = "applied",
                                  !.reversal = {[pre |-> target, post |-> target']}]
  <2>1. target \in Text /\ target' \in Text
    BY <1>3, TransformType DEF ApplyFile, Types
  <2>2. applied \in EntryType
    <3>1. e \in EntryType
      BY <1>0 DEF StateType
    <3>2. {[pre |-> target, post |-> target']} \in SUBSET [pre : Text, post : Text]
      BY <2>1
    <3>3. QED BY <3>1, <3>2 DEF EntryType, WellFormed, Statuses
  <2>3. Becomes(h, f, applied) /\ deleted' \in SUBSET Findings
    BY <1>3 DEF ApplyFile, Types
  <2>4. QED BY <2>1, <2>2, <2>3, BecomesTypes
<1>4. ASSUME NEW f \in Findings, UndoFile(h, f) PROVE Types'
  <2> DEFINE e == copy[h].findings[f]
             undone == [e EXCEPT !.status = "open", !.reversal = {}]
  <2>1. e \in EntryType
    BY <1>0 DEF StateType
  <2>2. target' \in Text
    BY <1>4, <2>1 DEF UndoFile, EntryType, WellFormed
  <2>3. undone \in EntryType
    BY <2>1 DEF EntryType, WellFormed, Statuses
  <2>4. Becomes(h, f, undone) /\ deleted' \in SUBSET Findings
    BY <1>4 DEF UndoFile, Types
  <2>5. QED BY <2>2, <2>3, <2>4, BecomesTypes
<1>5. ASSUME NEW f \in Findings, SetAside(h, f) PROVE Types'
  <2> DEFINE e == copy[h].findings[f]
  <2>1. PICK t \in {<<"dismiss", "dismissed">>, <<"resolve", "resolved">>} :
               Becomes(h, f, [e EXCEPT !.status = t[2]])
    BY <1>5 DEF SetAside
  <2>2. [e EXCEPT !.status = t[2]] \in EntryType
    BY <1>0 DEF StateType, EntryType, WellFormed, Statuses
  <2>3. target' \in Text /\ deleted' \in SUBSET Findings
    BY <1>5 DEF SetAside, Types
  <2>4. QED BY <2>1, <2>2, <2>3, BecomesTypes
<1>6. ASSUME NEW f \in Findings, TakeBack(h, f) PROVE Types'
  <2> DEFINE e == copy[h].findings[f]
  <2>1. e \in EntryType
    BY <1>0 DEF StateType
  <2>2. TakenBack(e) \in EntryType
    BY <2>1, ZeroValues DEF TakenBack, EntryType, WellFormed, Statuses
  <2>3. target' \in Text /\ deleted' \in SUBSET Findings
    BY <1>6 DEF TakeBack, Types
  <2>4. \E entry \in EntryType : Becomes(h, f, entry)
    BY <1>6, <2>1, <2>2 DEF TakeBack
  <2>5. QED BY <2>3, <2>4, BecomesTypes
<1>7. QED BY <1>1, <1>2, <1>3, <1>4, <1>5, <1>6 DEF Handle

\* Every step of a pipeline run keeps the types.
LEMMA RunTypes ==
  ASSUME Types, NEW r \in Runs, Run(r)
  PROVE  Types'
<1>0. r \in Actors /\ r \notin Handlers /\ copy[r] \in StateType
  BY StateAssumption DEF Actors, Types
<1>1. CASE StartRun(r)
  BY <1>0, <1>1 DEF StartRun, history, Types
<1>2. ASSUME NEW new \in SUBSET Findings, ReadTodos(r, new) PROVE Types'
  BY <1>0, <1>2 DEF ReadTodos, history, Types
<1>2a. CASE WriteTodos(r)
  <2> DEFINE new == draft[r].new
  <2>1. PICK kept \in Capped(copy[r].hashes, new) :
               copy' = [copy EXCEPT ![r] = [findings |-> WithSpecs(copy[r].findings, new),
                                            hashes |-> kept]]
    BY <1>2a DEF WriteTodos, Record
  <2>2. new \in SUBSET Findings /\ draft[r].read \in SUBSET Findings
    BY DEF Types
  <2>3. [findings |-> WithSpecs(copy[r].findings, new), hashes |-> kept] \in StateType
    BY <1>0, <2>1, <2>2, RecordedType
  <2>4. todos' \in SUBSET Findings /\ raced' \in SUBSET Findings
    BY <1>2a, <2>2 DEF WriteTodos, Types
  <2>5. draft' \in [Runs -> [read : SUBSET Findings, new : SUBSET Findings]]
    BY <1>2a DEF WriteTodos, Record, NoDraft, Types
  <2> HIDE DEF new
  <2>6. copy' \in [Actors -> StateType]
    BY <1>0, <2>1, <2>3 DEF Types
  <2>7. QED BY <1>0, <1>2a, <2>4, <2>5, <2>6 DEF WriteTodos, Record, Types
<1>3. CASE FailRun(r)
  BY <1>0, <1>3 DEF FailRun, history, Types
<1>4. CASE AbandonRun(r)
  BY <1>4, GoneTypes DEF AbandonRun, Done, Types
<1>5. CASE Merge(r)
  <2>1. Merged(disk, copy[r]) \in StateType
    BY <1>0, MergedType DEF Types
  <2>2. lock' \in Local \cup {"free"}
    BY <1>0, <1>5 DEF Merge, Types, Local
  <2>3. QED BY <1>0, <1>5, <2>1, <2>2 DEF Merge, history, Types
<1>6. QED BY <1>1, <1>2, <1>2a, <1>3, <1>4, <1>5 DEF Run

\* Saves, the operator's edits and the death of a process keep the types.
LEMMA OtherTypes ==
  ASSUME Types, (\E a \in Actors : Save(a)) \/ Edit \/ Crash
  PROVE  Types'
<1>1. ASSUME NEW a \in Actors, Save(a) PROVE Types'
  <2>1. disk' \in StateType
    BY <1>1 DEF Save, Types
  <2>2. QED BY <1>1, <2>1, GoneTypes DEF Save, Done
<1>2. CASE Edit
  <2>1. target' \in Text
    <3>1. target \in Text
      BY DEF Types
    <3>2. CASE target' = Append(target, "edit")
      BY <3>1, <3>2 DEF Text
    <3>3. CASE target # <<>> /\ target' = SubSeq(target, 1, Len(target) - 1)
      <4>1. Len(target) - 1 \in 0 .. Len(target)
        BY <3>1, <3>3 DEF Text
      <4>2. QED BY <3>1, <3>3, <4>1 DEF Text
    <3>4. QED BY <1>2, <3>2, <3>3 DEF Edit
  <2>2. QED BY <1>2, <2>1 DEF Edit, history, Types
<1>3. ASSUME NEW actors, Die(actors) PROVE Types'
  BY <1>3, GoneTypes DEF Die, Types
<1>4. QED BY <1>1, <1>2, <1>3 DEF Crash

\* Every reachable state of the project is well typed, whatever handlers, runs
\* and crashes interleave.
THEOREM StateTypes == Spec => []Types
<1>1. Init => Types
  <2> SUFFICES ASSUME Init PROVE Types
    OBVIOUS
  <2>1. disk \in StateType
    <3>1. [Absent EXCEPT !.status = "open", !.spec = TRUE] \in EntryType
      BY DEF Absent, EntryType, WellFormed, Statuses
    <3>2. QED BY <3>1, ZeroValues, StateAssumption DEF Init, StateType
  <2>2. target \in Text
    BY DEF Init, Text
  <2>3. QED BY <2>1, <2>2, ZeroValues, StateAssumption DEF Init, Types, Actors, NoDraft
<1>2. Types /\ [Next]_vars => Types'
  <2> SUFFICES ASSUME Types, [Next]_vars PROVE Types'
    OBVIOUS
  <2>1. CASE UNCHANGED vars
    BY <2>1 DEF vars, Types
  <2>2. QED BY <2>1, HandleTypes, RunTypes, OtherTypes DEF Next
<1>3. QED BY <1>1, <1>2, PTL DEF Spec

\* TypeOK holds for any constants: in particular an entry holds at most one
\* reversal, and an applied one does hold it.
THEOREM TypeOK_always == Spec => []TypeOK
<1>1. Types => TypeOK
  <2> SUFFICES ASSUME Types PROVE TypeOK
    OBVIOUS
  <2>1. \A s \in {disk} \cup {copy[a] : a \in Actors} : s \in StateType
    BY DEF Types
  <2>2. QED BY <2>1 DEF Types, TypeOK, StateType, EntryType, WellFormed, Text
<1>2. QED BY <1>1, StateTypes, PTL

-----------------------------------------------------------------------------
(***************************************************************************)
(* No finding is lost.  A run writes todos.md before the state, so every   *)
(* hash in a state that somebody may yet save is already listed; and a run *)
(* that writes what it has read takes out only what another run listed     *)
(* since, which is what raced holds.                                       *)
(***************************************************************************)
Safe == todos \cup raced

Listed ==
  /\ disk.hashes \subseteq Safe
  /\ \A a \in Actors : copy[a].hashes \subseteq Safe
  /\ \A r \in Runs : pc[r] = "listing" =>
       /\ draft[r].read \subseteq Safe
       /\ todos \subseteq draft[r].read \cup raced

\* What holds of the drafts is undisturbed by whoever touches neither them nor
\* the list.
LEMMA DraftFrame ==
  ASSUME Listed, UNCHANGED <<todos, raced, draft>>,
         \A r \in Runs : pc'[r] = "listing" => pc[r] = "listing",
         disk'.hashes \subseteq Safe, \A a \in Actors : copy'[a].hashes \subseteq Safe
  PROVE  Listed'
BY DEF Listed, Safe

\* Actors that end hold no hash and no draft.
LEMMA GoneListed ==
  ASSUME Listed, NEW actors, Gone(actors), UNCHANGED <<todos, raced>>,
         disk' = disk \/ \E a \in Actors : disk' = copy[a]
  PROVE  Listed'
<1>1. disk'.hashes \subseteq Safe
  BY DEF Listed
<1>2. \A a \in Actors : copy'[a].hashes \subseteq Safe
  BY DEF Gone, Nothing, Listed
<1>3. \A r \in Runs : pc'[r] = "listing" => pc[r] = "listing" /\ draft'[r] = draft[r]
  BY DEF Gone, Actors
<1>4. QED BY <1>1, <1>2, <1>3 DEF Listed, Safe

\* The handlers add no hash to the state they have loaded.
LEMMA HandleListed ==
  ASSUME Types, Listed, NEW h \in Handlers, Handle(h)
  PROVE  Listed'
<1>0. h \in Actors /\ h \notin Runs /\ copy[h] \in StateType
  BY StateAssumption DEF Actors, Types
<1>1. ASSUME NEW t \in Transitions, NEW f \in Findings, Load(h, t, f) PROVE Listed'
  <2>1. \A a \in Actors : copy'[a].hashes \subseteq Safe
    BY <1>0, <1>1 DEF Load, Types, Listed
  <2>2. \A r \in Runs : pc'[r] = "listing" => pc[r] = "listing"
    BY <1>0, <1>1 DEF Load, Types, Actors
  <2>3. disk' = disk /\ UNCHANGED <<todos, raced, draft>>
    BY <1>1 DEF Load, history
  <2>4. QED BY <2>1, <2>2, <2>3, DraftFrame DEF Listed
<1>2. CASE Refuse(h)
  BY <1>2, GoneListed DEF Refuse, Done, history
<1>3. ASSUME NEW f \in Findings, NEW entry, Becomes(h, f, entry) PROVE Listed'
  <2>1. copy'[h].hashes = copy[h].hashes
    BY <1>0, <1>3 DEF Becomes, Types, StateType
  <2>2. \A a \in Actors : copy'[a].hashes = copy[a].hashes
    BY <1>0, <1>3, <2>1 DEF Becomes, Types
  <2>3. \A r \in Runs : pc'[r] = "listing" => pc[r] = "listing"
    BY <1>0, <1>3 DEF Becomes, Types, Actors
  <2>4. disk' = disk /\ UNCHANGED <<todos, raced, draft>>
    BY <1>3 DEF Becomes
  <2>5. QED BY <2>2, <2>3, <2>4, DraftFrame DEF Listed
<1>4. ASSUME NEW f \in Findings,
             ApplyFile(h, f) \/ UndoFile(h, f) \/ SetAside(h, f) \/ TakeBack(h, f)
      PROVE  \E entry : Becomes(h, f, entry)
  BY <1>4 DEF ApplyFile, UndoFile, SetAside, TakeBack
<1>5. QED BY <1>1, <1>2, <1>3, <1>4 DEF Handle

\* A run rewrites the list: what it takes out, another run listed since.
LEMMA WriteListed ==
  ASSUME Types, Listed, NEW r \in Runs, WriteTodos(r)
  PROVE  Listed'
<1> DEFINE read == draft[r].read
           new  == draft[r].new
<1>0. r \in Actors /\ pc[r] = "listing"
  BY DEF Actors, WriteTodos
<1>1. read \subseteq Safe /\ todos \subseteq read \cup raced
  BY <1>0 DEF Listed
<1>2. /\ todos' = read \cup new \/ (new \subseteq read /\ todos' = todos)
      /\ raced' = IF \E q \in Runs \ {r} : pc[q] = "listing" THEN raced \cup new ELSE raced
  BY DEF WriteTodos
<1>3. PICK kept \in Capped(copy[r].hashes, new) :
             copy' = [copy EXCEPT ![r] = [findings |-> WithSpecs(copy[r].findings, new),
                                          hashes |-> kept]]
  BY DEF WriteTodos, Record
<1>4. kept \subseteq copy[r].hashes \cup new
  BY DEF Capped
<1>5. disk' = disk /\ pc' = [pc EXCEPT ![r] = "unmerged"] /\ draft' = [draft EXCEPT ![r] = NoDraft]
  BY DEF WriteTodos, Record
<1>6. copy'[r].hashes = kept /\ \A a \in Actors \ {r} : copy'[a] = copy[a]
  BY <1>0, <1>3 DEF Types
<1>7. /\ pc'[r] = "unmerged"
      /\ \A q \in Runs \ {r} : pc'[q] = pc[q] /\ draft'[q] = draft[q]
  BY <1>0, <1>5 DEF Types, Actors
<1> HIDE DEF read, new
<1>8. Safe \subseteq Safe' /\ new \subseteq Safe'
  BY <1>1, <1>2 DEF Safe
<1>9. disk'.hashes \subseteq Safe' /\ \A a \in Actors : copy'[a].hashes \subseteq Safe'
  BY <1>4, <1>5, <1>6, <1>8 DEF Listed
<1>10. ASSUME NEW q \in Runs, pc'[q] = "listing"
       PROVE  draft'[q].read \subseteq Safe' /\ todos' \subseteq draft'[q].read \cup raced'
  <2>1. q # r /\ pc[q] = "listing" /\ draft'[q] = draft[q]
    BY <1>7, <1>10
  <2>2. raced' = raced \cup new
    BY <1>2, <2>1
  <2>3. draft[q].read \subseteq Safe /\ todos \subseteq draft[q].read \cup raced
    BY <2>1 DEF Listed
  <2>4. QED BY <1>1, <1>2, <1>8, <2>1, <2>2, <2>3 DEF Safe
<1>11. QED BY <1>9, <1>10 DEF Listed

\* The runs list their findings before they record them.
LEMMA RunListed ==
  ASSUME Types, Listed, NEW r \in Runs, Run(r)
  PROVE  Listed'
<1>0. r \in Actors /\ copy[r] \in StateType
  BY DEF Actors, Types
<1>1. CASE StartRun(r)
  <2>1. \A a \in Actors : copy'[a].hashes \subseteq Safe
    BY <1>0, <1>1 DEF StartRun, Types, Listed
  <2>2. \A q \in Runs : pc'[q] = "listing" => pc[q] = "listing"
    BY <1>0, <1>1 DEF StartRun, Types, Actors
  <2>3. disk' = disk /\ UNCHANGED <<todos, raced, draft>>
    BY <1>1 DEF StartRun, history
  <2>4. QED BY <2>1, <2>2, <2>3, DraftFrame DEF Listed
<1>2. ASSUME NEW new \in SUBSET Findings, ReadTodos(r, new) PROVE Listed'
  <2>1. UNCHANGED <<disk, todos, raced, copy>>
    BY <1>2 DEF ReadTodos, history
  <2>2. draft'[r].read = todos
    BY <1>2 DEF ReadTodos, Types
  <2>3. \A q \in Runs \ {r} : draft'[q] = draft[q] /\ pc'[q] = pc[q]
    BY <1>2 DEF ReadTodos, Types, Actors
  <2>4. QED BY <2>1, <2>2, <2>3 DEF Listed, Safe
<1>3. CASE FailRun(r)
  <2>1. \A q \in Runs : pc'[q] = "listing" => pc[q] = "listing"
    BY <1>0, <1>3 DEF FailRun, Types, Actors
  <2>2. UNCHANGED <<disk, todos, raced, copy, draft>>
    BY <1>3 DEF FailRun, history
  <2>3. QED BY <2>1, <2>2, DraftFrame DEF Listed
<1>4. CASE AbandonRun(r)
  BY <1>4, GoneListed DEF AbandonRun, Done, history
<1>5. CASE Merge(r)
  <2>1. /\ copy' = [copy EXCEPT ![r] = Merged(disk, copy[r])]
        /\ UNCHANGED <<disk, todos, raced, draft>>
    BY <1>5 DEF Merge, history
  <2>2. Merged(disk, copy[r]).hashes \subseteq Safe
    BY <1>0 DEF Merged, Listed
  <2>3. \A q \in Runs : pc'[q] = "listing" => pc[q] = "listing"
    BY <1>0, <1>5 DEF Merge, Types, Actors
  <2>4. \A a \in Actors : copy'[a].hashes \subseteq Safe
    BY <1>0, <2>1, <2>2 DEF Types, Listed
  <2>5. QED BY <2>1, <2>3, <2>4, DraftFrame DEF Listed
<1>6. QED BY <1>1, <1>2, <1>3, <1>4, <1>5, WriteListed DEF Run

\* NoFindingLost holds for any findings and any interleaving of handlers, the
\* daemon's run and analyze processes, whatever saves fail and processes die:
\* a recorded finding is missing from todos.md only if another run was
\* rewriting the file while it was listed (generator.go:62-75).
THEOREM NoFindingLost_always == Spec => []NoFindingLost
<1>1. Init => Listed
  <2> SUFFICES ASSUME Init PROVE Listed
    OBVIOUS
  <2>1. \A r \in Runs : pc[r] # "listing"
    BY DEF Init, Actors
  <2>2. QED BY <2>1 DEF Init, Listed, Nothing, Safe
<1>2. Types /\ Listed /\ [Next]_vars => Listed'
  <2> SUFFICES ASSUME Types, Listed, [Next]_vars PROVE Listed'
    OBVIOUS
  <2>1. CASE UNCHANGED vars
    BY <2>1, DraftFrame DEF vars, Listed
  <2>2. ASSUME NEW a \in Actors, Save(a) PROVE Listed'
    BY <2>2, GoneListed DEF Save, Done, history
  <2>3. CASE Edit
    BY <2>3, DraftFrame DEF Edit, history, Listed
  <2>4. CASE Crash
    BY <2>4, GoneListed DEF Crash, Die, history
  <2>5. QED BY <2>1, <2>2, <2>3, <2>4, HandleListed, RunListed DEF Next
<1>3. Listed => NoFindingLost
  BY DEF Listed, NoFindingLost, Safe
<1>4. QED BY <1>1, <1>2, <1>3, StateTypes, PTL DEF Spec

-----------------------------------------------------------------------------
(***************************************************************************)
(* Without analyze processes, the lock orders the writers: who has loaded  *)
(* the state has the current one.                                          *)
(***************************************************************************)
Guarded == \A a \in Actors : pc[a] \in {"loaded", "saving"} => lock = a

\* The lock discipline of the daemon's handlers and runs.
LEMMA GuardedStep ==
  ASSUME Foreign = {}, Types, Guarded, [Next]_vars
  PROVE  Guarded'
<1>0. "free" \notin Actors
  BY StateAssumption DEF Actors
<1>1. CASE UNCHANGED vars
  BY <1>1 DEF vars, Guarded
<1>2. ASSUME NEW h \in Handlers, Handle(h) PROVE Guarded'
  <2>0. h \in Actors
    BY DEF Actors
  <2>1. ASSUME NEW t \in Transitions, NEW f \in Findings, Load(h, t, f) PROVE Guarded'
    BY <1>0, <2>0, <2>1 DEF Load, Guarded, Types
  <2>2. CASE Refuse(h)
    BY <1>0, <2>0, <2>2 DEF Refuse, Done, Gone, Guarded, Types
  <2>3. ASSUME NEW f \in Findings, pc[h] = "loaded", NEW entry, Becomes(h, f, entry)
        PROVE  Guarded'
    BY <2>0, <2>3 DEF Becomes, Guarded, Types
  <2>4. ASSUME NEW f \in Findings,
               ApplyFile(h, f) \/ UndoFile(h, f) \/ SetAside(h, f) \/ TakeBack(h, f)
        PROVE  pc[h] = "loaded" /\ \E entry : Becomes(h, f, entry)
    BY <2>4 DEF ApplyFile, UndoFile, SetAside, TakeBack
  <2>5. QED BY <1>2, <2>1, <2>2, <2>3, <2>4 DEF Handle
<1>3. ASSUME NEW r \in Runs, Run(r) PROVE Guarded'
  <2>0. r \in Actors
    BY DEF Actors
  <2>1. CASE Merge(r)
    BY <1>0, <2>0, <2>1 DEF Merge, Guarded, Types
  <2>2. CASE AbandonRun(r)
    BY <1>0, <2>0, <2>2 DEF AbandonRun, Done, Gone, Guarded, Types
  <2>3. CASE StartRun(r) \/ FailRun(r)
    BY <2>0, <2>3 DEF StartRun, FailRun, Guarded, Types
  <2>4. CASE WriteTodos(r) \/ \E new \in SUBSET Findings : ReadTodos(r, new)
    BY <2>0, <2>4 DEF ReadTodos, WriteTodos, Record, Guarded, Types
  <2>5. QED BY <1>3, <2>1, <2>2, <2>3, <2>4 DEF Run
<1>4. ASSUME NEW a \in Actors, Save(a) PROVE Guarded'
  BY <1>0, <1>4 DEF Save, Done, Gone, Guarded, Types
<1>5. CASE Edit
  BY <1>5 DEF Edit, Guarded
<1>6. CASE Crash
  BY <1>6 DEF Crash, Die, Gone, Local, Guarded, Types
<1>7. QED BY <1>1, <1>2, <1>3, <1>4, <1>5, <1>6 DEF Next

-----------------------------------------------------------------------------
(***************************************************************************)
(* Plans.  A run puts a finding's hash and its apply plan into the same    *)
(* snapshot, and a merge loses neither, whatever happened to state.json    *)
(* since; so a recorded hash has its plan on disk and in every copy, a     *)
(* stale one or one of an analyze process as well.  Only Undismiss and     *)
(* Unresolve drop a plan, with the entry (delete(st.Findings, hash),       *)
(* lifecycle.go:354, :385), and leave the hash.                            *)
(***************************************************************************)
Captured(s, gone) == \A f \in s.hashes \ gone : Strategy[f] # "none" => s.findings[f].spec

CaptureInv ==
  /\ Captured(disk, deleted)
  /\ \A a \in Actors : Captured(copy[a], deleted)

\* An entry that is changed keeps its plan, unless it is deleted.
LEMMA BecomesCaptured ==
  ASSUME Types, CaptureInv, NEW h \in Handlers, NEW f \in Findings, NEW entry,
         entry.spec = copy[h].findings[f].spec \/ f \in deleted',
         deleted \subseteq deleted', Becomes(h, f, entry)
  PROVE  CaptureInv'
<1>0. h \in Actors /\ copy[h] \in StateType
  BY DEF Actors, Types
<1>1. copy'[h].hashes = copy[h].hashes
  BY <1>0 DEF Becomes, Types, StateType
<1>2. \A g \in Findings \ deleted' : copy'[h].findings[g].spec = copy[h].findings[g].spec
  BY <1>0 DEF Becomes, Types, StateType
<1>3. Captured(copy[h], deleted)
  BY <1>0 DEF CaptureInv
<1>4. Captured(copy'[h], deleted')
  BY <1>0, <1>1, <1>2, <1>3 DEF Captured, StateType
<1>5. \A a \in Actors \ {h} : copy'[a] = copy[a]
  BY <1>0 DEF Becomes, Types
<1>6. disk' = disk
  BY DEF Becomes
<1>7. QED BY <1>4, <1>5, <1>6 DEF CaptureInv, Captured

\* Actors that end leave an empty copy, after they have saved theirs or not.
LEMMA GoneCaptured ==
  ASSUME CaptureInv, NEW actors, Gone(actors), UNCHANGED deleted,
         disk' = disk \/ \E a \in Actors : disk' = copy[a]
  PROVE  CaptureInv'
<1>1. Captured(Nothing, deleted)
  BY DEF Nothing, Captured
<1>2. Captured(disk', deleted)
  BY DEF CaptureInv
<1>3. \A a \in Actors : copy'[a] = copy[a] \/ copy'[a] = Nothing
  BY DEF Gone
<1>4. QED BY <1>1, <1>2, <1>3 DEF CaptureInv, Captured

\* The handlers.
LEMMA HandleCaptured ==
  ASSUME Types, CaptureInv, NEW h \in Handlers, Handle(h)
  PROVE  CaptureInv'
<1>0. h \in Actors /\ copy[h] \in StateType
  BY DEF Actors, Types
<1>1. ASSUME NEW t \in Transitions, NEW f \in Findings, Load(h, t, f) PROVE CaptureInv'
  <2>1. copy' = [copy EXCEPT ![h] = disk] /\ disk' = disk /\ deleted' = deleted
    BY <1>1 DEF Load, history
  <2>2. \A a \in Actors : copy'[a] = IF a = h THEN disk ELSE copy[a]
    BY <2>1 DEF Types
  <2>3. QED BY <2>1, <2>2 DEF CaptureInv, Captured
<1>2. CASE Refuse(h)
  BY <1>2, GoneCaptured DEF Refuse, Done, history
<1>3. ASSUME NEW f \in Findings, ApplyFile(h, f) \/ UndoFile(h, f) \/ SetAside(h, f)
      PROVE  CaptureInv'
  <2> DEFINE e == copy[h].findings[f]
  <2>1. e \in EntryType
    BY <1>0 DEF StateType
  <2>2. \E entry : entry.spec = e.spec /\ Becomes(h, f, entry)
    <3>1. CASE ApplyFile(h, f)
      <4>1. [e EXCEPT !.status = "applied",
                      !.reversal = {[pre |-> target, post |-> target']}].spec = e.spec
        BY <2>1 DEF EntryType
      <4>2. QED BY <3>1, <4>1 DEF ApplyFile
    <3>2. CASE UndoFile(h, f)
      <4>1. [e EXCEPT !.status = "open", !.reversal = {}].spec = e.spec
        BY <2>1 DEF EntryType
      <4>2. QED BY <3>2, <4>1 DEF UndoFile
    <3>3. CASE SetAside(h, f)
      <4>1. \A s : [e EXCEPT !.status = s].spec = e.spec
        BY <2>1 DEF EntryType
      <4>2. PICK t \in {<<"dismiss", "dismissed">>, <<"resolve", "resolved">>} :
              Becomes(h, f, [e EXCEPT !.status = t[2]])
        BY <3>3 DEF SetAside
      <4>3. QED BY <4>1, <4>2
    <3>4. QED BY <1>3, <3>1, <3>2, <3>3
  <2>3. deleted' = deleted
    BY <1>3 DEF ApplyFile, UndoFile, SetAside
  <2>4. QED BY <2>2, <2>3, BecomesCaptured
<1>4. ASSUME NEW f \in Findings, TakeBack(h, f) PROVE CaptureInv'
  <2> DEFINE e == copy[h].findings[f]
  <2>1. e \in EntryType
    BY <1>0 DEF StateType
  <2>2. PICK t \in {<<"undismiss", "dismissed">>, <<"unresolve", "resolved">>} :
          /\ Becomes(h, f, IF e.status = t[2] THEN TakenBack(e) ELSE e)
          /\ deleted' = IF e.status = t[2] /\ e.reversal = {} THEN deleted \cup {f} ELSE deleted
    BY <1>4 DEF TakeBack
  <2>3. CASE e.status = t[2] /\ e.reversal = {}
    BY <2>2, <2>3, BecomesCaptured
  <2>4. CASE e.status = t[2] /\ e.reversal # {}
    <3>1. TakenBack(e).spec = e.spec
      BY <2>1, <2>4 DEF TakenBack, EntryType
    <3>2. QED BY <2>2, <2>4, <3>1, BecomesCaptured
  <2>5. CASE e.status # t[2]
    BY <2>2, <2>5, BecomesCaptured
  <2>6. QED BY <2>3, <2>4, <2>5
<1>5. QED BY <1>1, <1>2, <1>3, <1>4 DEF Handle

\* What the analysis adds: the plans of all new findings that have one, and
\* hashes of them and of the snapshot.
LEMMA RecordedCaptured ==
  ASSUME NEW s \in StateType, NEW gone, Captured(s, gone), NEW new \in SUBSET Findings,
         NEW kept \in Capped(s.hashes, new)
  PROVE  Captured([findings |-> WithSpecs(s.findings, new), hashes |-> kept], gone)
<1>1. kept \subseteq s.hashes \cup new
  BY DEF Capped
<1>2. \A f \in kept : f \in Findings
  BY <1>1 DEF StateType
<1>3. \A f \in new : Strategy[f] # "none" => WithSpecs(s.findings, new)[f].spec = TRUE
  BY DEF WithSpecs, StateType, EntryType
<1>4. \A f \in Findings : s.findings[f].spec => WithSpecs(s.findings, new)[f].spec
  BY DEF WithSpecs, StateType, EntryType
<1>5. QED BY <1>1, <1>2, <1>3, <1>4 DEF Captured

\* A merge has the hashes of both sides and the plan of each: an entry on disk
\* gains the snapshot's, an entry that is not there is the snapshot's.
LEMMA MergedCaptured ==
  ASSUME NEW d \in StateType, NEW s \in StateType, NEW gone, Captured(d, gone), Captured(s, gone)
  PROVE  Captured(Merged(d, s), gone)
<1>1. \A f \in Findings :
        d.findings[f].spec \/ s.findings[f].spec => Merged(d, s).findings[f].spec
  BY DEF Merged, StateType, EntryType, WellFormed
<1>2. Merged(d, s).hashes = d.hashes \cup s.hashes
  BY DEF Merged
<1>3. QED BY <1>1, <1>2 DEF Captured, StateType

\* The runs, with or without the lock.
LEMMA RunCaptured ==
  ASSUME Types, CaptureInv, NEW r \in Runs, Run(r)
  PROVE  CaptureInv'
<1>0. r \in Actors /\ copy[r] \in StateType /\ disk \in StateType /\ Captured(copy[r], deleted)
  BY DEF Actors, Types, CaptureInv
<1>1. ASSUME NEW s, Captured(s, deleted), copy' = [copy EXCEPT ![r] = s],
             UNCHANGED <<disk, deleted>>
      PROVE  CaptureInv'
  <2>1. \A a \in Actors : copy'[a] = IF a = r THEN s ELSE copy[a]
    BY <1>1 DEF Types
  <2>2. QED BY <1>1, <2>1 DEF CaptureInv, Captured
<1>2. CASE StartRun(r)
  BY <1>1, <1>2 DEF StartRun, history, CaptureInv
<1>3. CASE WriteTodos(r)
  <2>1. PICK kept \in Capped(copy[r].hashes, draft[r].new) :
          copy' = [copy EXCEPT ![r] = [findings |-> WithSpecs(copy[r].findings, draft[r].new),
                                       hashes |-> kept]]
    BY <1>3 DEF WriteTodos, Record
  <2>2. UNCHANGED <<disk, deleted>>
    BY <1>3 DEF WriteTodos, Record
  <2>3. draft[r].new \in SUBSET Findings
    BY DEF Types
  <2>4. QED BY <1>0, <1>1, <2>1, <2>2, <2>3, RecordedCaptured
<1>4. CASE FailRun(r) \/ \E new \in SUBSET Findings : ReadTodos(r, new)
  BY <1>4 DEF FailRun, ReadTodos, history, CaptureInv, Captured
<1>5. CASE AbandonRun(r)
  BY <1>5, GoneCaptured DEF AbandonRun, Done, history
<1>6. CASE Merge(r)
  <2>1. Captured(Merged(disk, copy[r]), deleted)
    BY <1>0, MergedCaptured DEF CaptureInv
  <2>2. QED BY <1>1, <1>6, <2>1 DEF Merge, history
<1>7. QED BY <1>2, <1>3, <1>4, <1>5, <1>6 DEF Run

\* A listed open finding with an apply block can be applied, or is not recorded
\* and comes again, for any number of handlers, daemon runs and analyze
\* processes, whatever they call, lost saves and crashes, unless its entry was
\* deleted: Apply's "no apply spec recorded for this finding; re-run analysis to
\* capture it" (lifecycle.go:152) is then true advice.
THEOREM CanBeApplied_always == Spec => []CanBeApplied
<1>1. Init => CaptureInv
  <2> SUFFICES ASSUME Init PROVE CaptureInv
    OBVIOUS
  <2>1. \A f \in Recorded : f \in Findings
    BY StateAssumption
  <2>2. Captured(disk, deleted)
    BY <2>1 DEF Init, Captured, Absent
  <2>3. \A a \in Actors : copy[a] = Nothing
    BY DEF Init
  <2>4. Captured(Nothing, deleted)
    BY DEF Nothing, Captured
  <2>5. QED BY <2>2, <2>3, <2>4 DEF CaptureInv
<1>2. Types /\ CaptureInv /\ [Next]_vars => CaptureInv'
  <2> SUFFICES ASSUME Types, CaptureInv, [Next]_vars PROVE CaptureInv'
    OBVIOUS
  <2>1. CASE UNCHANGED vars
    BY <2>1 DEF vars, CaptureInv, Captured
  <2>2. ASSUME NEW a \in Actors, Save(a) PROVE CaptureInv'
    BY <2>2, GoneCaptured DEF Save, Done, history
  <2>3. CASE Edit
    BY <2>3 DEF Edit, history, CaptureInv, Captured
  <2>4. CASE Crash
    BY <2>4, GoneCaptured DEF Crash, Die, history
  <2>5. QED BY <2>1, <2>2, <2>3, <2>4, HandleCaptured, RunCaptured DEF Next
<1>3. Types /\ CaptureInv => CanBeApplied
  <2> SUFFICES ASSUME Types, CaptureInv, NEW f \in todos \ deleted, Strategy[f] # "none",
                      Shown(disk.findings[f]) = "open", f \in Dedup(disk)
               PROVE  disk.findings[f].spec
    BY DEF CanBeApplied
  <2>1. disk.findings[f].status # "dismissed"
    BY DEF Shown
  <2>2. f \in disk.hashes
    BY <2>1 DEF Dedup
  <2>3. QED BY <2>2 DEF CaptureInv, Captured
<1>4. QED BY <1>1, <1>2, <1>3, StateTypes, PTL DEF Spec
-----------------------------------------------------------------------------
(***************************************************************************)
(* The lifecycle, for any calls, where no analyze process writes beside    *)
(* the lock (ProjectState_analyze.cfg shows that this is needed).  What is *)
(* true of a run's old snapshot: a finding that has no entry on disk has   *)
(* none or an open one there, unless its entry was deleted since.          *)
(***************************************************************************)
\* What transition t makes of entry d.
Moves(t, d, c) ==
  \/ c = d
  \/ /\ t = "apply" /\ d.status # "absent"
     /\ d.reversal = {} \/ d.status \in {"dismissed", "resolved"}
     /\ c.status = "applied" /\ c.reversal # {}
  \/ t = "undo" /\ d.status = "applied" /\ c.status = "open" /\ c.reversal = {}
  \/ c.status \in {"dismissed", "resolved"} /\ c.reversal = d.reversal
  \/ /\ d.status \in {"dismissed", "resolved"} /\ c.reversal = d.reversal
     /\ c.status = IF d.reversal # {} THEN "applied" ELSE "absent"

\* What the save of copy c would do to entry d of finding f.
Keeps(f, d, c) == d.status # "absent" /\ c.status = "absent" => f \in deleted

\* What holds for the copy of one actor.
Consistent(a) ==
  /\ pc[a] = "loaded" =>
       /\ a \in Handlers /\ copy[a] = disk
       /\ \E t \in Transitions, f \in Findings : request[a] = <<t, f>>
  /\ pc[a] = "saving" =>
       /\ \A f \in Findings : Keeps(f, disk.findings[f], copy[a].findings[f])
       /\ a \in Handlers =>
            \E t \in Transitions, f \in Findings :
              /\ request[a] = <<t, f>> /\ Moves(t, disk.findings[f], copy[a].findings[f])
              /\ \A g \in Findings \ {f} : copy[a].findings[g] = disk.findings[g]
       /\ a \notin Handlers =>
            \A f \in Findings :
              /\ disk.findings[f].status # "absent" => copy[a].findings[f].status # "absent"
              /\ disk.findings[f].status # "absent" \/ f \notin deleted =>
                   /\ Shown(copy[a].findings[f]) = Shown(disk.findings[f])
                   /\ copy[a].findings[f].reversal = disk.findings[f].reversal
  /\ pc[a] \in {"analysing", "listing", "unmerged"} =>
       /\ a \in Runs
       /\ \A f \in Findings \ deleted : disk.findings[f].status = "absent"
                                => copy[a].findings[f].status \in {"absent", "open"}

CopyInv == Types /\ Guarded /\ \A a \in Actors : Consistent(a)

\* What holds for an actor is undisturbed while others leave the state alone.
LEMMA Frame ==
  ASSUME NEW a \in Actors, Consistent(a), disk' = disk, deleted \subseteq deleted',
         pc'[a] = pc[a], copy'[a] = copy[a], a \in Handlers => request'[a] = request[a]
  PROVE  Consistent(a)'
<1>1. CASE a \in Handlers
  BY <1>1 DEF Consistent, Keeps, Moves
<1>2. CASE a \notin Handlers
  <2>1. pc[a] # "loaded"
    BY <1>2 DEF Consistent
  <2>2. QED BY <1>2, <2>1 DEF Consistent, Keeps
<1>3. QED BY <1>1, <1>2

\* An idle actor holds nothing.
LEMMA IdleConsistent ==
  ASSUME NEW a, pc'[a] = "idle"
  PROVE  Consistent(a)'
BY DEF Consistent

\* Actors that end without a save.
LEMMA GoneConsistent ==
  ASSUME CopyInv, NEW actors, Gone(actors), disk' = disk, deleted' = deleted
  PROVE  \A a \in Actors : Consistent(a)'
<1> SUFFICES ASSUME NEW a \in Actors PROVE Consistent(a)'
  OBVIOUS
<1>1. CASE a \in actors
  BY <1>1, IdleConsistent DEF Gone
<1>2. CASE a \notin actors
  BY <1>2, Frame DEF Gone, CopyInv
<1>3. QED BY <1>1, <1>2

\* A handler's change of its entry is one of the moves.
LEMMA BecomesConsistent ==
  ASSUME CopyInv, NEW h \in Handlers, NEW t \in Transitions, NEW f \in Findings, NEW entry,
         pc[h] = "loaded", request[h] = <<t, f>>, deleted \subseteq deleted',
         Moves(t, copy[h].findings[f], entry),
         copy[h].findings[f].status # "absent" /\ entry.status = "absent" => f \in deleted',
         Becomes(h, f, entry)
  PROVE  \A a \in Actors : Consistent(a)'
<1>0. h \in Actors /\ copy[h] = disk /\ disk \in StateType
  BY DEF Actors, CopyInv, Types, Consistent
<1>1. disk' = disk /\ request' = request
  BY DEF Becomes
<1>2. \A a \in Actors \ {h} : pc'[a] = pc[a] /\ copy'[a] = copy[a]
  BY <1>0 DEF Becomes, CopyInv, Types
<1>3. pc'[h] = "saving"
  BY <1>0 DEF Becomes, CopyInv, Types
<1>4. \A g \in Findings : copy'[h].findings[g] = IF g = f THEN entry ELSE disk.findings[g]
  BY <1>0 DEF Becomes, CopyInv, Types, StateType
<1>5. Consistent(h)'
  <2>1. \A g \in Findings : Keeps(g, disk.findings[g], copy[h].findings[g])'
    BY <1>0, <1>1, <1>4 DEF Keeps
  <2>2. Moves(t, disk.findings[f], copy[h].findings[f])'
    BY <1>0, <1>1, <1>4 DEF Moves
  <2>3. \A g \in Findings \ {f} : copy'[h].findings[g] = disk'.findings[g]
    BY <1>1, <1>4
  <2>4. request'[h] = <<t, f>>
    BY <1>1
  <2>5. QED BY <1>3, <2>1, <2>2, <2>3, <2>4 DEF Consistent
<1>6. QED BY <1>1, <1>2, <1>5, Frame DEF CopyInv

\* What the handlers make of an entry.
LEMMA HandleMoves ==
  ASSUME CopyInv, NEW h \in Handlers, NEW f \in Findings,
         ApplyFile(h, f) \/ UndoFile(h, f) \/ SetAside(h, f) \/ TakeBack(h, f)
  PROVE  \E t \in Transitions : \E entry :
           /\ pc[h] = "loaded" /\ request[h] = <<t, f>> /\ deleted \subseteq deleted'
           /\ Moves(t, copy[h].findings[f], entry)
           /\ copy[h].findings[f].status # "absent" /\ entry.status = "absent" => f \in deleted'
           /\ Becomes(h, f, entry)
<1> DEFINE e == copy[h].findings[f]
<1>0. e \in EntryType
  BY DEF Actors, CopyInv, Types, StateType
<1>1. pc[h] = "loaded" /\ deleted \subseteq deleted'
  BY DEF ApplyFile, UndoFile, SetAside, TakeBack
<1>2. CASE ApplyFile(h, f)
  <2> DEFINE applied == [e EXCEPT !.status = "applied",
                                  !.reversal = {[pre |-> target, post |-> target']}]
  <2>1. request[h] = <<"apply", f>> /\ "apply" \in Transitions
    BY <1>2 DEF ApplyFile, Transitions
  <2>2. e.status # "absent" /\ (e.reversal = {} \/ e.status \in {"dismissed", "resolved"})
    BY <1>0, <1>2 DEF ApplyFile, EntryType, WellFormed, Statuses
  <2>3. applied.status = "applied" /\ applied.reversal = {[pre |-> target, post |-> target']}
    BY <1>0 DEF EntryType
  <2>4. applied.reversal # {}
    BY <2>3
  <2>5. Moves("apply", e, applied)
    BY <2>2, <2>3, <2>4 DEF Moves
  <2>6. Becomes(h, f, applied) /\ applied.status # "absent"
    BY <1>2, <2>3 DEF ApplyFile
  <2>7. QED BY <1>1, <2>1, <2>5, <2>6
<1>3. CASE UndoFile(h, f)
  <2> DEFINE undone == [e EXCEPT !.status = "open", !.reversal = {}]
  <2>1. undone.status = "open" /\ undone.reversal = {}
    BY <1>0 DEF EntryType
  <2>2. e.status = "applied" /\ request[h] = <<"undo", f>> /\ "undo" \in Transitions
    BY <1>3 DEF UndoFile, Transitions
  <2>3. Moves("undo", e, undone) /\ undone.status # "absent"
    BY <2>1, <2>2 DEF Moves
  <2>4. Becomes(h, f, undone)
    BY <1>3 DEF UndoFile
  <2>5. QED BY <1>1, <2>2, <2>3, <2>4
<1>4. CASE SetAside(h, f)
  <2>1. PICK t \in {<<"dismiss", "dismissed">>, <<"resolve", "resolved">>} :
               request[h] = <<t[1], f>> /\ Becomes(h, f, [e EXCEPT !.status = t[2]])
    BY <1>4 DEF SetAside
  <2> DEFINE aside == [e EXCEPT !.status = t[2]]
  <2>2. aside.status \in {"dismissed", "resolved"} /\ aside.reversal = e.reversal
    BY <1>0 DEF EntryType
  <2>3. Moves(t[1], e, aside) /\ aside.status # "absent"
    BY <2>2 DEF Moves
  <2>4. t[1] \in Transitions
    BY DEF Transitions
  <2>5. QED BY <1>1, <2>1, <2>3, <2>4
<1>5. CASE TakeBack(h, f)
  <2>1. PICK t \in {<<"undismiss", "dismissed">>, <<"unresolve", "resolved">>} :
          /\ request[h] = <<t[1], f>>
          /\ Becomes(h, f, IF e.status = t[2] THEN TakenBack(e) ELSE e)
          /\ deleted' = IF e.status = t[2] /\ e.reversal = {} THEN deleted \cup {f} ELSE deleted
    BY <1>5 DEF TakeBack
  <2>2. t[1] \in Transitions
    BY DEF Transitions
  <2>3. CASE e.status = t[2]
    <3>1. e.status \in {"dismissed", "resolved"}
      BY <2>3
    <3>2. /\ TakenBack(e).reversal = e.reversal
          /\ TakenBack(e).status = IF e.reversal # {} THEN "applied" ELSE "absent"
      BY <1>0 DEF TakenBack, EntryType, Absent
    <3>3. Moves(t[1], e, TakenBack(e))
      BY <3>1, <3>2 DEF Moves
    <3>4. TakenBack(e).status = "absent" => f \in deleted'
      BY <2>1, <2>3, <3>2
    <3>5. Becomes(h, f, TakenBack(e))
      BY <2>1, <2>3
    <3>6. QED BY <1>1, <2>1, <2>2, <3>3, <3>4, <3>5
  <2>4. CASE e.status # t[2]
    <3>1. Moves(t[1], e, e) /\ Becomes(h, f, e)
      BY <2>1, <2>4 DEF Moves
    <3>2. QED BY <1>1, <2>1, <2>2, <3>1
  <2>5. QED BY <2>3, <2>4
<1>6. QED BY <1>2, <1>3, <1>4, <1>5

\* The handlers keep every copy consistent.
LEMMA HandleConsistent ==
  ASSUME CopyInv, NEW h \in Handlers, Handle(h)
  PROVE  \A a \in Actors : Consistent(a)'
<1>0. h \in Actors /\ copy[h] \in StateType
  BY DEF Actors, CopyInv, Types
<1>1. ASSUME NEW t \in Transitions, NEW f \in Findings, Load(h, t, f)
      PROVE  \A a \in Actors : Consistent(a)'
  <2>1. /\ disk' = disk /\ deleted' = deleted
        /\ pc'[h] = "loaded" /\ copy'[h] = disk /\ request'[h] = <<t, f>>
    BY <1>0, <1>1 DEF Load, history, CopyInv, Types
  <2>2. \A a \in Actors \ {h} : /\ pc'[a] = pc[a] /\ copy'[a] = copy[a]
                                /\ a \in Handlers => request'[a] = request[a]
    BY <1>0, <1>1 DEF Load, CopyInv, Types
  <2>3. Consistent(h)'
    BY <2>1 DEF Consistent
  <2>4. QED BY <2>1, <2>2, <2>3, Frame DEF CopyInv
<1>2. CASE Refuse(h)
  BY <1>2, GoneConsistent DEF Refuse, Done, history
<1>3. ASSUME NEW f \in Findings,
             ApplyFile(h, f) \/ UndoFile(h, f) \/ SetAside(h, f) \/ TakeBack(h, f)
      PROVE  \A a \in Actors : Consistent(a)'
  BY <1>3, HandleMoves, BecomesConsistent
<1>4. QED BY <1>1, <1>2, <1>3 DEF Handle

\* A merge under the lock moves no finding that is on disk and drops no entry;
\* what it adds is open, unless the entry was deleted since.
LEMMA MergeConsistent ==
  ASSUME CopyInv, NEW r \in Runs, Merge(r)
  PROVE  Consistent(r)'
<1> DEFINE m == Merged(disk, copy[r])
<1>0. r \in Actors /\ r \notin Handlers /\ copy[r] \in StateType /\ disk \in StateType
  BY StateAssumption DEF Actors, CopyInv, Types
<1>1. /\ pc[r] = "unmerged" /\ pc'[r] = "saving" /\ copy'[r] = m
      /\ disk' = disk /\ deleted' = deleted
  BY <1>0 DEF Merge, history, CopyInv, Types
<1>2. \A f \in Findings \ deleted : disk.findings[f].status = "absent"
                            => copy[r].findings[f].status \in {"absent", "open"}
  BY <1>0, <1>1 DEF CopyInv, Consistent
<1>3. ASSUME NEW f \in Findings
      PROVE  /\ disk.findings[f].status # "absent" => m.findings[f].status # "absent"
             /\ disk.findings[f].status # "absent" \/ f \notin deleted =>
                  /\ Shown(m.findings[f]) = Shown(disk.findings[f])
                  /\ m.findings[f].reversal = disk.findings[f].reversal
  <2>0. disk.findings[f] \in EntryType /\ copy[r].findings[f] \in EntryType
    BY <1>0 DEF StateType
  <2>1. CASE disk.findings[f].status = "absent"
    <3>1. m.findings[f] = copy[r].findings[f]
      BY <2>1 DEF Merged
    <3>2. QED BY <1>2, <2>0, <2>1, <3>1 DEF Shown, EntryType, WellFormed
  <2>2. CASE disk.findings[f].status # "absent"
    <3>1. m.findings[f] = [disk.findings[f] EXCEPT !.spec = @ \/ copy[r].findings[f].spec]
      BY <2>2 DEF Merged
    <3>2. /\ m.findings[f].status = disk.findings[f].status
          /\ m.findings[f].reversal = disk.findings[f].reversal
      BY <2>0, <3>1 DEF EntryType
    <3>3. QED BY <2>2, <3>2 DEF Shown
  <2>3. QED BY <2>1, <2>2
<1> HIDE DEF m
<1>4. QED BY <1>0, <1>1, <1>3 DEF Consistent, Keeps

\* Recording a plan moves no finding: an entry is absent only if it was.
LEMMA WriteConsistent ==
  ASSUME CopyInv, NEW r \in Runs, WriteTodos(r)
  PROVE  Consistent(r)'
<1>0. r \in Actors /\ r \notin Handlers /\ copy[r] \in StateType
  BY StateAssumption DEF Actors, CopyInv, Types
<1>1. pc[r] = "listing" /\ pc'[r] = "unmerged" /\ disk' = disk /\ deleted' = deleted
  BY <1>0 DEF WriteTodos, Record, CopyInv, Types
<1>2. copy'[r].findings = WithSpecs(copy[r].findings, draft[r].new)
  BY <1>0 DEF WriteTodos, Record, CopyInv, Types
<1>3. \A f \in Findings : copy[r].findings[f].status \in {"absent", "open"}
                            => copy'[r].findings[f].status \in {"absent", "open"}
  <2>1. \A f \in Findings : copy[r].findings[f] \in EntryType
    BY <1>0 DEF StateType
  <2>2. QED BY <1>2, <2>1 DEF WithSpecs, Shown, EntryType
<1>4. \A f \in Findings \ deleted : disk.findings[f].status = "absent"
                            => copy[r].findings[f].status \in {"absent", "open"}
  BY <1>0, <1>1 DEF CopyInv, Consistent
<1>5. QED BY <1>1, <1>3, <1>4 DEF Consistent

\* The runs keep every copy consistent.
LEMMA RunConsistent ==
  ASSUME CopyInv, NEW r \in Runs, Run(r)
  PROVE  \A a \in Actors : Consistent(a)'
<1>0. r \in Actors /\ r \notin Handlers
  BY StateAssumption DEF Actors
<1>1. CASE AbandonRun(r)
  BY <1>1, GoneConsistent DEF AbandonRun, Done, history
<1>2. CASE ~AbandonRun(r)
  <2>1. disk' = disk /\ deleted' = deleted
    BY <1>2 DEF Run, StartRun, ReadTodos, WriteTodos, Record, FailRun, Merge, history
  <2>2. \A a \in Actors \ {r} : /\ pc'[a] = pc[a] /\ copy'[a] = copy[a]
                                /\ a \in Handlers => request'[a] = request[a]
    BY <1>0, <1>2 DEF Run, StartRun, ReadTodos, WriteTodos, Record, FailRun, Merge, CopyInv, Types
  <2>3. Consistent(r)'
    <3>1. CASE StartRun(r)
      <4>1. pc'[r] = "analysing" /\ copy'[r] = disk
        BY <1>0, <3>1 DEF StartRun, CopyInv, Types
      <4>2. QED BY <2>1, <4>1 DEF Consistent
    <3>2. CASE FailRun(r) \/ \E new \in SUBSET Findings : ReadTodos(r, new)
      <4>1. /\ pc[r] = "analysing" /\ pc'[r] \in {"unmerged", "listing"}
            /\ copy' = copy
        BY <1>0, <3>2 DEF FailRun, ReadTodos, CopyInv, Types
      <4>2. QED BY <1>0, <2>1, <4>1 DEF CopyInv, Consistent
    <3>3. QED BY <1>2, <3>1, <3>2, MergeConsistent, WriteConsistent DEF Run
  <2>4. QED BY <2>1, <2>2, <2>3, Frame DEF CopyInv
<1>3. QED BY <1>1, <1>2

\* A save leaves the copies of the runs consistent: an entry it deletes is one
\* that a call has deleted.
LEMMA SaveConsistent ==
  ASSUME CopyInv, NEW a \in Actors, Save(a)
  PROVE  \A b \in Actors : Consistent(b)'
<1>1. pc[a] = "saving" /\ lock = a /\ deleted' = deleted
  BY DEF Save, history, CopyInv, Guarded
<1>2. \A b \in Actors \ {a} : pc[b] \notin {"loaded", "saving"}
  BY <1>1 DEF CopyInv, Guarded
<1>3. pc'[a] = "idle" /\ \A b \in Actors \ {a} : pc'[b] = pc[b] /\ copy'[b] = copy[b]
  BY DEF Save, Done, Gone, CopyInv, Types
<1>4. \A f \in Findings \ deleted :
         disk'.findings[f].status = "absent" => disk.findings[f].status = "absent"
  BY <1>1 DEF Save, CopyInv, Consistent, Keeps
<1>5. \A b \in Actors \ {a} : Consistent(b) => Consistent(b)'
  BY <1>1, <1>2, <1>3, <1>4 DEF Consistent
<1>6. QED BY <1>3, <1>5, IdleConsistent DEF CopyInv

\* The invariant behind the lifecycle properties, whatever clients call.
THEOREM CopyInvariant == Foreign = {} => (Spec => []CopyInv)
<1> SUFFICES ASSUME Foreign = {} PROVE Spec => []CopyInv
  OBVIOUS
<1>1. Init => Guarded /\ \A a \in Actors : Consistent(a)
  BY DEF Init, Guarded, Consistent
<1>2. CopyInv /\ Types' /\ [Next]_vars => CopyInv'
  <2> SUFFICES ASSUME CopyInv, Types', [Next]_vars PROVE CopyInv'
    OBVIOUS
  <2>1. Guarded'
    BY GuardedStep DEF CopyInv
  <2>2. \A a \in Actors : Consistent(a)'
    <3>1. ASSUME UNCHANGED vars \/ Edit PROVE \A a \in Actors : Consistent(a)'
      BY <3>1, Frame DEF vars, Edit, history, CopyInv
    <3>2. ASSUME Crash PROVE \A a \in Actors : Consistent(a)'
      BY <3>2, GoneConsistent DEF Crash, Die, history
    <3>3. QED BY <3>1, <3>2, HandleConsistent, RunConsistent, SaveConsistent DEF Next
  <2>3. QED BY <2>1, <2>2 DEF CopyInv
<1>3. Init /\ Types => CopyInv
  BY <1>1 DEF CopyInv
<1>4. QED BY <1>2, <1>3, StateTypes, PTL DEF Spec

\* Only a save changes the state.
LEMMA OnlySaves ==
  ASSUME [Next]_vars, disk' # disk
  PROVE  \E a \in Actors : Save(a) /\ disk' = copy[a]
<1>1. \A h \in Handlers : ~Handle(h)
  <2> SUFFICES ASSUME NEW h \in Handlers, Handle(h) PROVE FALSE
    OBVIOUS
  <2>1. \A t \in Transitions, f \in Findings : ~Load(h, t, f)
    BY DEF Load
  <2>2. ~Refuse(h)
    BY DEF Refuse
  <2>3. \A f \in Findings : ~ApplyFile(h, f) /\ ~UndoFile(h, f)
    BY DEF ApplyFile, UndoFile, Becomes
  <2>4. \A f \in Findings : ~SetAside(h, f) /\ ~TakeBack(h, f)
    BY DEF SetAside, TakeBack, Becomes
  <2>5. QED BY <2>1, <2>2, <2>3, <2>4 DEF Handle
<1>2. \A r \in Runs : ~Run(r)
  BY DEF Run, StartRun, ReadTodos, WriteTodos, Record, FailRun, AbandonRun, Merge
<1>3. ~Edit /\ ~Crash
  BY DEF Edit, Crash, Die
<1>4. QED BY <1>1, <1>2, <1>3 DEF Next, vars, Save

\* Only a handler that takes a finding back adds to what is deleted, and the
\* finding still has its entry then.
LEMMA OnlyTakeBacks ==
  ASSUME CopyInv, [Next]_vars, deleted' # deleted
  PROVE  /\ disk' = disk
         /\ \E f \in Findings : deleted' = deleted \cup {f} /\ disk.findings[f].status # "absent"
<1>1. PICK h \in Handlers, f \in Findings : TakeBack(h, f)
  <2>1. \A h \in Handlers : Handle(h) => \E f \in Findings : TakeBack(h, f)
    BY DEF Handle, Load, Refuse, ApplyFile, UndoFile, SetAside, history
  <2>2. \A r \in Runs : ~Run(r)
    BY DEF Run, StartRun, ReadTodos, WriteTodos, Record, FailRun, AbandonRun, Merge, history
  <2>3. ~Edit /\ ~Crash /\ \A a \in Actors : ~Save(a)
    BY DEF Edit, Crash, Die, Save, history
  <2>4. QED BY <2>1, <2>2, <2>3 DEF Next, vars
<1>2. copy[h] = disk
  BY <1>1 DEF TakeBack, Actors, CopyInv, Consistent
<1>3. disk' = disk
  BY <1>1 DEF TakeBack, Becomes
<1>4. deleted' = deleted \cup {f} /\ copy[h].findings[f].status \in {"dismissed", "resolved"}
  BY <1>1 DEF TakeBack
<1>5. QED BY <1>2, <1>3, <1>4

\* A run's merge moves no finding that has an entry, takes no reversal, and adds
\* open findings, whatever clients called since the run took its snapshot; only
\* what they deleted may come back as it was.
THEOREM RunsLeaveLifecycle_always == Foreign = {} => (Spec => RunsLeaveLifecycle)
<1> SUFFICES ASSUME Foreign = {} PROVE Spec => RunsLeaveLifecycle
  OBVIOUS
<1> DEFINE Same(f) == /\ Shown(disk'.findings[f]) = Shown(disk.findings[f])
                      /\ disk'.findings[f].reversal = disk.findings[f].reversal
           Leaves == \A r \in Runs : pc[r] = "saving" /\ pc'[r] = "idle" =>
                       \A f \in Findings :
                         disk.findings[f].status # "absent" \/ f \notin deleted => Same(f)
<1>1. CopyInv /\ [Next]_vars => [Leaves]_vars
  <2> SUFFICES ASSUME CopyInv, [Next]_vars, NEW r \in Runs, pc[r] = "saving",
                      NEW f \in Findings, disk.findings[f].status # "absent" \/ f \notin deleted
               PROVE  Same(f)
    OBVIOUS
  <2>1. r \in Actors /\ r \notin Handlers
    BY StateAssumption DEF Actors
  <2>2. CASE disk' = disk
    BY <2>2
  <2>3. CASE disk' # disk
    <3>1. PICK a \in Actors : Save(a) /\ disk' = copy[a]
      BY <2>3, OnlySaves
    <3>2. a = r
      BY <2>1, <3>1 DEF Save, CopyInv, Guarded
    <3>3. QED BY <2>1, <3>1, <3>2 DEF CopyInv, Consistent
  <2>4. QED BY <2>2, <2>3
<1>2. QED BY <1>1, CopyInvariant, PTL DEF Spec, RunsLeaveLifecycle

\* What an apply saved for its undo stays until that undo, whatever runs and
\* clients do, unless the finding is applied again after it was set aside.
THEOREM ReversalIsKept_always == Foreign = {} => (Spec => ReversalIsKept)
<1> SUFFICES ASSUME Foreign = {} PROVE Spec => ReversalIsKept
  OBVIOUS
<1> DEFINE Kept(f) ==
       \/ disk.findings[f].reversal \subseteq disk'.findings[f].reversal
       \/ \E h \in Handlers :
            /\ pc[h] = "saving"
            /\ \/ request[h] = <<"undo", f>>
               \/ request[h] = <<"apply", f>> /\ SetAsideOnDisk(f)
<1>1. CopyInv /\ [Next]_vars => [\A f \in Findings : Kept(f)]_vars
  <2> SUFFICES ASSUME CopyInv, [Next]_vars, NEW f \in Findings PROVE Kept(f)
    OBVIOUS
  <2>0. disk.findings[f] \in EntryType
    BY DEF CopyInv, Types, StateType
  <2>1. CASE disk' = disk
    BY <2>1
  <2>2. CASE disk' # disk
    <3>1. PICK a \in Actors : Save(a) /\ disk' = copy[a]
      BY <2>2, OnlySaves
    <3>2. CASE a \notin Handlers
      <4>1. disk.findings[f].status # "absent" => copy[a].findings[f].reversal = disk.findings[f].reversal
        BY <3>1, <3>2 DEF CopyInv, Consistent, Save
      <4>2. disk.findings[f].status = "absent" => disk.findings[f].reversal = {}
        BY <2>0 DEF EntryType, WellFormed
      <4>3. QED BY <3>1, <4>1, <4>2
    <3>3. CASE a \in Handlers
      <4>1. PICK t \in Transitions, g \in Findings :
                   /\ request[a] = <<t, g>> /\ Moves(t, disk.findings[g], disk'.findings[g])
                   /\ \A k \in Findings \ {g} : disk'.findings[k] = disk.findings[k]
        BY <3>1, <3>3 DEF CopyInv, Consistent, Save
      <4>2. pc[a] = "saving"
        BY <3>1 DEF Save
      <4>3. CASE f # g
        BY <4>1, <4>3
      <4>4. CASE f = g
        BY <3>3, <4>1, <4>2, <4>4 DEF Moves, SetAsideOnDisk
      <4>5. QED BY <4>3, <4>4
    <3>4. QED BY <3>2, <3>3
  <2>3. QED BY <2>1, <2>2
<1>2. QED BY <1>1, CopyInvariant, PTL DEF Spec, ReversalIsKept

-----------------------------------------------------------------------------
(***************************************************************************)
(* The refinement, in the terms of FindingLifecycle.                       *)
(***************************************************************************)
shown    == [f \in Findings |-> Shown(disk.findings[f])]
undoable == {f \in Findings : disk.findings[f].reversal # {}}
dropped  == {f \in deleted : disk.findings[f].status = "absent"}

\* The save of a handler is one of the operator's moves.
LEMMA HandlerSaves ==
  ASSUME CopyInv, CopyInv', NEW h \in Handlers, Save(h), disk' = copy[h]
  PROVE  Lifecycle!Next \/ UNCHANGED <<shown, undoable, dropped>>
<1>1. PICK t \in Transitions, f \in Findings :
         /\ Moves(t, disk.findings[f], disk'.findings[f])
         /\ \A g \in Findings \ {f} : disk'.findings[g] = disk.findings[g]
  BY DEF CopyInv, Consistent, Save, Actors
<1> DEFINE d == disk.findings[f]
           c == disk'.findings[f]
<1>2. /\ d \in EntryType /\ c \in EntryType /\ deleted' = deleted
      /\ d.status # "absent" /\ c.status = "absent" => f \in deleted
  BY DEF CopyInv, Types, StateType, Consistent, Keeps, Save, history, Actors
<1>3. shown' = [shown EXCEPT ![f] = Shown(c)]
  BY <1>1 DEF shown
<1>4. /\ \A g \in Findings \ {f} : g \in undoable' <=> g \in undoable
      /\ f \in undoable <=> d.reversal # {}
      /\ f \in undoable' <=> c.reversal # {}
      /\ undoable \subseteq Findings /\ undoable' \subseteq Findings
  BY <1>1 DEF undoable
<1>5. /\ \A g \in Findings \ {f} : g \in dropped' <=> g \in dropped
      /\ f \in dropped <=> f \in deleted /\ d.status = "absent"
      /\ f \in dropped' <=> f \in deleted /\ c.status = "absent"
      /\ dropped \subseteq Findings /\ dropped' \subseteq Findings
  BY <1>1, <1>2 DEF dropped, CopyInv, Types
<1>6. shown[f] = Shown(d)
  BY DEF shown
<1>7. CASE c = d
  <2>1. \A g \in Findings : disk'.findings[g] = disk.findings[g]
    BY <1>1, <1>7
  <2>2. QED BY <1>2, <2>1 DEF shown, undoable, dropped, CopyInv, Types
<1>8. CASE /\ d.status # "absent" /\ (d.reversal = {} \/ d.status \in {"dismissed", "resolved"})
           /\ c.status = "applied" /\ c.reversal # {}
  <2>1. undoable' = undoable \cup {f} /\ dropped' = dropped /\ f \notin dropped
    BY <1>4, <1>5, <1>8
  <2>2. shown' = [shown EXCEPT ![f] = "applied"]
    BY <1>3, <1>8 DEF Shown
  <2>3. f \notin undoable \/ shown[f] \in {"dismissed", "resolved"}
    BY <1>4, <1>6, <1>8 DEF Shown
  <2>4. Lifecycle!Apply(f)
    BY <2>1, <2>2, <2>3 DEF Lifecycle!Apply, shown, undoable, dropped
  <2>5. QED BY <2>4 DEF Lifecycle!Next
<1>9. CASE d.status = "applied" /\ c.status = "open" /\ c.reversal = {}
  <2>1. d.reversal # {}
    BY <1>2, <1>9 DEF EntryType, WellFormed
  <2>2. f \in undoable /\ undoable' = undoable \ {f} /\ dropped' = dropped
    BY <1>4, <1>5, <1>9, <2>1
  <2>3. shown[f] = "applied" /\ shown' = [shown EXCEPT ![f] = "open"]
    BY <1>3, <1>6, <1>9 DEF Shown
  <2>4. Lifecycle!Undo(f)
    BY <2>2, <2>3 DEF Lifecycle!Undo, shown, undoable, dropped
  <2>5. QED BY <2>4 DEF Lifecycle!Next
<1>10. ASSUME NEW status \in {"dismissed", "resolved"}, c.status = status, c.reversal = d.reversal
       PROVE  Lifecycle!Next
  <2>1. undoable' = undoable /\ dropped' = dropped \ {f}
    BY <1>4, <1>5, <1>10
  <2>2. shown' = [shown EXCEPT ![f] = status]
    BY <1>3, <1>10 DEF Shown
  <2>3. Lifecycle!SetAside(f, status)
    BY <2>1, <2>2 DEF Lifecycle!SetAside, shown, undoable, dropped
  <2>4. QED BY <2>3 DEF Lifecycle!Next
<1>11. CASE /\ d.status \in {"dismissed", "resolved"} /\ c.reversal = d.reversal
            /\ c.status = IF d.reversal # {} THEN "applied" ELSE "absent"
  <2>1. undoable' = undoable /\ shown[f] \in {"dismissed", "resolved"}
    BY <1>4, <1>6, <1>11 DEF Shown
  <2>2. CASE d.reversal # {}
    <3>1. f \in undoable /\ dropped' = dropped /\ shown' = [shown EXCEPT ![f] = "applied"]
      BY <1>3, <1>4, <1>5, <1>11, <2>2 DEF Shown
    <3>2. Lifecycle!TakeBack(f)
      BY <2>1, <3>1 DEF Lifecycle!TakeBack, shown, undoable, dropped
    <3>3. QED BY <3>2 DEF Lifecycle!Next
  <2>3. CASE d.reversal = {}
    <3>1. /\ f \notin undoable /\ dropped' = dropped \cup {f}
          /\ shown' = [shown EXCEPT ![f] = "open"]
      BY <1>2, <1>3, <1>4, <1>5, <1>11, <2>3 DEF Shown
    <3>2. Lifecycle!TakeBack(f)
      BY <2>1, <3>1 DEF Lifecycle!TakeBack, shown, undoable, dropped
    <3>3. QED BY <3>2 DEF Lifecycle!Next
  <2>4. QED BY <2>2, <2>3
<1>12. QED BY <1>1, <1>7, <1>8, <1>9, <1>10, <1>11 DEF Moves

\* The save of a run at most revives what was dropped.
LEMMA RunSaves ==
  ASSUME CopyInv, CopyInv', NEW r \in Runs, Save(r), disk' = copy[r]
  PROVE  Lifecycle!Next
<1>b. PICK back : back = {f \in dropped : disk'.findings[f].status # "absent"}
  OBVIOUS
<1>0. r \in Actors /\ r \notin Handlers /\ pc[r] = "saving" /\ deleted' = deleted
  BY StateAssumption DEF Actors, Save, history
<1>1. \A f \in Findings : disk.findings[f] \in EntryType /\ disk'.findings[f] \in EntryType
  BY DEF CopyInv, Types, StateType
<1>2. \A f \in Findings :
        /\ disk.findings[f].status # "absent" => disk'.findings[f].status # "absent"
        /\ f \notin dropped => /\ Shown(disk'.findings[f]) = Shown(disk.findings[f])
                               /\ disk'.findings[f].reversal = disk.findings[f].reversal
  BY <1>0 DEF CopyInv, Consistent, dropped
<1>3. dropped \subseteq Findings
  BY DEF dropped, CopyInv, Types
<1>4. dropped' = dropped \ back
  BY <1>b, <1>0, <1>2, <1>3 DEF dropped, CopyInv, Types
<1>5. shown' \in [Findings -> {"open", "applied", "dismissed", "resolved"}]
  BY <1>1 DEF shown, Shown, EntryType, Statuses
<1>6. \A f \in dropped : f \notin back => /\ Shown(disk'.findings[f]) = Shown(disk.findings[f])
                                          /\ disk'.findings[f].reversal = {}
  BY <1>b, <1>1, <1>3 DEF dropped, Shown, EntryType, WellFormed
<1>7. \A f \in Findings : f \notin back => shown'[f] = shown[f]
  BY <1>2, <1>6 DEF shown
<1>8. undoable \subseteq undoable'
  <2>1. \A f \in undoable : disk.findings[f].status # "absent"
    BY <1>1 DEF undoable, EntryType, WellFormed
  <2>2. QED BY <1>2, <2>1 DEF undoable, dropped
<1>9. undoable' \subseteq undoable \cup back
  BY <1>b, <1>2, <1>6 DEF undoable
<1>10. \A f \in back : /\ shown'[f] = "applied" => f \in undoable'
                       /\ shown'[f] = "open" => f \notin undoable'
  BY <1>b, <1>1, <1>3 DEF shown, undoable, Shown, EntryType, WellFormed
<1>11. back \in SUBSET dropped
  BY <1>b
<1>12. Lifecycle!Revive(back)
  BY <1>4, <1>5, <1>7, <1>8, <1>9, <1>10 DEF Lifecycle!Revive, shown, undoable, dropped
<1>13. back \in SUBSET {f \in deleted : disk.findings[f].status = "absent"}
  BY <1>11 DEF dropped
<1>14. QED BY <1>12, <1>13 DEF Lifecycle!Next

\* The project's state implements FindingLifecycle, whatever clients call, runs
\* interleave, saves fail and processes die: only the operator moves a finding
\* that is not dropped, and an apply can be undone until it was.
THEOREM Refinement == Foreign = {} => (Spec => ImplementsFindingLifecycle)
<1> SUFFICES ASSUME Foreign = {} PROVE Spec => ImplementsFindingLifecycle
  OBVIOUS
<1>1. Init => Lifecycle!Init
  <2> SUFFICES ASSUME Init PROVE Lifecycle!Init
    OBVIOUS
  <2>1. \A f \in Findings : Shown(disk.findings[f]) = "open" /\ disk.findings[f].reversal = {}
    BY DEF Init, Shown, Absent
  <2>2. deleted = {}
    BY DEF Init
  <2>3. QED BY <2>1, <2>2 DEF Lifecycle!Init
<1>2. CopyInv /\ CopyInv' /\ [Next]_vars => [Lifecycle!Next]_Lifecycle!vars
  <2> SUFFICES ASSUME CopyInv, CopyInv', [Next]_vars
               PROVE  Lifecycle!Next \/ UNCHANGED <<shown, undoable, dropped>>
    BY DEF Lifecycle!vars, shown, undoable, dropped
  <2>1. CASE disk' # disk
    <3>1. PICK a \in Actors : Save(a) /\ disk' = copy[a]
      BY <2>1, OnlySaves
    <3>2. QED BY <3>1, HandlerSaves, RunSaves DEF Actors
  <2>2. CASE disk' = disk
    <3>1. UNCHANGED <<shown, undoable>>
      BY <2>2 DEF shown, undoable
    <3>2. dropped' = dropped
      BY <2>2, OnlyTakeBacks DEF dropped
    <3>3. QED BY <3>1, <3>2
  <2>3. QED BY <2>1, <2>2
<1>3. QED BY <1>1, <1>2, CopyInvariant, PTL DEF Spec, ImplementsFindingLifecycle, Lifecycle!Spec
=============================================================================
