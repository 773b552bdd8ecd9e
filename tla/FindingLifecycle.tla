-------------------------- MODULE FindingLifecycle --------------------------
(***************************************************************************)
(* What the dashboard promises the operator about the findings of one      *)
(* project: only the operator moves a finding between open, applied,       *)
(* dismissed and resolved, and what an apply needs to be undone is kept    *)
(* until that undo.  Two things weaken the promise.  A finding that was    *)
(* taken back from being set aside is dropped, and until the operator's    *)
(* next call on it an analysis that began earlier may bring it back as it  *)
(* was.  And applying a finding that was set aside starts a new undo.      *)
(* ProjectState implements this specification.                             *)
(***************************************************************************)
CONSTANT Findings

VARIABLES shown,     \* where the operator sees each finding
          undoable,  \* findings whose last apply can still be undone
          dropped    \* findings taken back, of which nothing is kept

vars == <<shown, undoable, dropped>>

Init == /\ shown = [f \in Findings |-> "open"]
        /\ undoable = {}
        /\ dropped = {}

\* Nothing is known any more of how to apply a dropped finding.
Apply(f) ==
  /\ f \notin dropped
  /\ f \notin undoable \/ shown[f] \in {"dismissed", "resolved"}
  /\ shown' = [shown EXCEPT ![f] = "applied"]
  /\ undoable' = undoable \cup {f}
  /\ UNCHANGED dropped

Undo(f) ==
  /\ shown[f] = "applied" /\ f \in undoable
  /\ shown' = [shown EXCEPT ![f] = "open"]
  /\ undoable' = undoable \ {f}
  /\ UNCHANGED dropped

SetAside(f, status) ==
  /\ shown' = [shown EXCEPT ![f] = status]
  /\ dropped' = dropped \ {f}
  /\ UNCHANGED undoable

\* Undismiss and unresolve: an applied finding is applied again.
TakeBack(f) ==
  /\ shown[f] \in {"dismissed", "resolved"}
  /\ IF f \in undoable
       THEN shown' = [shown EXCEPT ![f] = "applied"] /\ UNCHANGED dropped
       ELSE shown' = [shown EXCEPT ![f] = "open"] /\ dropped' = dropped \cup {f}
  /\ UNCHANGED undoable

\* An analysis that began before they were dropped brings findings back.
Revive(back) ==
  /\ dropped' = dropped \ back
  /\ shown' \in [Findings -> {"open", "applied", "dismissed", "resolved"}]
  /\ undoable \subseteq undoable' /\ undoable' \subseteq undoable \cup back
  /\ \A f \in Findings : f \notin back => shown'[f] = shown[f]
  /\ \A f \in back : /\ shown'[f] = "applied" => f \in undoable'
                     /\ shown'[f] = "open" => f \notin undoable'

Next ==
  \/ \E f \in Findings :
       \/ Apply(f)
       \/ Undo(f)
       \/ \E status \in {"dismissed", "resolved"} : SetAside(f, status)
       \/ TakeBack(f)
  \/ \E back \in SUBSET dropped : Revive(back)

Spec == Init /\ [][Next]_vars
=============================================================================
