--------------------------- MODULE MCProjectState ---------------------------
(***************************************************************************)
(* Constants for checking ProjectState with TLC.                           *)
(***************************************************************************)
EXTENDS ProjectState

CONSTANTS f1, f2, f3, h1, h2, daemon, analyze

OneHandler  == {h1}
TwoHandlers == {h1, h2}
DaemonRun   == {daemon}
BothRuns    == {daemon, analyze}
AnalyzeRun  == {analyze}
None        == {}
Second      == {f2}

Two     == {f1, f2}
Three   == {f1, f2, f3}
Append2 == [f \in Two |-> IF f = f1 THEN "append-file" ELSE "none"]
Replace2 == [f \in Two |-> IF f = f1 THEN "replace-file" ELSE "none"]
Mixed2  == [f \in Two |-> IF f = f1 THEN "replace-file" ELSE "append-section"]
NoApply == [f \in Three |-> "none"]

Listed == {"open", "applied", "dismissed", "resolved"}

\* Every call on a finding in every status.
AnyCall == Transitions \X Listed
=============================================================================
