-------------------------- MODULE MCBackgroundJobs --------------------------
(***************************************************************************)
(* Constants for checking BackgroundJobs with TLC.                         *)
(***************************************************************************)
EXTENDS BackgroundJobs, TLC

CONSTANTS j1, j2, s1, s2, w1, c1, t1, o1

OneJob   == {j1}
TwoSpecs == {s1, s2}

\* A thread of the web server, the interactive list and a command.
SchedProcs   == {w1, t1, c1}
SchedProcess == w1 :> w1 @@ t1 :> t1 @@ c1 :> c1
SchedFront   == w1 :> "web" @@ t1 :> "tui" @@ c1 :> "cli"
SchedUses    == w1 :> {"create", "edit", "pause"} @@ t1 :> {"pause", "resume", "delete"}
                @@ c1 :> {"reconcile", "edit", "resume"}

\* The list also edits: it installs the timer of a paused job switched on.
EditUses     == [SchedUses EXCEPT ![t1] = {"edit", "pause"}]

\* A command and a run the scheduler starts, beside the web server.
RunProcs   == {w1, c1, o1}
RunProcess == w1 :> w1 @@ c1 :> c1 @@ o1 :> o1
RunFront   == w1 :> "web" @@ c1 :> "cli" @@ o1 :> "os"
RunUses    == w1 :> {"create"} @@ c1 :> {"run", "pause"} @@ o1 :> {"run"}
OneSpec    == {s1}
=============================================================================
