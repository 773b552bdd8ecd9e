---------------------------- MODULE MCDaemonLock ----------------------------
(***************************************************************************)
(* Constants for checking DaemonLock with TLC.                             *)
(***************************************************************************)
EXTENDS DaemonLock, TLC

CONSTANTS d1, d2, d3, o1, s1, s2

OneDaemon    == {d1}
TwoDaemons   == {d1, d2}
ThreeDaemons == {d1, d2, d3}
OneOther     == {o1}
OneStop      == {s1}
TwoStops     == {s1, s2}
None         == {}

\* Another program reuses the PID of the first daemon.
Reused3 == d1 :> 1 @@ d2 :> 2 @@ d3 :> 3 @@ o1 :> 1
Reused2 == d1 :> 1 @@ d2 :> 2 @@ o1 :> 1
Own2    == d1 :> 1 @@ d2 :> 2
Own1    == d1 :> 1

\* Stop commands are alike.
Symmetric == Permutations(Stops)
=============================================================================
