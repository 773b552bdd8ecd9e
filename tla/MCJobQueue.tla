----------------------------- MODULE MCJobQueue -----------------------------
(***************************************************************************)
(* Constants for checking JobQueue with TLC.                               *)
(***************************************************************************)
EXTENDS JobQueue, TLC

CONSTANTS p1, p2, w1, w2, h1

MCProjects == {p1, p2}
MCWorkers  == {w1, w2}
MCHandlers == {h1}
NoHandlers == {}
OneWorker  == {w1}

Symmetric == Permutations(MCWorkers) \cup Permutations(MCProjects)
=============================================================================
