-------------------------- MODULE MCAnalysisCache --------------------------
(* A chat that is appended to until it is longer than a run reads, and the *)
(* transcript of a subagent; two commits to move between.  Or a pair of chats that *)
(* are written once, for what one of them hides of the other.             *)
EXTENDS AnalysisCache, TLC

CONSTANTS c1, c2, sub, h1, h2

MCChats == {c1, sub}
MCSubagents == {sub}
MCHeads == {h1, h2}
Grow == (c1 :> 3) @@ (sub :> 1)
Pair == {c1, c2}
Once == (c1 :> 1) @@ (c2 :> 1)
Symmetric == Permutations(MCHeads)
=============================================================================
