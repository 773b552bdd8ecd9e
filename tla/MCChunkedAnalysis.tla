------------------------- MODULE MCChunkedAnalysis -------------------------
(* Three chunks and at most two sessions at a time: one chunk waits while  *)
(* two others run, fail or are rate limited.                               *)
EXTENDS ChunkedAnalysis

MCNChunks == 3
MCMaxConcurrency == 2
=============================================================================
