--------------------------- MODULE MCAcpTransport ---------------------------
(***************************************************************************)
(* Constants for checking AcpTransport with TLC.                           *)
(***************************************************************************)
EXTENDS AcpTransport

CONSTANTS r1, r2

OneRun  == {r1}
TwoRuns == {r1, r2}
=============================================================================
