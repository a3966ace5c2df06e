--------------------------- MODULE MCActivityRuns ---------------------------
(* A small instance of ActivityRuns for TLC.                               *)
EXTENDS ActivityRuns

CONSTANTS g1, atOnce
=============================================================================
