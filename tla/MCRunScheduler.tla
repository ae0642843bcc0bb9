--------------------------- MODULE MCRunScheduler ---------------------------
(***************************************************************************)
(* A small run for TLC: tests that a review waits for, and code that can   *)
(* fail beside them.                                                       *)
(***************************************************************************)
EXTENDS RunSchedulerProps

CONSTANTS code, tests, review

MCEdges == {<<tests, review>>}
=============================================================================
