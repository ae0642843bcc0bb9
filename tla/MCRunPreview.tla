----------------------------- MODULE MCRunPreview -----------------------------
(***************************************************************************)
(* Two runs and room for one preview or for two: relaunches of the same    *)
(* run, launches of the other one, and cleanups that write both rows.      *)
(***************************************************************************)
EXTENDS RunPreviewProps, TLC

CONSTANTS q1, q2

MCRuns == 1 .. 2
Two == {q1, q2}
OneOfTwo == Permutations(Two)
=============================================================================
