------------------------------ MODULE MCRunLaunch ------------------------------
(***************************************************************************)
(* Three requests on one project: with one key for each kind, two of them  *)
(* may be repetitions of each other, and a search that goes back over both *)
(* runs.                                                                   *)
(***************************************************************************)
EXTENDS RunLaunchProps

CONSTANTS create_key, fork_key

MCCreateKeys == {create_key}
MCForkKeys == {fork_key}
=============================================================================
