-------------------------- MODULE MCWorkItemLease --------------------------
(***************************************************************************)
(* Instances and properties of WorkItemLease for TLC.                      *)
(***************************************************************************)
EXTENDS WorkItemLeaseProps

CONSTANTS i1, i2, a1, a2, s1, o1
=============================================================================
