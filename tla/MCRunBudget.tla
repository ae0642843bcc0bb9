------------------------------ MODULE MCRunBudget ------------------------------
(***************************************************************************)
(* Two items, one of them of recovery, and a budget that two answers use   *)
(* up.                                                                     *)
(***************************************************************************)
EXTENDS RunBudgetProps, TLC

CONSTANTS i1, i2, w1, w2

MCItems == {i1, i2}
MCRecovery == {i2}
MCWorkers == {w1, w2}
MCCosts == {2}
MCAttempts == [i \in MCItems |-> IF i = i1 THEN 2 ELSE 1]
MCSymmetry == Permutations(MCWorkers)
=============================================================================
