------------------------------- MODULE WorkGraph -------------------------------
(***************************************************************************)
(* What becomes of the nodes of a run's graph, without the rows, repairs,  *)
(* workers and transactions that bring it about: a node is begun only when *)
(* everything it waits for is done or has failed without blocking, what is *)
(* done stays done, a node that failed is begun again only by a recovery   *)
(* attempt, and there is a limit to these (is_dependency_satisfied,        *)
(* recovery_policy.py, check_budget).                                      *)
(***************************************************************************)
EXTENDS Integers

CONSTANTS
    Nodes,
    Order,     \* <<from, to>>: to waits for from
    Optional,  \* the nodes whose failure never blocks
    Limit      \* of recovery attempts

VARIABLES
    state,  \* of each node: an excused one failed without blocking
    again,  \* the nodes begun again after a repair
    spent   \* the recovery attempts so far

gvars == <<state, again, spent>>

GInit ==
    /\ state = [n \in Nodes |-> "waiting"]
    /\ again = {}
    /\ spent = 0

\* A node begun again does not wait for others that are: they were done, or
\* excused, when it was begun before.
Ready(n) ==
    \A e \in Order : e[2] = n =>
        state[e[1]] \in {"done", "excused"} \/ (n \in again /\ e[1] \in again)
Turns(n, from, to) == state[n] = from /\ state' = [state EXCEPT ![n] = to]
Pays == spent < Limit /\ spent' = spent + 1

Begin(n) == Ready(n) /\ Turns(n, "waiting", "running") /\ UNCHANGED <<again, spent>>
Finish(n) == Turns(n, "running", "done") /\ UNCHANGED <<again, spent>>
\* Whoever worked on it is lost, or it is retried at once.
Return(n) ==
    /\ Turns(n, "running", "waiting")
    /\ UNCHANGED again
    /\ Pays \/ UNCHANGED spent
\* It failed, for good or until it is repaired; any node may be excused, for want
\* of budget.
Fail(n) ==
    /\ \/ Turns(n, "running", "excused")
       \/ n \notin Optional /\ Turns(n, "running", "failed")
    /\ UNCHANGED again
    /\ Pays \/ UNCHANGED spent
\* What it failed for is repaired, whoever went on without it meanwhile.
Redo(n) ==
    /\ Turns(n, "failed", "waiting") \/ Turns(n, "excused", "waiting")
    /\ again' = again \cup {n}
    /\ Pays
\* An attempt on no node: a repair that failed, or that brings no retry.
Attempt == Pays /\ UNCHANGED <<state, again>>

GNext ==
    \/ \E n \in Nodes : Begin(n) \/ Finish(n) \/ Return(n) \/ Fail(n) \/ Redo(n)
    \/ Attempt

GSpec == GInit /\ [][GNext]_gvars
=============================================================================
