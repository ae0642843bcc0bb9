-------------------------- MODULE WorkItemPromise --------------------------
(***************************************************************************)
(* What the lease protocol promises about a work item, without leases,     *)
(* workers or transactions (docs/network-and-recovery-architecture.md,     *)
(* Worker Lease Model): at most one holder executes an item, a verdict is  *)
(* given by its holder and is final, a retry costs an attempt, and an item *)
(* is put back in the queue only when nobody holds it.  An item without a  *)
(* verdict may go astray; nothing is promised about it from then on.       *)
(***************************************************************************)
EXTENDS Integers

CONSTANTS Items, Holders, MaxAttempts

VARIABLES
    status,   \* the item's status
    attempt,  \* the retries charged to it
    holders   \* who is executing it

pvars == <<status, attempt, holders>>

PInit ==
    /\ status = [i \in Items |-> "QUEUED"]
    /\ attempt = [i \in Items |-> 0]
    /\ holders = [i \in Items |-> {}]

Take(h, i) ==
    /\ status[i] = "QUEUED"
    /\ holders[i] = {}
    /\ status' = [status EXCEPT ![i] = "RUNNING"]
    /\ holders' = [holders EXCEPT ![i] = {h}]
    /\ UNCHANGED attempt

Decide(h, i) ==
    /\ status[i] = "RUNNING"
    /\ holders[i] = {h}
    /\ \E v \in {"DONE", "SKIPPED", "FAILED"} : status' = [status EXCEPT ![i] = v]
    /\ holders' = [holders EXCEPT ![i] = {}]
    /\ UNCHANGED attempt

Retry(h, i) ==
    /\ status[i] = "RUNNING"
    /\ holders[i] = {h}
    /\ attempt[i] + 1 < MaxAttempts
    /\ status' = [status EXCEPT ![i] = "QUEUED"]
    /\ attempt' = [attempt EXCEPT ![i] = attempt[i] + 1]
    /\ holders' = [holders EXCEPT ![i] = {}]

\* A holder disappears; the item it executed stays running, without a holder.
Abandon(h, i) ==
    /\ holders[i] = {h}
    /\ holders' = [holders EXCEPT ![i] = {}]
    /\ UNCHANGED <<status, attempt>>

\* Items of T, none of which has a verdict, go astray.  In the same transaction
\* the abandoned items of S return to the queue together.
Reclaim(S, T) ==
    /\ \A i \in S : status[i] = "RUNNING" /\ holders[i] = {}
    /\ \A i \in T : status[i] \in {"QUEUED", "RUNNING"}
    /\ status' = [i \in Items |-> IF i \in T THEN "ASTRAY"
                                  ELSE IF i \in S THEN "QUEUED" ELSE status[i]]
    /\ attempt' = [i \in Items |-> IF i \in T THEN 0 ELSE attempt[i]]
    /\ holders' = [i \in Items |-> IF i \in T THEN {} ELSE holders[i]]

PNext ==
    \/ \E h \in Holders, i \in Items : Take(h, i) \/ Decide(h, i) \/ Retry(h, i) \/ Abandon(h, i)
    \/ \E S, T \in SUBSET Items : Reclaim(S, T)

PSpec == PInit /\ [][PNext]_pvars
=============================================================================
