------------------------- MODULE WorkItemLeaseProps -------------------------
(***************************************************************************)
(* The properties of WorkItemLease.                                        *)
(***************************************************************************)
EXTENDS WorkItemLease

\* An item is kept while its lease was not broken: its holder's keepalive did
\* not lapse, no local start disowned its holder, and no reclaim of it was
\* committed between the SELECT and the UPDATE of another reclaimer.  What the
\* leases promise, they promise about these.
Kept == Items \ astray

-----------------------------------------------------------------------------
(* Safety in every environment.                                            *)

\* A running row can always be reclaimed: it names an agent and carries a
\* lease that runs out.  Reports, keepalive writes and requeues of stale
\* contexts land on rows other contexts hold (worker_service.py:114,
\* leases.py:130); none may leave a running row that no reclaim can match.
RunningIsReclaimable ==
    \A i \in Items :
        row[i].status = "RUNNING" => row[i].agent # None /\ row[i].lease # "none"

-----------------------------------------------------------------------------
(* Safety of the items whose lease was not broken.                         *)

\* No two contexts execute one work item, whatever claims, reclaims and nudges
\* overlap, with the tick and the orchestrator's loop reclaiming side by side
\* (tick_worker, reclaim_expired_work_items), unless its lease was broken in one
\* of the ways of astray.  That nothing else lets a second worker in is what the
\* row locks, the guards of the claim and the renewals are for.
ExclusiveExecution ==
    \A i \in Kept : \A c, d \in Contexts : Executing(c, i) /\ Executing(d, i) => c = d

\* A work item being executed is running in the database under the agent that
\* executes it: no reclaim, orphan sweep or report takes a row from under a live
\* execution (leases.py, worker_service.py) unless its lease was broken.
HolderIsRecorded ==
    \A i \in Kept : \A c \in Contexts :
        Executing(c, i) => /\ row[i].status = "RUNNING"
                           /\ row[i].agent = actor[c]
                           /\ row[i].lease = "live"

\* A verdict on an item whose lease was not broken is final: no later report,
\* retry, keepalive write or reclaim changes it, although reports are written
\* without a guard (execute_item).
VerdictsAreFinal ==
    [][\A i \in Kept : row[i].status \in Verdicts => row'[i].status = row[i].status]_vars

\* Every return to the queue is paid for: it charges one attempt
\* (maybe_apply_recovery), or nobody is executing the item (the reclaims of
\* leases.py), as long as its lease was not broken.
RequeueIsPaidFor ==
    [][\A i \in Kept :
          row[i].status # "QUEUED" /\ row'[i].status = "QUEUED" =>
              \/ row'[i].attempt = row[i].attempt + 1
              \/ /\ row'[i].attempt = row[i].attempt
                 /\ \A c \in Contexts : ~Executing(c, i)]_vars

-----------------------------------------------------------------------------
(* What the documentation says of every item.                              *)

\* "This prevents two workers from continuing the same run simultaneously"
\* (docs/network-and-recovery-architecture.md): no two contexts execute one
\* work item, broken lease or not (leases.py).
OneWorkerPerItem ==
    \A i \in Items : \A c, d \in Contexts : Executing(c, i) /\ Executing(d, i) => c = d

-----------------------------------------------------------------------------
(* Why it is so: the inductive invariant.                                  *)

\* Rows a reclaimer is about to requeue are running and nobody executes them.
ReclaimsOnlyAbandoned ==
    \A r \in Reclaimers : \A i \in (seen[r] \cup held[r]) \ astray :
        row[i].status = "RUNNING" /\ \A c \in Contexts : ~Executing(c, i)

\* A row is locked by one reclaimer at a time.
LocksAreExclusive ==
    \A r, s \in Reclaimers : r # s => held[r] \cap held[s] = {}

\* What a reclaimer still remembers at each of its phases.
TickPhases ==
    \A r \in Reclaimers :
        /\ phase[r] \in {"idle", "swept", "nudging"} => seen[r] = {}
        /\ phase[r] \in {"idle", "expired"} => held[r] = {}
        /\ pc[r] # "off" => phase[r] = "nudging"

\* A busy context acts for an active agent, so its item is no orphan, and a
\* process that has not registered does nothing.
ActorIsActive ==
    /\ \A i \in Kept : \A c \in Contexts : Executing(c, i) => agents[actor[c]] = "ACTIVE"
    /\ \A a \in Agents : agents[a] = "unregistered" => pc[a] = "off"

\* What an executing context loaded is what the row still holds.
LoadedIsCurrent ==
    \A c \in Contexts : pc[c] = "running" /\ job[c] \in Kept => loaded[c] = row[job[c]]

\* A keepalive loop runs only beside an execution.
KeepaliveRuns == \A c \in Contexts : ka[c] # "off" => pc[c] = "running"

\* The invariant that every step preserves: of an item whose lease was not
\* broken, what a context or a reclaimer read earlier (the columns loaded before
\* execute_item, the rows selected by the reclaims) is still true when it acts
\* on it.
LeaseInv ==
    /\ ExclusiveExecution
    /\ HolderIsRecorded
    /\ ReclaimsOnlyAbandoned
    /\ LocksAreExclusive
    /\ TickPhases
    /\ ActorIsActive
    /\ LoadedIsCurrent
    /\ KeepaliveRuns

-----------------------------------------------------------------------------
(* Liveness.                                                               *)

Abandoned(i) == row[i].status = "RUNNING" /\ \A c \in Contexts : ~Holds(c, i)

\* A running item whose recorded holder died, or failed to report, does not
\* stay running: its lease runs out and the reclaim requeues it, whatever
\* stale keepalives and reports are still on their way (leases.py).
AbandonedIsRequeued == \A i \in Items : Abandoned(i) ~> row[i].status # "RUNNING"

\* While a worker survives, every item gets a verdict: retries, crashes and
\* reclaims end (tick_worker, maybe_apply_recovery, reclaim_expired_work_items).
EveryItemSettles == \A i \in Items : <>(row[i].status \in Verdicts)

-----------------------------------------------------------------------------
(* Refinement: the protocol implements the promise, in which an item whose *)
(* lease was broken is astray for good.                                    *)

Promise == INSTANCE WorkItemPromise WITH
               Holders <- Contexts,
               status <- [i \in Items |-> IF i \in astray THEN "ASTRAY" ELSE row[i].status],
               attempt <- [i \in Items |-> IF i \in astray THEN 0 ELSE row[i].attempt],
               holders <- [i \in Items |-> IF i \in astray THEN {}
                                           ELSE {c \in Contexts : Executing(c, i)}]

\* Claim, retry, verdict and requeue are all that ever happens to an item until
\* its lease is broken, one holder at a time (WorkItemPromise), however the
\* claims, keepalives, ticks and loops of worker_service.py, leases.py and
\* orchestrator.py interleave; and an item that has its verdict is never broken.
KeepsThePromise == Promise!PSpec
=============================================================================
