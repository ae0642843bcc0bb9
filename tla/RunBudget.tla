------------------------------- MODULE RunBudget -------------------------------
(***************************************************************************)
(* The budget of a run: a ledger inside runs.summary, the JSON column that *)
(* every component reads whole and writes back whole                       *)
(* (execution_contract.py, codex_executor.py, worker_service.py,           *)
(* scheduler_service.py, extend_run_budget).                               *)
(*                                                                         *)
(* A worker loads the run with the item it executes and writes the summary *)
(* it then loaded when it reports (expire_on_commit off, no refresh); only *)
(* an exception makes it read the row again.  In between the executor      *)
(* charges each answer of a model to the ledger in a session of its own,   *)
(* which reads the row and, a moment later, updates it.  A tick of the     *)
(* scheduler writes what it read when it began.  Every update waits for    *)
(* the row, but none asks whether the row is still what it read.  What is  *)
(* read and written in one short transaction is one step: a report that    *)
(* follows an exception, an extension.                                     *)
(*                                                                         *)
(* Amounts are cents; tokens are counted the same way and left out, and so *)
(* are the mode that only limits a model (CONSTRAINED) and the estimate    *)
(* per job.  Leases are WorkItemLease's, repairs are RecoveryPolicy's, the *)
(* other decisions of a tick RunScheduler's.                               *)
(***************************************************************************)
EXTENDS Integers, FiniteSets

CONSTANTS
    Items,          \* work items that ask a model
    Recovery,       \* those born with a mark of recovery
    Workers,
    Costs,          \* what an answer may cost
    MaxCost,        \* the most of them
    Budget,         \* max_cost_cents of the plan
    Reserve,        \* recovery_reserve_cost_cents
    Background,     \* ai_budget_background_cents: too little to go on with
    HardLimit,      \* runtime_run_spend_hard_limit_cents
    RecoveryLimit,  \* runtime_recovery_max_cost_estimate_cents
    Extra,          \* additional_cost_cents of an extension
    MaxAttempts,    \* max_attempts of each item
    MaxAnswers,     \* bound on the answers of one execution (retries, repairs)
    MaxUnparsed,    \* bound on those of its repairs that cannot be parsed
    MaxExtensions,  \* bound on extensions
    MaxMishaps      \* bound on crashes and on charges that fail

ASSUME ConstantsAssumption ==
    /\ Recovery \subseteq Items
    /\ Costs \subseteq 1 .. MaxCost
    /\ MaxCost \in Nat
    /\ Budget \in Nat
    /\ Reserve \in Nat
    /\ Background \in Nat
    /\ HardLimit \in Nat
    /\ RecoveryLimit \in Nat
    /\ Extra \in Nat \ {0}
    /\ MaxAttempts \in [Items -> Nat \ {0}]
    /\ MaxAnswers \in Nat \ {0}
    /\ MaxUnparsed \in Nat
    /\ MaxExtensions \in Nat
    /\ MaxMishaps \in Nat

VARIABLES
    status,      \* of the run: "RUNNING" (or QUEUED, which is as good) or "PAUSED"
    ledger,      \* the budget in the row, as committed
    item,        \* status, attempt and mark of recovery of each item
    worker,      \* what each worker is at
    tick,        \* a tick of the scheduler, and the ledger it read
    extensions,  \* of the budget so far
    mishaps,     \* so far
    charged,     \* all that was ever charged to the ledger, and to its reserve
    straddled    \* an extension came while somebody held a copy of the ledger

vars == <<status, ledger, item, worker, tick, extensions, mishaps, charged, straddled>>

Fresh == [max |-> Budget, used |-> 0, recovery |-> 0]
Idle == [at |-> "idle", item |-> "-", copy |-> Fresh, view |-> Fresh, read |-> Fresh,
         cost |-> 0, paid |-> 0, answers |-> 0, unparsed |-> 0, unpaid |-> 0, calm |-> FALSE]
NoTick == [on |-> FALSE, copy |-> Fresh]

Init ==
    /\ status = "RUNNING"
    /\ ledger = Fresh
    /\ item = [i \in Items |-> [status |-> "QUEUED", attempt |-> 0, marked |-> i \in Recovery]]
    /\ worker = [w \in Workers |-> Idle]
    /\ tick = NoTick
    /\ extensions = 0
    /\ mishaps = 0
    /\ charged = [all |-> 0, recovery |-> 0]
    /\ straddled = FALSE

-----------------------------------------------------------------------------
(* ExecutionBudgetLedger                                                   *)

\* The reserve is exhausted, and the run has something left.
FallsBack(b) == b.recovery + Background >= Reserve /\ b.used + Background < b.max

BlockedBelow(b, recovering) == b.used + Background + 1 >= b.max
BlockedByReserve(b, recovering) ==
    IF recovering THEN b.recovery + Background >= Reserve ELSE b.used + Background >= b.max

\* refresh: is the ledger BLOCKED for an item?
Blocked(b, recovering) ==
    IF recovering /\ ~FallsBack(b)
    THEN b.recovery + Background >= Reserve \/ b.used + Background >= b.max + Reserve
    ELSE b.used + Background >= b.max

\* record_run_budget_usage
Charge(b, cost, recovering) ==
    [b EXCEPT !.used = @ + cost, !.recovery = IF recovering THEN @ + cost ELSE @]

Recovering(w) == item[worker[w].item].marked

-----------------------------------------------------------------------------
(* A worker: execute_item and CodexExecutor.execute.                       *)

\* Nobody else is at work, and no tick is under way.
Alone(w) == ~tick.on /\ \A v \in Workers \ {w} : worker[v].at = "idle"
Disturbed == [w \in Workers |-> [worker[w] EXCEPT !.calm = FALSE]]

Claim(w, i) ==
    /\ worker[w].at = "idle"
    /\ status = "RUNNING"
    /\ item[i].status = "QUEUED"
    /\ item' = [item EXCEPT ![i].status = "RUNNING"]
    /\ worker' = [Disturbed EXCEPT
                     ![w] = [Idle EXCEPT !.at = "ready", !.item = i, !.copy = ledger,
                                         !.view = ledger, !.calm = Alone(w)]]
    /\ UNCHANGED <<status, ledger, tick, extensions, mishaps, charged, straddled>>

\* Before the first answer, and after each one that was charged.
MayAlwaysGoOn(w) == worker[w].at \in {"ready", "after"}
MayGoOn(w) == worker[w].at \in {"ready", "after"} /\ ~Blocked(worker[w].view, Recovering(w))

Ask(w) ==
    /\ MayGoOn(w)
    /\ worker[w].answers < MaxAnswers
    /\ \E cost \in Costs :
          worker' = [worker EXCEPT ![w].at = "answered", ![w].cost = cost, ![w].answers = @ + 1]
    /\ UNCHANGED <<status, ledger, item, tick, extensions, mishaps, charged, straddled>>

\* A repair of the plan asks too (after a violation of the project contract, of
\* the scope, a patch that does not apply).  An answer of it that cannot be parsed
\* is asked again or given up: nothing is charged, and no budget is looked at.
AskInVain(w) ==
    /\ MayGoOn(w)
    /\ worker[w].at = "after"
    /\ worker[w].unparsed < MaxUnparsed
    /\ \E cost \in Costs :
          worker' = [worker EXCEPT ![w].unparsed = @ + 1, ![w].unpaid = @ + cost]
    /\ UNCHANGED <<status, ledger, item, tick, extensions, mishaps, charged, straddled>>

\* _record_execution_budget: a session of its own reads the row ...
ReadLedger(w) ==
    /\ worker[w].at = "answered"
    /\ worker' = [worker EXCEPT ![w].at = "charging", ![w].read = ledger]
    /\ UNCHANGED <<status, ledger, item, tick, extensions, mishaps, charged, straddled>>

\* ... and updates it.
DueAgain(w) == worker[w].cost + worker[w].paid
Due(w) == worker[w].cost

ChargeLedger(w) ==
    /\ worker[w].at = "charging"
    /\ LET new == Charge(worker[w].read, Due(w), Recovering(w))
       IN  /\ ledger' = new
           /\ worker' = [worker EXCEPT ![w].at = "after", ![w].view = new,
                                       ![w].read = Fresh, ![w].cost = 0,
                                       ![w].paid = @ + worker[w].cost]
    /\ charged' = [all |-> charged.all + worker[w].cost,
                   recovery |-> charged.recovery + (IF Recovering(w) THEN worker[w].cost ELSE 0)]
    /\ UNCHANGED <<status, item, tick, extensions, mishaps, straddled>>

\* An error there is swallowed: the answer is not charged, and the view stays.
ChargeFails(w) ==
    /\ worker[w].at \in {"answered", "charging"}
    /\ mishaps < MaxMishaps
    /\ mishaps' = mishaps + 1
    /\ worker' = [worker EXCEPT ![w].at = "after", ![w].read = Fresh, ![w].cost = 0,
                                 ![w].calm = FALSE]
    /\ UNCHANGED <<status, ledger, item, tick, extensions, charged, straddled>>

\* The report updates the row with the summary the worker loaded.
Reports(w, i, row) ==
    /\ item' = [item EXCEPT ![i] = row]
    /\ ledger' = worker[w].copy
    /\ worker' = [worker EXCEPT ![w] = Idle]
    /\ UNCHANGED <<status, tick, extensions, mishaps, charged, straddled>>

FailedOnceMore(row, attempts, used) ==
    {[row EXCEPT !.status = "FAILED"]}
    \cup (IF row.attempt < attempts
          THEN {[status |-> "QUEUED", attempt |-> row.attempt + 1, marked |-> TRUE]} ELSE {})

\* What a failure comes to, by the cost that the run in the session shows.
Failed(row, attempts, used) ==
    {[row EXCEPT !.status = "FAILED"]}
    \cup (IF row.attempt + 1 < attempts /\ used < RecoveryLimit
          THEN {[status |-> "QUEUED", attempt |-> row.attempt + 1, marked |-> TRUE]} ELSE {})

Report(w) ==
    /\ MayGoOn(w)
    /\ worker[w].answers > 0
    /\ LET i == worker[w].item
       IN  \E row \in {[item[i] EXCEPT !.status = "DONE"]} \cup Failed(item[i], MaxAttempts[i], worker[w].copy.used) :
              Reports(w, i, row)

\* run_budget_exhausted: before the first answer the result bears no failure
\* class, after one it does.  No recovery rule is for it.
Refuse(w) ==
    /\ worker[w].at \in {"ready", "after"}
    /\ Blocked(worker[w].view, Recovering(w))
    /\ LET i == worker[w].item
       IN  Reports(w, i, [item[i] EXCEPT !.status = IF worker[w].at = "ready" THEN "TURNED_AWAY" ELSE "STOPPED"])

\* An exception: after the rollback the run is read again, and the summary
\* written is the one in the row.
Raise(w) ==
    /\ worker[w].at \in {"ready", "answered", "after"}
    /\ LET i == worker[w].item
       IN  \E row \in Failed(item[i], MaxAttempts[i], ledger.used) : item' = [item EXCEPT ![i] = row]
    /\ worker' = [worker EXCEPT ![w] = Idle]
    /\ UNCHANGED <<status, ledger, tick, extensions, mishaps, charged, straddled>>

\* It dies, and the item is reclaimed.
Die(w) ==
    /\ worker[w].at # "idle"
    /\ mishaps < MaxMishaps
    /\ mishaps' = mishaps + 1
    /\ item' = [item EXCEPT ![worker[w].item].status = "QUEUED"]
    /\ worker' = [worker EXCEPT ![w] = Idle]
    /\ UNCHANGED <<status, ledger, tick, extensions, charged, straddled>>

-----------------------------------------------------------------------------
(* The scheduler: one tick of it over this run.                            *)

Begin ==
    /\ ~tick.on
    /\ status = "RUNNING"
    /\ tick' = [on |-> TRUE, copy |-> ledger]
    /\ worker' = Disturbed
    /\ UNCHANGED <<status, ledger, item, extensions, mishaps, charged, straddled>>

OverLimit == tick.copy.used >= HardLimit /\ status = "RUNNING"
Exhausted ==
    /\ \A i \in Items : item[i].status \notin {"QUEUED", "RUNNING"}
    /\ \E i \in Items : item[i].status = "FAILED"
    /\ \E i \in Items : item[i].status \in {"TURNED_AWAY", "STOPPED"}

\* _pause_run_for_spend_guard, and _pause_run_for_budget, which a blocking
\* failure of another item leads to: a refusal is not one.
Pause ==
    /\ tick.on
    /\ OverLimit \/ (Exhausted /\ status = "RUNNING")
    /\ status' = "PAUSED"
    /\ ledger' = tick.copy
    /\ tick' = NoTick
    /\ UNCHANGED <<item, worker, extensions, mishaps, charged, straddled>>

\* It ends, with or without a word in the summary (stall counters, goal state).
End ==
    /\ tick.on
    /\ ~OverLimit
    /\ ledger' \in {ledger, tick.copy}
    /\ tick' = NoTick
    /\ UNCHANGED <<status, item, worker, extensions, mishaps, charged, straddled>>

-----------------------------------------------------------------------------
(* extend_run_budget, under the lock of the row.                           *)

Requeued(row) == IF row.status = "STOPPED" THEN [row EXCEPT !.status = "QUEUED"] ELSE row

Extend ==
    /\ extensions < MaxExtensions
    /\ extensions' = extensions + 1
    /\ ledger' = [ledger EXCEPT !.max = @ + Extra]
    /\ \/ UNCHANGED <<status, item>>
       \/ /\ status = "PAUSED"
          /\ status' = "RUNNING"
          /\ item' = [i \in Items |-> Requeued(item[i])]
    /\ worker' = Disturbed
    /\ straddled' = (straddled \/ tick.on \/ \E w \in Workers : worker[w].at # "idle")
    /\ UNCHANGED <<tick, mishaps, charged>>

-----------------------------------------------------------------------------
Next ==
    \/ \E w \in Workers :
          \/ \E i \in Items : Claim(w, i)
          \/ Ask(w) \/ AskInVain(w) \/ ReadLedger(w) \/ ChargeLedger(w) \/ ChargeFails(w)
          \/ Report(w) \/ Refuse(w) \/ Raise(w) \/ Die(w)
    \/ Begin \/ Pause \/ End
    \/ Extend

Spec == Init /\ [][Next]_vars
=============================================================================
