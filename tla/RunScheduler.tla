---------------------------- MODULE RunScheduler ----------------------------
(***************************************************************************)
(* How the scheduler's tick (scheduler_service.py) decides what becomes of *)
(* one bootstrapped run in external mode, while workers claim, execute and *)
(* report its work items and an operator may cancel it.                    *)
(*                                                                         *)
(* The tick is one transaction at READ COMMITTED: each of its SELECTs sees *)
(* what is committed by then, so a decision is taken on a view put         *)
(* together from several moments.  Each SELECT is a step here.  The writes *)
(* of a tick come last and become visible with its commit: they are one    *)
(* step.                                                                   *)
(*                                                                         *)
(* Leases are the subject of WorkItemLease: here an execution reports, or  *)
(* is abandoned and reclaimed.  The tick's nudge runs a worker's claim and *)
(* is one of the workers here.  Recovery rules are those that retry an     *)
(* item in place; goal orchestration is off, its default.                  *)
(***************************************************************************)
EXTENDS Integers, FiniteSets

CONSTANTS
    Items,        \* the work items of the run
    Edges,        \* <<from, to>>: to waits for from
    Critical,     \* items whose failure blocks the run
    Reviews,      \* items of type REVIEW_DIFF
    Validations,  \* items of a type in VALIDATION_TERMINAL_TYPES
    Rules,        \* what a failure may be: "none", "retry", "operator" or a budget's
    MaxAttempts,  \* WorkItem.max_attempts
    MaxStalls,    \* STALL_RECOVERY_MAX_ATTEMPTS
    MaxResumes,   \* STALL_PAUSE_AUTO_RESUME_MAX_ATTEMPTS
    MaxFaults,    \* bound on executions abandoned, workers leaving and ticks aborted
    NeverFail,    \* settings.runtime_never_fail_runs
    SpendLimit    \* settings.runtime_run_spend_hard_limit_cents is above zero

ASSUME ConstantsAssumption ==
    /\ Edges \subseteq Items \X Items
    /\ Critical \subseteq Items
    /\ Reviews \subseteq Validations
    /\ Validations \subseteq Items
    /\ Rules \subseteq {"none", "retry", "operator", "budget", "budget_text"}
    /\ MaxAttempts \in Nat \ {0}
    /\ MaxStalls \in Nat
    /\ MaxResumes \in Nat
    /\ MaxFaults \in Nat
    /\ NeverFail \in BOOLEAN
    /\ SpendLimit \in BOOLEAN

VARIABLES
    run,      \* the run row: status, and of its summary what the tick reads or writes
    item,     \* the work_items rows
    busy,     \* the items a worker is executing
    tick,     \* where the scheduler is in its tick, and what it has read so far
    quiet,    \* no progress event for longer than the stall timeouts
    workers,  \* some worker agent is ACTIVE
    faults    \* faults so far

vars == <<run, item, busy, tick, quiet, workers, faults>>

Open == {"QUEUED", "RUNNING"}
Terminal == {"COMPLETED", "FAILED", "CANCELED"}
Pauses == {"spend", "stall", "budget", "operator"}
Stalls == {"no_workers", "no_progress"}
Causes == {"review_rejected", "unresolvable"} \cup Stalls

RunRow == [status : Open \cup Terminal \cup {"PAUSED"},
           why : {"-"} \cup Pauses \cup Causes,
           recovery_pause : {"-", "stall"},
           degraded : BOOLEAN,
           stalls : 0 .. MaxStalls,
           resumes : 0 .. MaxResumes]

ItemRow == [status : {"QUEUED", "RUNNING", "DONE", "FAILED", "CANCELED"},
            attempt : 0 .. MaxAttempts - 1,
            rule : {"-"} \cup Rules,
            superseded : BOOLEAN]

Places == {"idle", "review", "rejected", "supersede", "failed", "pending", "active",
           "queued", "runnable", "decide", "starved", "cancel", "starved_again", "give_up",
           "conclude"}

Tick == [pc : Places, superseding : SUBSET Items, failed : SUBSET Items, pending : BOOLEAN,
         active : BOOLEAN, queued : BOOLEAN, runnable : BOOLEAN, doomed : SUBSET Items,
         cause : {"-"} \cup Stalls, undisturbed : BOOLEAN]

IdleTick == [pc |-> "idle", superseding |-> {}, failed |-> {}, pending |-> FALSE,
             active |-> FALSE, queued |-> FALSE, runnable |-> FALSE, doomed |-> {},
             cause |-> "-", undisturbed |-> TRUE]

TypeOK ==
    /\ run \in RunRow
    /\ item \in [Items -> ItemRow]
    /\ busy \subseteq Items
    /\ tick \in Tick
    /\ quiet \in BOOLEAN
    /\ workers \in BOOLEAN
    /\ faults \in 0 .. MaxFaults

Init ==
    /\ run = [status |-> "RUNNING", why |-> "-", recovery_pause |-> "-", degraded |-> FALSE,
              stalls |-> 0, resumes |-> 0]
    /\ item = [i \in Items |->
                  [status |-> "QUEUED", attempt |-> 0, rule |-> "-", superseded |-> FALSE]]
    /\ busy = {}
    /\ tick = IdleTick
    /\ quiet = FALSE
    /\ workers \in BOOLEAN
    /\ faults = 0

-----------------------------------------------------------------------------
(* Work items (work_item_state.py).                                        *)

WithStatus(S) == {i \in Items : item[i].status \in S}

\* A superseded failure no longer blocks; neither does that of an optional item,
\* nor one for want of budget.  What a dependent reads of its parents leaves
\* out last_error, which may be all that tells it was the budget.
BlocksDependents(i) ==
    /\ item[i].status = "FAILED"
    /\ i \in Critical
    /\ ~item[i].superseded
    /\ item[i].rule # "budget"
BlockingFailure(i) == BlocksDependents(i) /\ item[i].rule # "budget_text"

Satisfied(i) == item[i].status = "DONE" \/ (item[i].status = "FAILED" /\ ~BlocksDependents(i))
Parents(i) == {e[1] : e \in {e \in Edges : e[2] = i}}
Runnable == {i \in WithStatus({"QUEUED"}) : \A p \in Parents(i) : Satisfied(p)}

\* A retry leaves recovery_action in the item's payload, a rule in its result.
Retried(i) == item[i].attempt > 0
RecoveryItem(i) == Retried(i) \/ item[i].rule = "retry"

-----------------------------------------------------------------------------
(* Workers and the operator.                                               *)

\* Steps of others that overlap a tick; undisturbed only records that.
Disturb == tick' = [tick EXCEPT !.undisturbed = FALSE]

\* A retry must stay below max_attempts.
OneRetryTooMany(i) == item[i].attempt + 1 <= MaxAttempts
RetriesLeft(i) == item[i].attempt + 1 < MaxAttempts

\* tick_worker: the claim looks at the run's row and the dependencies again
\* under lock.
Claim(i) ==
    /\ workers
    /\ run.status \in Open
    /\ i \in Runnable
    /\ item' = [item EXCEPT ![i].status = "RUNNING"]
    /\ busy' = busy \cup {i}
    /\ quiet' = FALSE
    /\ Disturb
    /\ UNCHANGED <<run, workers, faults>>

\* execute_item ends and writes its row whatever the row holds by then.
Report(i, newRow) ==
    /\ item' = [item EXCEPT ![i] = newRow]
    /\ busy' = busy \ {i}
    /\ quiet' = FALSE
    /\ Disturb
    /\ UNCHANGED <<run, workers, faults>>

\* DONE stands for SKIPPED too.
ReportDone(i) ==
    Report(i, [item[i] EXCEPT !.status = "DONE", !.rule = "-"])

\* No rule applies, the attempts are used up or the recovery budget is.
ReportFailed(i) ==
    \E r \in Rules : Report(i, [item[i] EXCEPT !.status = "FAILED", !.rule = r])

ReportRetry(i) ==
    /\ "retry" \in Rules
    /\ RetriesLeft(i)
    /\ Report(i, [item[i] EXCEPT !.status = "QUEUED", !.attempt = @ + 1, !.rule = "retry"])

\* A worker dies, or its report fails; the row stays as it is ...
Abandon(i) ==
    /\ faults < MaxFaults
    /\ faults' = faults + 1
    /\ busy' = busy \ {i}
    /\ UNCHANGED <<run, item, tick, quiet, workers>>

\* ... until its lease has run out and a reclaimer requeues it: the tick,
\* before it loads the runs, or the orchestrator's loop at any moment.
Reclaim(i) ==
    /\ item[i].status = "RUNNING"
    /\ i \notin busy
    /\ item' = [item EXCEPT ![i].status = "QUEUED"]
    /\ Disturb
    /\ UNCHANGED <<run, busy, quiet, workers, faults>>

WorkersLeave ==
    /\ workers
    /\ faults < MaxFaults
    /\ faults' = faults + 1
    /\ workers' = FALSE
    /\ UNCHANGED <<run, item, busy, tick, quiet>>

WorkersReturn ==
    /\ ~workers
    /\ workers' = TRUE
    /\ UNCHANGED <<run, item, busy, tick, quiet, faults>>

GoQuiet ==
    /\ ~quiet
    /\ quiet' = TRUE
    /\ UNCHANGED <<run, item, busy, tick, workers, faults>>

\* patch_run_status: only an open run can be canceled.  Its items stay.
Cancel ==
    /\ run.status \in Open
    /\ run' = [run EXCEPT !.status = "CANCELED"]
    /\ UNCHANGED <<item, busy, tick, quiet, workers, faults>>

-----------------------------------------------------------------------------
(* The tick: its reads.                                                    *)

Read(next) ==
    /\ tick' = next
    /\ UNCHANGED <<run, item, busy, quiet, workers, faults>>

\* Only runs that are queued, running or paused are loaded.
LoadRun ==
    /\ tick.pc = "idle"
    /\ run.status \in Open
    /\ Read([IdleTick EXCEPT !.pc = "review"])

ReadReviews ==
    /\ tick.pc = "review"
    /\ Read([tick EXCEPT !.pc = IF Reviews \cap WithStatus({"FAILED"}) # {}
                                THEN "rejected" ELSE "supersede"])

\* The failed items of a recovery no longer matter once some, or every,
\* validation item has passed.
Superseded(S) ==
    {i \in WithStatus({"FAILED"}) : RecoveryItem(i) /\ ~item[i].superseded /\ S # {}}
LiveValidations == {v \in Validations : ~item[v].superseded}
PassedSome == Superseded(LiveValidations \cap WithStatus({"DONE"}))
PassedAll ==
    IF LiveValidations \subseteq WithStatus({"DONE"}) THEN Superseded(LiveValidations) ELSE {}

SupersedeStaleRecoveries ==
    /\ tick.pc = "supersede"
    /\ Read([tick EXCEPT !.pc = "failed", !.superseding = PassedAll])

ReadFailed ==
    /\ tick.pc = "failed"
    /\ Read([tick EXCEPT !.pc = "pending", !.failed = WithStatus({"FAILED"})])

PendingRecovery == \E i \in WithStatus({"QUEUED", "RUNNING"}) : Retried(i)
ReadPendingRecovery ==
    /\ tick.pc = "pending"
    /\ Read([tick EXCEPT !.pc = "active", !.pending = PendingRecovery])

ReadActive ==
    /\ tick.pc = "active"
    /\ Read([tick EXCEPT !.pc = "queued", !.active = WithStatus({"RUNNING"}) # {}])

ReadQueued ==
    /\ tick.pc = "queued"
    /\ LET queued == WithStatus({"QUEUED"}) # {}
       IN  Read([tick EXCEPT !.pc = IF queued THEN "runnable" ELSE "decide", !.queued = queued])

\* Here failures that this tick has just superseded no longer block.
ReadRunnable ==
    /\ tick.pc = "runnable"
    /\ LET satisfied(p) == Satisfied(p) \/ p \in tick.superseding
           some == \E i \in WithStatus({"QUEUED"}) : \A p \in Parents(i) : satisfied(p)
       IN  Read([tick EXCEPT !.pc = "decide", !.runnable = some])

-----------------------------------------------------------------------------
(* The tick: what it makes of them.                                        *)

\* The failures as they were before this tick superseded some of them.
BlockingBeforeFlush == {i \in tick.failed : BlockingFailure(i)}

\* The failed items it read that block the run (a failed row changes no more
\* during the tick), and whether it may expect one of them to recover: it asks
\* for a rule, not for attempts left.
Blocking == {i \in tick.failed : BlockingFailure(i) /\ i \notin tick.superseding}
Recoverable == \E i \in Blocking : item[i].rule = "retry"
ForWantOf(rules) == \E i \in tick.failed : item[i].rule \in rules

\* The guarded and the unguarded UPDATE of the run's status.
Overwrite(newRun) == newRun
Guarded(newRun) == IF run.status \in Open THEN newRun ELSE run

\* Commit: the items it supersedes and those it cancels, whatever they are by
\* now, and the run.
Commit(newRun) ==
    /\ run' = newRun
    /\ item' = [i \in Items |->
                   [item[i] EXCEPT !.superseded = @ \/ i \in tick.superseding,
                                   !.status = IF i \in tick.doomed THEN "CANCELED" ELSE @]]
    /\ tick' = IdleTick
    /\ UNCHANGED <<busy, quiet, workers, faults>>

Paused(why) == [run EXCEPT !.status = "PAUSED", !.why = why]
\* Of the pauses here only that for a stall writes summary["recovery_pause"].
StallPaused == [Paused("stall") EXCEPT !.recovery_pause = "stall"]
Failed(why) == [run EXCEPT !.status = "FAILED", !.why = why]
Degraded(why) == [run EXCEPT !.status = "COMPLETED", !.why = why, !.degraded = TRUE]
Completed == [run EXCEPT !.status = "COMPLETED"]

\* _finalize_run_degraded or _mark_run_failed.
Lost(why) == IF NeverFail THEN Degraded(why) ELSE Failed(why)

\* _maybe_auto_resume_stall_paused_run, once its cooldown is over.  A resume does
\* not clear recovery_pause and later pauses do not overwrite it: a run once
\* paused for a stall is resumed from any pause.
AutoResume ==
    /\ tick.pc = "idle"
    /\ run.status = "PAUSED"
    /\ NeverFail
    /\ run.recovery_pause = "stall"
    /\ run.resumes < MaxResumes
    /\ Commit([run EXCEPT !.status = "QUEUED", !.resumes = @ + 1])

Reject ==
    /\ tick.pc = "rejected"
    /\ Commit(Guarded(Lost("review_rejected")))

PauseForSpend ==
    /\ SpendLimit
    /\ tick.pc = "pending"
    /\ run.status \in Open
    /\ Commit(Paused("spend"))

\* The graph is starved: nothing runs, nothing can, and a failure is why
\* (one that is still to recover, in the mistaken form).
StarvedWhileRecovering ==
    /\ tick.queued /\ ~tick.active /\ ~tick.runnable
    /\ Blocking # {} /\ ~tick.pending /\ Recoverable
Starved ==
    /\ tick.queued /\ ~tick.active /\ ~tick.runnable
    /\ Blocking # {} /\ ~tick.pending /\ ~Recoverable

\* _cancel_terminally_blocked_items reads every queued item of the run ...
SelectDoomed(next) == Read([tick EXCEPT !.pc = next, !.doomed = WithStatus({"QUEUED"})])

SelectStarved ==
    /\ tick.pc = "decide" /\ Starved
    /\ SelectDoomed("cancel")

\* ... and cancels them; if there were none any more, the tick tries again on
\* its way to the failed run.
CancelStarved ==
    /\ tick.pc = "cancel" /\ tick.doomed # {}
    /\ Commit(run)

SelectStarvedAgain ==
    /\ tick.pc = "cancel" /\ tick.doomed = {}
    /\ IF WithStatus({"QUEUED"}) # {} THEN SelectDoomed("starved_again") ELSE Commit(run)

PauseStalledWork ==
    /\ tick.pc = "decide" /\ ~Starved
    /\ tick.active /\ quiet
    /\ Commit(Guarded(StallPaused))

\* The watchdog looks at queued work that nobody executes.
Watched ==
    /\ tick.pc = "decide"
    /\ tick.queued /\ ~tick.active
    /\ Blocking = {} \/ tick.pending

ForgetStalls ==
    /\ Watched /\ ~quiet
    /\ Commit([run EXCEPT !.stalls = 0])

WaitForRecovery ==
    /\ Watched /\ quiet /\ ~workers /\ tick.pending
    /\ Commit(run)

StallAgain ==
    /\ Watched /\ quiet /\ workers
    /\ run.stalls < MaxStalls
    /\ Commit([run EXCEPT !.stalls = @ + 1])

\* Giving up a stalled run: degraded at once, or failed after its queued items
\* are selected to be canceled.
Exhausted == workers /\ run.stalls >= MaxStalls
GiveUp ==
    /\ Watched /\ quiet
    /\ Exhausted \/ (~workers /\ ~tick.pending)
    /\ LET cause == IF workers THEN "no_progress" ELSE "no_workers"
       IN  IF NeverFail THEN Commit(Guarded(Degraded(cause)))
           ELSE Read([tick EXCEPT !.pc = "give_up", !.cause = cause])

SelectGivenUp ==
    /\ tick.pc = "give_up"
    /\ SelectDoomed("conclude")

FailGivenUp ==
    /\ tick.pc = "conclude"
    /\ Commit(Guarded(Failed(tick.cause)))

\* A blocking failure and nothing left to do: pause for the operator, or end.
Unresolved ==
    IF ForWantOf({"budget", "budget_text"}) THEN Paused("budget")
    ELSE IF ForWantOf({"operator"}) THEN Paused("operator")
    ELSE Lost("unresolvable")

Unresolvable ==
    /\ \/ tick.pc = "decide" /\ ~tick.active /\ ~tick.queued /\ ~tick.pending
       \/ tick.pc = "starved_again"
    /\ Blocking # {}
    /\ Commit(Guarded(Unresolved))

\* No blocking failure and nothing left to do, by the counts of this tick.
HastyFinish == Blocking = {} /\ ~tick.queued
Finished == Blocking = {} /\ ~tick.active /\ ~tick.queued

Complete ==
    /\ tick.pc = "decide"
    /\ Finished
    /\ Commit(Guarded(Completed))

\* None of the above: look again in a second.
Wait ==
    /\ tick.pc = "decide"
    /\ ~Starved /\ ~Watched /\ ~Finished
    /\ ~(tick.active /\ quiet)
    /\ ~(Blocking # {} /\ ~tick.active /\ ~tick.queued /\ ~tick.pending)
    /\ Commit(run)

\* The tick raises: main() rolls back and ticks again.
AbortTick ==
    /\ tick.pc # "idle"
    /\ faults < MaxFaults
    /\ faults' = faults + 1
    /\ tick' = IdleTick
    /\ UNCHANGED <<run, item, busy, quiet, workers>>

-----------------------------------------------------------------------------
Reads ==
    \/ LoadRun \/ ReadReviews \/ SupersedeStaleRecoveries \/ ReadFailed
    \/ ReadPendingRecovery \/ ReadActive \/ ReadQueued \/ ReadRunnable

Decisions ==
    \/ AutoResume \/ Reject
    \/ SelectStarved \/ CancelStarved \/ SelectStarvedAgain
    \/ PauseStalledWork \/ ForgetStalls \/ WaitForRecovery \/ StallAgain
    \/ GiveUp \/ SelectGivenUp \/ FailGivenUp
    \/ Unresolvable \/ Complete \/ Wait

TickStep == Reads \/ Decisions

Reports(i) == i \in busy /\ (ReportDone(i) \/ ReportFailed(i) \/ ReportRetry(i))

WorkerStep(i) == Claim(i) \/ Reports(i) \/ Reclaim(i)

Next ==
    \/ TickStep
    \/ PauseForSpend
    \/ \E i \in Items : WorkerStep(i)
    \/ \E i \in busy : Abandon(i)
    \/ WorkersLeave \/ WorkersReturn \/ GoQuiet
    \/ Cancel
    \/ AbortTick

Spec == Init /\ [][Next]_vars

\* main() ticks every second, workers loop and report, a supervisor brings
\* them back, leases run out and time passes.  Nobody has to cancel, and
\* nothing has to fail.
Fairness ==
    /\ WF_vars(TickStep)
    /\ \A i \in Items : WF_vars(Claim(i)) /\ WF_vars(Reports(i)) /\ WF_vars(Reclaim(i))
    /\ WF_vars(WorkersReturn)
    /\ WF_vars(GoQuiet)

FairSpec == Spec /\ Fairness
=============================================================================
