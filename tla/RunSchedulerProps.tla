-------------------------- MODULE RunSchedulerProps --------------------------
(***************************************************************************)
(* What the scheduler must, and must not, make of a run.                   *)
(***************************************************************************)
EXTENDS RunScheduler

\* A run that was completed, failed or canceled keeps that status: a tick that
\* loaded it while it was open does not overwrite an operator's cancel, however
\* late it commits (state_guard.py, update_run_status; the FOR UPDATE re-check
\* before a completion).
TerminalIsFinal == [][run.status \in Terminal => run'.status = run.status]_vars

\* A run that failed, or was given up as degraded, for an item has that item:
\* a rejected review, or a critical failure that no recovery has superseded.
\* The items the tick read are the ones that count, not the ones it superseded
\* in the same transaction (scheduler_service.py, tick and
\* _supersede_stale_failed_recoveries).
LossHasItsCause ==
    /\ run.why = "review_rejected" => \E i \in Reviews : item[i].status = "FAILED"
    /\ run.why = "unresolvable" =>
          \E i \in Critical : item[i].status = "FAILED" /\ ~item[i].superseded

\* Why that is so.  A row is busy only until it is reported, so a failure stays
\* one unless a tick cancels it; the failures a tick has read are not among the
\* queued items it selects afterwards; and after a loss there are no more ticks.
Losses == {"review_rejected", "unresolvable"}
FailuresStay ==
    /\ \A i \in busy : item[i].status \in {"RUNNING", "CANCELED"}
    /\ \A i \in tick.failed : item[i].status = "FAILED" /\ i \notin tick.doomed
NothingDoomedYet ==
    tick.pc \in {"review", "rejected", "supersede", "failed"} => tick.doomed = {}
RejectedReview ==
    tick.pc = "rejected" => \E i \in Reviews : item[i].status = "FAILED"
NothingAfterLoss ==
    run.why \in Losses => run.status \in Terminal /\ tick.pc = "idle"
DecisionInv ==
    /\ FailuresStay
    /\ NothingDoomedYet
    /\ RejectedReview
    /\ NothingAfterLoss
    /\ LossHasItsCause

\* A failure is superseded only when no validation item is left that has not
\* passed: no run is completed over a failure because one of several checks
\* was green (scheduler_service.py, _supersede_stale_failed_recoveries).
SupersededWasValidated ==
    (\E i \in Items : item[i].superseded) =>
        \A v \in Validations : item[v].status = "DONE" \/ item[v].superseded

\* Why that lasts: a passed validation item does not change again, and is none of
\* the queued items that a tick selects to cancel.
ValidationsStay ==
    (tick.superseding # {} \/ \E i \in Items : item[i].superseded) =>
        \A v \in Validations :
            item[v].superseded \/ (item[v].status = "DONE" /\ v \notin tick.doomed)

\* A tick that no claim, report or reclaim overlaps decides right: when it
\* completes the run, no item is queued or running and no failure blocks it
\* (scheduler_service.py, tick).
CalmCompletionIsRight ==
    [][(tick.undisturbed /\ run.status # "COMPLETED" /\ run'.status = "COMPLETED"
            /\ ~run'.degraded)
       => \A i \in Items :
             /\ item[i].status \notin {"QUEUED", "RUNNING"}
             /\ ~BlockingFailure(i)']_vars

\* Why it does: in such a tick, what has been read of the items still holds.
CalmReads ==
    tick.undisturbed =>
        /\ tick.pc \in {"pending", "active", "queued", "runnable", "decide"} =>
              tick.failed = WithStatus({"FAILED"})
        /\ tick.pc \in {"queued", "runnable", "decide"} =>
              tick.active = (WithStatus({"RUNNING"}) # {})
        /\ tick.pc \in {"runnable", "decide"} =>
              tick.queued = (WithStatus({"QUEUED"}) # {})

\* Every run is concluded: from some moment on it is completed, failed, canceled
\* or paused for somebody to look at (scheduler_service.py, the watchdogs of
\* tick).
RunConcludes == <>[](run.status \notin Open)
=============================================================================
