------------------------------ MODULE RunControl ------------------------------
(***************************************************************************)
(* What an operator does to a run (persistence.py) and what a resume makes *)
(* of its workspace (run_resume.py, run_delivery.py), while workers execute*)
(* its items and the scheduler decides what becomes of it.                 *)
(*                                                                         *)
(* The work of an item is one change of the workspace.  A change is either *)
(* an edit of files git tracks or new files: a checkpoint is git diff HEAD,*)
(* which leaves out what is not tracked, and a restore resets the workspace*)
(* to HEAD, removes what is not tracked and applies the checkpoint.        *)
(*                                                                         *)
(* A request that locks the row of the run first (cancel, extend, confirm, *)
(* discard) is one step.  A resume, an unblock, a retried push and a pull  *)
(* request read it without a lock: their reads are steps of their own, and *)
(* they write what follows from them whatever has become of the run.       *)
(*                                                                         *)
(* OPEN stands for QUEUED and RUNNING, which every guard here takes        *)
(* together.  A tick of the scheduler is one step (RunScheduler has its    *)
(* reads apart) and every execution ends by a report (WorkItemLease has    *)
(* those that do not).  Recovery is left out (RecoveryPolicy); goal        *)
(* orchestration and runtime_never_fail_runs are off, their default.       *)
(***************************************************************************)
EXTENDS Integers, FiniteSets

CONSTANTS
    Items,     \* the work items, numbered in order of creation
    Edges,     \* <<from, to>>: to waits for from
    NewFiles,  \* the items that make new files, the others edit
    Failures,  \* which items may fail, and why: <<item, reason>>
    Workers,   \* how many there are
    MaxCalls   \* bound on the operator's requests

ASSUME ConstantsAssumption ==
    /\ Items \subseteq Nat \ {0}
    /\ Edges \subseteq Items \X Items
    /\ NewFiles \subseteq Items
    /\ Failures \subseteq Items \X {"code", "confirm", "budget"}
    /\ Workers \in Nat
    /\ MaxCalls \in Nat

VARIABLES
    run,          \* the status of the run's row
    item,         \* the work_items rows
    execution,    \* what the workers execute
    started,      \* executions so far: their order
    tree,         \* the items whose work is in the workspace, and whether there is one
    head,         \* those whose work is committed in it
    remote,       \* those whose work was pushed
    pr,           \* the run has a pull request
    checkpoints,  \* the run_checkpoints rows
    calls,        \* requests so far
    pending,      \* those that have read but not written, and what they have read
    mishaps       \* what happened so far that may cost work that is done

vars == <<run, item, execution, started, tree, head, remote, pr, checkpoints, calls, pending,
          mishaps>>
workspace == <<tree, head, remote, pr>>
requests == <<calls, pending>>

Stopped == {"FAILED", "CANCELED", "PAUSED"}

NoItem == 0
Queued == [status |-> "QUEUED", why |-> "-"]

Init ==
    /\ run = "OPEN"
    /\ item = [i \in Items |-> Queued]
    /\ execution = {}
    /\ started = 0
    /\ tree = [there |-> TRUE, work |-> {}]
    /\ head = {}
    /\ remote = {}
    /\ pr = FALSE
    /\ checkpoints = {[at |-> 0, work |-> {}]}
    /\ calls = 0
    /\ pending = {}
    /\ mishaps = {}

-----------------------------------------------------------------------------
(* Work items (work_item_state.py): one that failed for want of budget does*)
(* not block.                                                              *)

WithStatus(S) == {i \in Items : item[i].status \in S}
Blocks(row) == row.status = "FAILED" /\ row.why # "budget"
Blocking == {i \in Items : Blocks(item[i])}
Satisfied(i) == item[i].status = "DONE" \/ (item[i].status = "FAILED" /\ ~Blocks(item[i]))
Runnable == {i \in WithStatus({"QUEUED"}) : \A e \in Edges : e[2] = i => Satisfied(e[1])}
Active == WithStatus({"RUNNING"})

Downstream(i) ==
    LET reach[S \in SUBSET Items] ==
          LET next == S \cup {e[2] : e \in {e \in Edges : e[1] \in S}}
          IN  IF next = S THEN S ELSE reach[next]
    IN  reach[{i}] \ {i}

-----------------------------------------------------------------------------
(* Workers.                                                                *)

\* _ensure_resume_workspace and ensure_run_workspace clone a workspace that is
\* gone: the run's branch if it was pushed.
Cloned == IF tree.there THEN tree ELSE [there |-> TRUE, work |-> remote]
ClonedHead == IF tree.there THEN head ELSE remote

OneTooMany == Cardinality(execution) <= Workers
FreeWorker == Cardinality(execution) < Workers

Claim(i) ==
    /\ FreeWorker
    /\ run = "OPEN"
    /\ i \in Runnable
    /\ item' = [item EXCEPT ![i].status = "RUNNING"]
    /\ execution' = execution \cup {[job |-> i, since |-> started + 1, wrote |-> FALSE]}
    /\ started' = started + 1
    /\ tree' = Cloned
    /\ head' = ClonedHead
    /\ UNCHANGED <<run, remote, pr, checkpoints, requests, mishaps>>

Write(e) ==
    /\ ~e.wrote
    /\ execution' = (execution \ {e}) \cup {[e EXCEPT !.wrote = TRUE]}
    /\ tree' = IF tree.there THEN [tree EXCEPT !.work = @ \cup {e.job}] ELSE tree
    /\ UNCHANGED <<run, item, started, head, remote, pr, checkpoints, requests, mishaps>>

\* git diff HEAD; of a workspace that is gone it makes an empty checkpoint.
DiffOfBase == IF tree.there THEN tree.work \ NewFiles ELSE {}
Diff == IF tree.there THEN (tree.work \ head) \ NewFiles ELSE {}

\* created_at is the time the report's transaction began, and it began with
\* the execution.
CapturedAt(e) == e.since

\* capture_run_checkpoint; after a commit, the first checkpoint that applies again.
ReportDone(e) ==
    /\ e.wrote
    /\ item' = [item EXCEPT ![e.job] = [status |-> "DONE", why |-> "-"]]
    /\ checkpoints' = checkpoints \cup {[at |-> CapturedAt(e), work |-> Diff]}
    /\ mishaps' = (mishaps \ {"committed"})
         \cup (IF \E c \in checkpoints : c.at > e.since THEN {"late"} ELSE {})
         \cup (IF tree.there THEN {} ELSE {"discarded"})
    /\ execution' = execution \ {e}
    /\ UNCHANGED <<run, started, workspace, requests>>

ReportFailed(e, why) ==
    /\ <<e.job, why>> \in Failures
    /\ item' = [item EXCEPT ![e.job] = [status |-> "FAILED", why |-> why]]
    /\ execution' = execution \ {e}
    /\ UNCHANGED <<run, started, workspace, checkpoints, requests, mishaps>>

-----------------------------------------------------------------------------
(* The scheduler (scheduler_service.py).                                   *)

CanceledQueued == [i \in Items |-> IF item[i].status = "QUEUED"
                                   THEN [item[i] EXCEPT !.status = "CANCELED"] ELSE item[i]]

\* Nothing runs and nothing can, because of a failure.
CancelStarved ==
    /\ run = "OPEN"
    /\ Active = {} /\ Runnable = {} /\ WithStatus({"QUEUED"}) # {} /\ Blocking # {}
    /\ item' = CanceledQueued
    /\ UNCHANGED <<run, execution, started, workspace, checkpoints, requests, mishaps>>

\* ... or for another reason: the watchdog gives up in the end.
GiveUp ==
    /\ run = "OPEN"
    /\ Active = {} /\ Runnable = {} /\ WithStatus({"QUEUED"}) # {} /\ Blocking = {}
    /\ run' = "FAILED"
    /\ item' = CanceledQueued
    /\ UNCHANGED <<execution, started, workspace, checkpoints, requests, mishaps>>

FailedFor(why) == \E i \in WithStatus({"FAILED"}) : item[i].why = why

\* The run pauses for a budget or for the operator's confirmation, or fails.
Unresolvable ==
    /\ run = "OPEN"
    /\ Active = {} /\ WithStatus({"QUEUED"}) = {} /\ Blocking # {}
    /\ run' = IF FailedFor("budget") \/ FailedFor("confirm") THEN "PAUSED" ELSE "FAILED"
    /\ UNCHANGED <<item, execution, started, workspace, checkpoints, requests, mishaps>>

HastyFinish == WithStatus({"QUEUED"}) = {} /\ Blocking = {}
CleanFinish == WithStatus({"DONE"}) = Items
Finished == Active = {} /\ WithStatus({"QUEUED"}) = {} /\ Blocking = {}

\* It commits the workspace, if there is one, and pushes it; if it cannot, the run
\* is COMPLETED all the same.
Complete ==
    /\ run = "OPEN"
    /\ Finished
    /\ run' = "COMPLETED"
    /\ head' = tree.work
    /\ remote' \in IF tree.there THEN {remote, tree.work} ELSE {remote}
    /\ UNCHANGED <<item, execution, started, tree, pr, checkpoints, requests, mishaps>>

\* A limit on spending pauses a run whatever executes.
PauseForSpend ==
    /\ run = "OPEN"
    /\ run' = "PAUSED"
    /\ UNCHANGED <<item, execution, started, workspace, checkpoints, requests, mishaps>>

Tick == CancelStarved \/ GiveUp \/ Unresolvable \/ Complete

-----------------------------------------------------------------------------
(* Requests that lock the row of the run first.                            *)

Calls ==
    /\ calls < MaxCalls
    /\ calls' = calls + 1

\* A request that has read: its number, what it does next, the status it read
\* and the items.  Fresh records that none has opened the run since.
Pends(next) ==
    /\ Calls
    /\ pending' = pending \cup {[id |-> calls, next |-> next, status |-> run, seen |-> <<>>,
                                fresh |-> TRUE]}
Continues(r, later) ==
    /\ r \in pending
    /\ pending' = (pending \ {r}) \cup later
    /\ UNCHANGED calls
Ends(r) == Continues(r, {})

Overlap(r) == IF r.fresh THEN {} ELSE {"overlap"}
Outdated(S) == {[r EXCEPT !.fresh = FALSE] : r \in S}
EndsOpening(r) ==
    /\ pending' = Outdated(pending \ {r})
    /\ UNCHANGED calls

\* patch_run_status: a paused run cannot be canceled.
Cancel ==
    /\ Calls
    /\ run = "OPEN"
    /\ run' = "CANCELED"
    /\ UNCHANGED pending
    /\ UNCHANGED <<item, execution, started, workspace, checkpoints, mishaps>>

RequeuedFor(why) == [i \in Items |-> IF item[i].status = "FAILED" /\ item[i].why = why
                                     THEN Queued ELSE item[i]]

\* extend_run_budget with auto_resume; without, it does nothing to the run.
Extend ==
    /\ Calls
    /\ run = "PAUSED"
    /\ run' = "OPEN"
    /\ item' = RequeuedFor("budget")
    /\ pending' = Outdated(pending)
    /\ UNCHANGED <<execution, started, workspace, checkpoints, mishaps>>

\* confirm_and_continue_run
Confirm ==
    /\ Calls
    /\ run \in {"OPEN", "PAUSED"}
    /\ run' = "OPEN"
    /\ item' = RequeuedFor("confirm")
    /\ pending' = Outdated(pending)
    /\ UNCHANGED <<execution, started, workspace, checkpoints, mishaps>>

\* discard_run_workspace: whatever the status, whoever executes.
Discard ==
    /\ Calls
    /\ run' = IF run = "OPEN" THEN "CANCELED" ELSE run
    /\ tree' = [there |-> FALSE, work |-> {}]
    /\ head' = {}
    /\ mishaps' = IF run = "PAUSED" \/ ~(head \subseteq remote)
                  THEN mishaps \cup {"discarded"} ELSE mishaps
    /\ UNCHANGED <<item, execution, started, remote, pr, checkpoints, pending>>

-----------------------------------------------------------------------------
(* resume_existing_run, prepare_run_for_resume.                            *)

ResumeRun ==
    /\ run \in Stopped
    /\ Pends("read_items")
    /\ UNCHANGED <<run, item, execution, started, workspace, checkpoints, mishaps>>

HastyResume == TRUE
Resumable == Active = {}

\* sync_run_resume_state reads the items; then its UPDATE waits for whoever
\* has updated the run, and the items are not read again.
ResumeItems(r) ==
    /\ r.next = "read_items"
    /\ Continues(r, IF Resumable THEN {[r EXCEPT !.next = "resume", !.seen = item]} ELSE {})
    /\ UNCHANGED <<run, item, execution, started, workspace, checkpoints, mishaps>>

\* _latest_safe_checkpoint: the last by created_at.
OldestCheckpoint == CHOOSE c \in checkpoints : \A d \in checkpoints : c.at <= d.at
LatestCheckpoint == CHOOSE c \in checkpoints : \A d \in checkpoints : c.at >= d.at

\* retry_failed_step stands for replay_exact and replay_with_repair too.
Modes == {"legacy_auto", "rollback_and_resume", "retry_failed_step", "resume_downstream"}

\* The item named in the request, or else the last blocking failure, if any.
Targets(seen) ==
    LET failed == {i \in Items : Blocks(seen[i])}
    IN  Items \cup IF failed = {} THEN {NoItem} ELSE {}

Requeued(mode, target, seen) ==
    CASE mode = "retry_failed_step" -> {target} \cap Items
      [] mode = "resume_downstream" ->
            IF target = NoItem THEN {}
            ELSE {i \in Downstream(target) : seen[i].status \in {"CANCELED", "QUEUED", "FAILED"}}
      [] OTHER -> {i \in Items : seen[i].status \in {"QUEUED", "CANCELED"} \/ Blocks(seen[i])}

Restores(r, mode) == r.status # "PAUSED" \/ mode = "rollback_and_resume"
Applies(checkpoint) == checkpoint.work \cap ClonedHead = {}

\* The rows it changes are those it did not read as QUEUED, whatever they are
\* by now; a run that is not restored continues in the workspace as it is.
ResumeCommit(r, mode, target, checkpoint) ==
    /\ r.next = "resume"
    /\ Restores(r, mode) => Applies(checkpoint)
    /\ item' = [i \in Items |-> IF i \in Requeued(mode, target, r.seen)
                                   /\ r.seen[i].status # "QUEUED" THEN Queued ELSE item[i]]
    /\ IF Restores(r, mode)
       THEN /\ tree' = [there |-> TRUE, work |-> ClonedHead \cup checkpoint.work]
            /\ head' = ClonedHead
       ELSE UNCHANGED <<tree, head>>
    /\ run' = "OPEN"
    /\ EndsOpening(r)
    /\ mishaps' = mishaps
         \cup (IF Restores(r, mode) /\ checkpoint # LatestCheckpoint THEN {"named"} ELSE {})
         \cup Overlap(r)
    /\ UNCHANGED <<execution, started, remote, pr, checkpoints>>

\* git apply fails after git reset and git clean: the rows are rolled back, the
\* workspace is not.
ResumeTorn(r, mode, checkpoint) ==
    /\ r.next = "resume"
    /\ Restores(r, mode) /\ ~Applies(checkpoint)
    /\ tree' = [there |-> TRUE, work |-> ClonedHead]
    /\ head' = ClonedHead
    /\ Ends(r)
    /\ mishaps' = mishaps \cup {"torn"} \cup Overlap(r)
    /\ UNCHANGED <<run, item, execution, started, remote, pr, checkpoints>>

Resume(r) ==
    /\ r.next = "resume"
    /\ \E mode \in Modes, checkpoint \in checkpoints :
          \/ \E target \in Targets(r.seen) : ResumeCommit(r, mode, target, checkpoint)
          \/ ResumeTorn(r, mode, checkpoint)

-----------------------------------------------------------------------------
(* unblock_run                                                             *)

UnblockRead ==
    /\ run \in {"OPEN", "PAUSED"}
    /\ Pends("unblock")
    /\ UNCHANGED <<run, item, execution, started, workspace, checkpoints, mishaps>>

\* It commits only if there is something to run, and its session does not
\* flush before it looks: what it requeues itself does not count.
UnblockCommit(r) ==
    /\ r.next = "unblock"
    /\ IF Runnable # {}
       THEN /\ item' = RequeuedFor("confirm")
            /\ run' = IF r.status = "PAUSED" THEN "OPEN" ELSE run
            /\ EndsOpening(r)
            /\ mishaps' = mishaps \cup Overlap(r)
       ELSE /\ Ends(r)
            /\ UNCHANGED <<run, item, mishaps>>
    /\ UNCHANGED <<execution, started, workspace, checkpoints>>

-----------------------------------------------------------------------------
(* retry_run_branch_push, publish_run_branch_if_ready                      *)

PushRead ==
    /\ run \in {"COMPLETED", "FAILED"}
    /\ tree.there
    /\ Pends("commit")
    /\ UNCHANGED <<run, item, execution, started, workspace, checkpoints, mishaps>>

PushCommit(r) ==
    /\ r.next = "commit"
    /\ IF tree.there
       THEN /\ head' = tree.work
            /\ Continues(r, {[r EXCEPT !.next = "push"]})
            /\ mishaps' = IF run = "COMPLETED" THEN mishaps ELSE mishaps \cup {"committed"}
       ELSE /\ Ends(r)
            /\ UNCHANGED <<head, mishaps>>
    /\ UNCHANGED <<run, item, execution, started, tree, remote, pr, checkpoints>>

PushFailed(r) ==
    /\ r.next = "push"
    /\ Ends(r)
    /\ UNCHANGED <<run, item, execution, started, workspace, checkpoints, mishaps>>

Pushed(r) ==
    /\ r.next = "push"
    /\ tree.there
    /\ remote' = head
    /\ run' = IF r.status = "FAILED" THEN "COMPLETED" ELSE run
    /\ Ends(r)
    /\ mishaps' = mishaps \cup Overlap(r)
    /\ UNCHANGED <<item, execution, started, tree, head, pr, checkpoints>>

-----------------------------------------------------------------------------
(* create_run_pull_request, create_pr_from_artifact: whatever the status of*)
(* the run, whoever executes.  The branch is the run's own; a request that *)
(* names another is left out.                                              *)

PullRequestRead ==
    /\ ~pr
    /\ Pends("reset")
    /\ UNCHANGED <<run, item, execution, started, workspace, checkpoints, mishaps>>

\* prepare_workspace_repo makes the workspace what was pushed, or the base.  Before
\* there was what is in it and what executions wrote, or what a resume would make.
AtStake ==
    tree.work \cup {e.job : e \in {x \in execution : x.wrote}}
      \cup (IF tree.there THEN {} ELSE LatestCheckpoint.work)

PullRequestReset(r) ==
    /\ r.next = "reset"
    /\ tree' = [there |-> TRUE, work |-> remote]
    /\ head' = remote
    /\ Continues(r, {[r EXCEPT !.next = "patch"]})
    /\ mishaps' = IF AtStake \subseteq remote THEN mishaps ELSE mishaps \cup {"reset"}
    /\ UNCHANGED <<run, item, execution, started, remote, pr, checkpoints>>

\* It fails: no artifact, not approved, no change, no push.
PullRequestFailed(r) ==
    /\ r.next \in {"patch", "publish"}
    /\ Ends(r)
    /\ UNCHANGED <<run, item, execution, started, workspace, checkpoints, mishaps>>

\* What it will commit: what somebody wrote in the meantime, or else a patch, if
\* nothing was pushed.  A patch is the diff of an execution, as a checkpoint is.
Changes == tree.work # head
Patched == IF Changes THEN {{}} ELSE {c.work : c \in checkpoints} \ {{}}

PullRequestCommit(r) ==
    /\ r.next = "patch"
    /\ tree.there
    /\ Changes \/ remote = {}
    /\ \E work \in Patched :
          /\ tree' = [tree EXCEPT !.work = @ \cup work]
          /\ head' = tree.work \cup work
    /\ Continues(r, {[r EXCEPT !.next = "publish"]})
    /\ mishaps' = IF run = "COMPLETED" THEN mishaps ELSE mishaps \cup {"committed"}
    /\ UNCHANGED <<run, item, execution, started, remote, pr, checkpoints>>

\* Then the provider makes the pull request, or refuses; of what was pushed before
\* if there is nothing to commit.
PullRequestPush(r) ==
    /\ r.next = "publish"
    /\ tree.there
    /\ remote' = head
    /\ pr' \in {pr, TRUE}
    /\ Ends(r)
    /\ UNCHANGED <<run, item, execution, started, tree, head, checkpoints, mishaps>>

PullRequestAsPushed(r) ==
    /\ r.next = "patch"
    /\ tree.there
    /\ ~Changes /\ remote # {}
    /\ pr' \in {pr, TRUE}
    /\ Ends(r)
    /\ UNCHANGED <<run, item, execution, started, tree, head, remote, checkpoints, mishaps>>

-----------------------------------------------------------------------------
Request ==
    \/ Cancel \/ Extend \/ Confirm \/ Discard
    \/ ResumeRun \/ UnblockRead \/ PushRead \/ PullRequestRead

Serve(r) ==
    \/ ResumeItems(r) \/ Resume(r)
    \/ UnblockCommit(r)
    \/ PushCommit(r) \/ PushFailed(r) \/ Pushed(r)
    \/ PullRequestReset(r) \/ PullRequestCommit(r) \/ PullRequestPush(r)
    \/ PullRequestAsPushed(r) \/ PullRequestFailed(r)

Report(e) == ReportDone(e) \/ \E why \in {"code", "confirm", "budget"} : ReportFailed(e, why)

Next ==
    \/ \E i \in Items : Claim(i)
    \/ \E e \in execution : Write(e) \/ Report(e)
    \/ Tick
    \/ PauseForSpend
    \/ Request
    \/ \E r \in pending : Serve(r)

Spec == Init /\ [][Next]_vars

\* Workers claim what can run, executions end and the scheduler ticks.  Nobody
\* has to request anything.
Fairness ==
    /\ WF_vars(\E i \in Items : Claim(i))
    /\ WF_vars(\E e \in execution : Write(e) \/ Report(e))
    /\ WF_vars(Tick)

FairSpec == Spec /\ Fairness
=============================================================================
