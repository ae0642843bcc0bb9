# Agentic SDLC Platform: TLA+ models, model checking and proofs

The platform turns a request into a *run*: a graph of *work items* (write code,
write tests, run them, review ...) that worker processes execute with a language
model, under a scheduler that decides when the run is completed, failed or
paused for a person.  Everything shared lives in Postgres; there is no
coordinator, only rows that several processes read and update.  That is where
the hard behaviours are, and what these modules are about.

All paths below are relative to `src/`; `app/` stands for `apps/api/app/`.

## 1. Inventory

| Component | State | Operations | Interacts with |
|---|---|---|---|
| Workers, `app/runtime/worker_service.py` | `agents` row; the `work_items` row it claimed | `main` registers; `tick_worker` claims, loads, executes, reports | row locks of other claims; keepalive task; recovery policy inside the report |
| Leases, `app/runtime/leases.py` | `lease_expires_at`, `assigned_agent_id` | keepalive loop, `reclaim_expired_work_items`, `reclaim_orphaned_work_items` | called by the scheduler, the orchestrator's loop, unblock and confirm requests |
| Scheduler, `app/runtime/scheduler_service.py` | `runs.status`, `runs.summary` | one `tick` per second over all open runs: reclaim, read, decide, write, commit | reads what workers commit meanwhile; nudges by running `tick_worker` itself |
| Status guards, `app/services/state_guard.py`, `work_item_state.py` | none | guarded UPDATEs; which failure blocks, which dependency is satisfied | everybody |
| Recovery, `app/runtime/recovery_policy.py`, `runtime_recovery_service.py` | `attempt`, `payload`, `result`; recovery attempt rows | classify, retry in place, spawn a fix or a retry node, escalate; budgets | runs in the worker's report transaction |
| Run control API, `app/api/v1/persistence.py` | run and item rows | cancel, resume, unblock, confirm and continue, discard, extend budget; HTTP claim, complete, fail, heartbeat | same rows as the scheduler |
| Orchestrator, `app/runtime/orchestrator.py`, `dag.py` | run row, items and edges; a task per run | bootstrap (seed the graph), embedded execution, fallback when no worker heartbeat is fresh | reclaims leases too |
| Resume, `app/services/run_resume.py` | checkpoints on disk and in rows, `summary.resume` | capture, sync, prepare for resume | worker reports, run control |
| Launch, `app/services/run_launch.py` | run rows with a `request_key` | idempotent launch, fork | run control |
| Execution contract and AI policy | token and cost ledger in `summary` | reserve, refresh, block | codex executor; its verdict is a budget failure |
| Codex executor, patch guard | a git workspace | edit, validate, commit | worker |
| Runtime lifecycle, previews, deployments | runtime rows; external services | guarded transitions, reconcile | external APIs |
| Knowledge, memory, requirements, mission control | documents | CRUD, review, read models | UI |
| `core/` | SDLC stage, approvals, action ledger | advance stage through a gate | none of the above at run time |
| `agent/`, `apps/web` | none that others share | prompting; rendering | API |

What is hard: processes that interleave between any two statements; a row read
in one transaction and written in a later one (a claim and its report are minutes
apart); a tick that decides from several reads made at different moments;
crashes between claim and report; leases that run out while their holder lives;
retries; and the absence of any lock over a whole run.

What makes each part correct:

* leases and workers: at most one execution of an item whose lease was not broken; its
  verdict is final; each retry is charged; an abandoned item returns to the queue; every
  item settles;
* scheduler: a concluded run stays concluded; a run is failed, or given up, only for a
  failure that exists and was not superseded; a failure is superseded only when validation passed; a
  completed run has nothing left; every run is concluded or handed to a person;
* recovery: budgets hold; recovery terminates; a fix is tried once per failure;
* recovery's graph work: dependents follow the newest retry; a repair that was
  paid for is used;
* run control and resume: a resume loses no finished work and resets nobody's
  workspace; a stopped run can be resumed;
* launch: a project has one open run; a repeated request is answered with the
  run it made before; a graph is seeded once; no open run is left without work and
  owner;
* embedded execution: an item is executed once, and the verdict is right;
* budget: the ledger shows what was spent, and a refusal is paid for;
* previews: no process runs unrecorded, a READY record is served, the limit holds.

The hazards behind these, each at its line, are in `PROJECT.json`.

## 2. Modules

Every component has a module `M`, its properties and inductive invariants in
`MProps`, an instance for TLC in `MCM`, and its theorems in `M_proofs`.

| Module | Models |
|---|---|
| `WorkItemLease`, `WorkItemPromise` | claim, execution, report, keepalive, reclaim, nudge, worker start and crashes; abstractly, what the protocol promises about an item |
| `RunScheduler` | the tick's decisions about one run, beside workers and an operator |
| `RecoveryPolicy`, `WorkGraph` | what a report makes of a failure: retries, repairs, retries of the repaired, budgets; abstractly, a graph of work worked off in its order |
| `RunControl` | what requests do to a run and its workspace, beside workers and scheduler |
| `RunLaunch` | requests that create, fork or resume runs; the bootstrap |
| `EmbeddedRun` | the API process executing a run itself |
| `RunBudget` | the cost ledger in `runs.summary` |
| `RunPreview` | previews: processes, records, slots |

They are models of one system from several sides, and each takes from the others
what those establish.  `RunScheduler`, `RecoveryPolicy`, `RunControl` and
`RunBudget` let one worker execute an item at a time, which is `ExclusiveExecution`
of `WorkItemLease`: they say nothing about an item whose lease was broken.  `RunControl` has the tick as one
step, its reads are apart in `RunScheduler`; `RunScheduler` knows retries in place
and `RecoveryPolicy` has the repairs; `RunLaunch` ends where a run has its graph and
the other modules begin there.

How the code's atomicity becomes steps is the same everywhere.  Postgres runs at
READ COMMITTED: a SELECT sees what is committed at that moment, an UPDATE waits
for the row's lock and looks again only at the columns its WHERE names, and a
transaction's writes become visible at once.  So a SELECT whose result is used
later is a step that keeps what it saw, a commit is a step, and a request that
locks the row of the run before it reads is one step.  SQLAlchemy sessions run with
`expire_on_commit=False`: an object once loaded is not read again, and this is why
so much is stale.

### WorkItemLease

A `row` is the part of `work_items` the protocol uses.  A *context* is whatever
runs `tick_worker`: a worker process, or a scheduler that nudges.  A reader sees
committed rows only; rows a reclaimer has updated and not committed are in `held`
and block other writers; and `ClaimSelect` / `ClaimCommit` separate the snapshot of
the claim's statement from the locked row, of which only its own columns are looked
at again.  What a session read is in `loaded`, and `Flush` writes only the columns
that differ from it.

| Action | Code |
|---|---|
| `StartWorker` | `worker_service.main` |
| `ClaimSelect`, `ClaimCommit`, `ClaimNothing`, `Load` | `tick_worker` |
| `ReportVerdict`, `ReportRetry`, `ReportRaised`, `ReportRaisedRetry` | `execute_item` with `maybe_apply_recovery` |
| `AbortReport`, `CrashWorker` | a report that raises; a process that dies |
| `KeepaliveRead`, `KeepaliveWrite`, `KeepaliveLapse` | `keep_work_item_lease_alive` |
| `LeaseExpires` | the clock |
| `ScanExpired`, `SweepExpired`, `SweepOrphaned`, `Nudge`, `CommitTick`, `CrashTick` | `scheduler_service.tick` and `main` |
| `ScanExpired`, `SweepExpired`, `CommitTick` of a loop | the loop in `orchestrator.start` that waits for workers |

Two kinds of process reclaim, and the code always runs both: the scheduler's tick, and
the loop that the orchestrator keeps for every run launched through the API (`Loops`),
which requeues expired leases every 0.2 s and neither sweeps orphans nor nudges.

Time is abstracted: a lease is `live` or `expired`.  `KeepaliveMayLapse = FALSE`
says that keepalive loops run on time, so only an abandoned lease runs out (the
loop refreshes at least four times per lease); `TRUE` also lets the loop die
or be starved.  `LocalEnv` is the local setting in which a starting worker marks
all others inactive.

`astray` is a history variable: the items whose lease was *broken*.  There are four
ways, and the model names each where it happens:

* a lease expires under an execution whose keepalive loop lapsed (`ExpiresHeld`);
* a local start marks the holder's agent inactive (`StartDisowns`), or did so between
  the check of the agent and the claim (`ClaimsDisowned`);
* a requeue is committed while another reclaimer has selected the row and not yet updated
  it, so that its update will match whoever claims the row next (`CommitOvertaken`).

What the protocol promises, it promises of the other items (`Kept`); of an item astray
it still promises that it is never stuck and that it settles.  The last way needs
nothing but one crash, and `lease_two_workers` shows what comes of it.

### RunScheduler

One bootstrapped run in external mode.  Every SELECT of the tick is a step of
its own, so claims, reports, reclaims and a cancel fall between any two of them;
the writes become visible together with the commit and are one step (`Commit`).
`tick` holds what has been read so far.  The branches of the tick are actions:

| Action | Branch of `tick` |
|---|---|
| `LoadRun` .. `ReadRunnable` | lines 1811-1906 |
| `Reject` | a failed REVIEW_DIFF |
| `PauseForSpend` | the hard spend limit |
| `SelectStarved`, `CancelStarved`, `SelectStarvedAgain` | starvation: cancel what a failure blocks |
| `PauseStalledWork` | active work without progress |
| `ForgetStalls`, `WaitForRecovery`, `StallAgain`, `GiveUp`, `SelectGivenUp`, `FailGivenUp` | the watchdog |
| `Unresolvable` | budget pause, operator pause, degraded or failed end |
| `Complete`, `Wait` | completion; look again |
| `AutoResume`, `AbortTick` | any pause of a run that was once paused for a stall is resumed; a tick that raises |

Leases are abstracted to `Abandon` and `Reclaim`; the nudge is one more worker.
What a failure is (its `rule`) decides what may become of it: none, a retry rule,
operator confirmation, or budget.  A budget failure is never blocking; one that only
`last_error` tells (`budget_text`) still blocks dependents, whose query does not
read that column.  DONE stands for SKIPPED too.  `undisturbed` is a history
variable: no claim, report or reclaim since the tick loaded the run.

Left out: goal orchestration (off by default), auto-decomposition of operator
failures, spawned items and with them the requeue functions and the pauses for
repeated fixes, the patch scope pause, and the lost updates of `runs.summary`
(`RunBudget` has them for the budget).

### RecoveryPolicy

The items of a run are a sequence in order of creation to which recovery appends.
A failing report reads the budgets (`CheckBudget`), then the number of repairs
(`CountFixes`), and commits; other reports commit in between.  A report of DONE
updates the run's row before it asks for recovery and so excludes the others: it is
one step.  What an executor printed is the set of marks the policy looks for, and
`classify_failure` is the ordered table of the code.

| Action | Code |
|---|---|
| `Claim`, `Reclaim`, `Abandon` | `tick_worker`; a lease that ran out; a worker that dies |
| `FailUnrecovered`, `CheckBudget`, `CountFixes` | `maybe_apply_recovery` up to its rule; `check_budget` |
| `Escalate`, `CommitRetry`, `CommitBlock`, `CommitFix` | its ends: over budget, retried in place, no room, a repair |
| `ReportDone`, `ReportFix`, `ReportFixEscalated` | a success; a repair that is done, with `_spawn_*_retry` (`RetryOf`, `MayRetryTests`, `Repoint`) |
| `PassLimit` | the time or cost limit of a run |

A failure need not block: one for want of budget never does, nor does that of a type
whose payload says so (`Optional`; `dag.py` marks tests, reviews and the preview's
validation).  Such a failure satisfies what waits for it (`Satisfied`).

The field `of` of a row is a history variable: the items of the graph the row stands
for.  `WorkGraph` has no rows, edges or budgets: a node of the graph waits, runs, is done,
excused (failed without blocking) or failed, and begins when all before it are done or
excused.  A repair may have a failed node done `again`; it does not wait for nodes before
it that are themselves done again, since somebody went on without it.  The refinement
mapping takes the status of the one row that stands for the node and is not superseded,
and counts the attempts.

Left out: the claim's test that no other tests of the run are running, which
`WorkItemLease` has.

### RunControl

The work of an item is one change of the workspace, an edit or new files.  A
checkpoint is `git diff HEAD`; a restore resets, removes what is untracked, and
applies it.  Cancel, budget extension, confirm and discard lock the row of the run
and are one step; a resume, an unblock, a retried push and a pull request read it without
a lock and write later (`pending`).

| Action | Code |
|---|---|
| `Claim`, `Write`, `ReportDone`, `ReportFailed` | a worker, with `ensure_run_workspace` and `capture_run_checkpoint` |
| `CancelStarved`, `GiveUp`, `Unresolvable`, `Complete`, `PauseForSpend` | the tick's decisions |
| `Cancel`, `Extend`, `Confirm`, `Discard` | `patch_run_status`, `extend_run_budget`, `confirm_and_continue_run`, `discard_run_workspace` |
| `ResumeRun`, `ResumeItems`, `Resume` (`ResumeCommit`, `ResumeTorn`) | `resume_existing_run`, `sync_run_resume_state`, `prepare_run_for_resume` in each of its modes |
| `UnblockRead`, `UnblockCommit` | `unblock_run` |
| `PushRead`, `PushCommit`, `PushFailed`, `Pushed` | `retry_run_branch_push`, `publish_run_branch_if_ready` |
| `PullRequestRead`, `PullRequestReset`, `PullRequestCommit`, `PullRequestPush`, `PullRequestAsPushed`, `PullRequestFailed` | `create_run_pull_request`, `create_pr_from_artifact`, `prepare_workspace_repo` |

`mishaps` records which of the ways that may cost work have been taken; the header of
`RunControlProps` defines the seven, among them that a pull request resets a workspace
that holds more than was pushed.  A property that excludes some of them says that none
of the modelled requests costs work in another way.

Left out: a pull request for another branch than the run's.

### RunLaunch

| Action | Code |
|---|---|
| `Create`, `Fork`, `Resume` | the routes, up to their first read |
| `Find`, `CountOpen`, `FindAgain` | `_find_run_by_request_key`, the gate of `launch_run_for_project` |
| `Insert`, `InsertFailed`, `Reopen` | the new row, a fork's copy, a resumed row |
| `Bootstrap`: `Refresh`, `Lock`, `LockConcluded`, `LockBroken`, `CheckItems`, `Seed` | `bootstrap_in_session`, in the request and again in the task |
| `HandOver`, `WriteKey` | `_schedule_orchestrator_start`; the key, written after the launch has committed |
| `Cancel`, `Stop`, `Die` | an operator; other components; a process that stops |

A request's session keeps the run as last refreshed, so its bootstrap goes by an old
status; a task starts with a new session.  The graph of a run is how often it was
seeded or copied.  `line`, `asked`, `opened`, `crossed` and the variable `crowded`
are history.

Left out: a seed that finds the task too large (`TaskScopeError`) and fails its run.

### EmbeddedRun

The deployment without workers: the task that bootstrapped the run executes it
inside the API process.  A loop takes a batch, executes its items one after another
and commits at its next turn; until then only its row locks show.  The locks are
those of Postgres (FOR KEY SHARE, FOR NO KEY UPDATE, FOR UPDATE) with its deadlock
detection (`WaitsFor`, `Cycle`, `BreakCycle`).

| Action | Code in `orchestrator.py` |
|---|---|
| `Top`, `Count`, `Failures`, `Select` | the turn of the loop in `start`, `_runnable_queued_items` |
| `Blocked`, `CancelBlocked`, `Finalize` | `_cancel_terminally_blocked_items`, the conclusion |
| `Start`, `Ask`, `Done`, `Fail`, `Raise`, `Recover` | `_process_work_item`, with the charge the executor makes in a session of its own |
| `LoseCommit`, `Die` | a transient error at the commit; the process |
| `Cancel`, `Resume` | requests; a resume starts another loop |

### RunBudget

The ledger is part of `runs.summary`, a JSON column read and written whole.  A
worker loads it with its item and writes that copy back when it reports; the executor
charges each answer in a session of its own; a tick writes what it read when it
began.  Amounts are cents.

| Action | Code |
|---|---|
| `Claim`, `Ask`, `Refuse` | `build_run_context`; `execute`, which goes on only while the ledger it sees is not BLOCKED |
| `ReadLedger`, `ChargeLedger`, `ChargeFails` | `_record_execution_budget`, `record_run_budget_usage` |
| `AskInVain` | an answer of a repair that cannot be parsed: `_repair_plan_after_patch_failure`, `_repair_plan_after_stage_scope_violation`, `_repair_plan_after_project_contract_violation` |
| `Report`, `Raise`, `Die` | `execute_item` and its exception path; a worker that dies |
| `Begin`, `Pause`, `End` | the tick, its spend and budget pauses |
| `Extend` | `extend_run_budget` |

### RunPreview

| Action | Code in `preview_service.py` |
|---|---|
| `Launch`, `ReadRun` | `cleanup_expired_previews`, then the run and the count of active previews |
| `Reuse`, `Refuse`, `Clear` | a READY preview; the limit; the old process is killed |
| `Start`, `FailToStart`, `Serve`, `FailToServe` | the process and its health check |
| `Lock`, `Commit`, `Rollback`, `Abort`, `Lose` | flush, commit, an exception, Postgres' deadlock detection, a process that dies |
| `Stop`, `Discard`, `Look` | `stop_run_preview`, the workspace's discard, `get_run_preview` |
| `Expire`, `Exit` | the TTL; the preview's own process |

`astray`, `gone` and `crowded` are history: what may run unrecorded or be recorded
and dead, and by which race or fault.

Left out: a pull request (`app/services/pr_service.py:280`) and a retried push
(`app/services/run_delivery.py:91`), which write the whole summary of a completed run
back from an old read and may overwrite the record of its preview in the same way.

## 3. Runs

| Run | Result | What it shows |
|---|---|---|
| `lease` | pass | with tick and orchestrator's loop reclaiming side by side, lapsing keepalives, local starts and a crash: executions of an item are exclusive and the promise is implemented (verdicts final, requeues paid for) until its lease is broken; every item, astray or not, returns from an abandoned state and settles |
| `lease_two_workers` | violation of `OneWorkerPerItem` | tick and loop select one expired lease, and the second update takes the item from the worker that has claimed it since: two workers execute it |
| `sched_decides` | pass | every decision of the tick, with all kinds of failure, a spend limit, a cancel and one fault, is one its reads justify |
| `sched_neverfail` | pass | with `runtime_never_fail_runs`, pauses of every kind and automatic resumes, every run is concluded or paused for somebody |
| `sched_starved` | violation of `RunConcludes` | a failure with a retry rule but no attempts left, and queued dependents, keep the run open for ever |
| `recovery` | pass | budgets are overrun by at most one other worker, repairs are used, dependents follow, the graph with its optional items is worked off in its order (`WorkGraph`), recovery ends, and every step uses up something |
| `control` | pass | two requests of any kind, a pull request among them, overlapping: but for the mishaps edits of done items survive, a stopped run can be resumed, nobody's workspace is reset, an open run stops again |
| `control_newfiles` | violation of `NewFilesAreKept` | a resume removes the new files of a done item, which is not executed again |
| `launch` | pass | launches open one run, repetitions are answered with one line of runs, graphs are seeded once, no open run is stranded |
| `embedded` | pass | two tasks never execute one item at once; a task alone repeats nothing it kept, concludes rightly and ends |
| `budget` | pass | no copy of the ledger shows what was not spent or granted, refusals are paid for, an undisturbed execution keeps to its budget but for the answers of repairs nobody is charged for |
| `previews` | pass | no process runs unrecorded, a READY record is served, the limit holds, but for the races named |

Each violation is a finding in `PROJECT.json`, with the sentence of the repository
it contradicts.

**Bounds.**

| Module | Instance | Why it is enough |
|---|---|---|
| `WorkItemLease` | one item, two agents, a tick and a loop, `MaxAttempts` 2, one fault (two items in `lease_two_workers`) | every pairing of a claim, a report, a keepalive and the reclaims of both kinds over one row, with a lease broken in each of the four ways; a first failure with a retry and a second without (382,852 states) |
| `RunScheduler` | a test item, a review that waits for it, code beside them; `MaxStalls` = `MaxResumes` = 1, one fault | the smallest graph with a blocked dependent, a rejecting review and work beside it; both counters reach their limit.  `sched_neverfail` has no retries, because with them its liveness is false (`sched_starved`); it has the spend guard, an operator's and a budget failure, so that a run paused for a stall is later paused for something else |
| `RecoveryPolicy` | frontend and backend, validation, review and tests, the last two optional; five texts; two workers; budgets 2 per item and per type, 4 per run, two repairs, one fault | every kind of recovery, failures that block and failures that do not, and every budget is reached (306,232 states) |
| `RunControl` | two parallel items and two in a row after them, two requests, two workers | a request overlaps one other; parallel items finish in either order; items fail the run, pause it or do no harm (2.3 million states) |
| `RunLaunch` | three requests, two under way at a time beside their tasks, two runs, a search window of two (200 in the code), one mishap | a repetition of each kind and a third that crosses it (983,031 states) |
| `EmbeddedRun` | four items, a repair, a soft failure, batches of two, two loops, two requests, one mishap | a cancel and a resume cross a loop at each of its steps (about 1.5 million states) |
| `RunBudget` | two workers, an item of recovery, answers of 2 against a budget of 3 and a reserve of 2, one answer per execution that cannot be parsed, one extension, one mishap | the second answer exceeds the budget, the reserve is used, every pair of copies overlaps, an answer nobody is charged for comes on top (4.9 million states) |
| `RunPreview` | two runs, two requests, limits 1 and 2, two starts, one mishap | launches of one run and of two, within the limit and at it (3.3 million states) |

`RunBudget` and `RunPreview` use the symmetry of their workers and requests: only
safety is checked there.  No liveness run uses symmetry.

**Deadlock** is checked in the lease runs.  Everywhere else a concluded run, or one
whose bounded requests are used up, stops.

**Fairness.** Faults, requests and cancels are never due.

* `WorkItemLease`: workers are started by their supervisor; `main` loops,
  `tick_worker` runs to its end (each executor has a timeout), the keepalive
  loops, the scheduler ticks every second, time passes.  The orchestrator's loop ends with
  its API process, so no round of it is due; a round that has begun is finished.
* `RunScheduler`: the tick, claims, reports and reclaims; workers that left come
  back, and silence lasts long enough to count.  Workers have to come back: with a
  blocking failure, runnable items and no workers the watchdog is skipped and the run
  waits.
* `RecoveryPolicy`: reports end, some claim and some reclaim happens.
* `RunControl`: some claim, execution or report goes on; the scheduler ticks.  Nothing is
  demanded of requests.
* `RunLaunch`: requests and tasks that nothing stops go on.
* `EmbeddedRun`: a task that lives goes on.

`RunBudget` and `RunPreview` state no fairness.

## 4. Proofs

The theorems hold for every value of the constants their modules' assumptions
allow: any set of items, workers, requests and edges, any bound.

| Theorem | Property |
|---|---|
| `WorkItemLease_proofs!TypeCorrect`, `Reclaimable` | `TypeOK`, `RunningIsReclaimable`, in every environment |
| `WorkItemLease_proofs!LeaseInvariant`, `Exclusive`, `Recorded` | `LeaseInv`, `ExclusiveExecution`, `HolderIsRecorded` of items whose lease was not broken |
| `WorkItemLease_proofs!FinalVerdicts`, `PaidRequeues` | `VerdictsAreFinal`, `RequeueIsPaidFor` of such items |
| `WorkItemLease_proofs!PromiseKept` | `KeepsThePromise`: the refinement of `WorkItemPromise` |
| `RunScheduler_proofs!TypeCorrect`, `TerminalStays` | `TypeOK`, `TerminalIsFinal` |
| `RunScheduler_proofs!LossesAreJustified`, `SupersededIsValidated`, `CalmCompletions` | `LossHasItsCause`, `SupersededWasValidated`, `CalmCompletionIsRight` |
| `RecoveryPolicy_proofs!TypeCorrect`, `BudgetsKept` | `TypeOK`, `BudgetsHold` |
| `RecoveryPolicy_proofs!DependentsAreKept`, `PaidRepairsAreUsed` | `DependentsFollow`, `RepairBringsRetry` |
| `RecoveryPolicy_proofs!GraphFollowed` | `FollowsTheGraph`: the refinement of `WorkGraph` |
| `RecoveryPolicy_proofs!RecoveryIsFinite` | `StepsAreUsedUp`, that `StepsLeft` is never negative, and what it is at first |
| `RunControl_proofs!ControlInvariant`, `TypeCorrect` | `ControlInv`, `TypeOK` |
| `RunControl_proofs!NoWorkIsLost`, `LatestApplies` | `WorkIsKept`, `LatestCheckpointApplies` |
| `RunControl_proofs!OneAtATime`, `CompletedStaysIdle`, `NobodyIsReset` | `OneExecutionEach`, `CompletedIsIdle`, `ResumeFindsNobody` |
| `RunLaunch_proofs!TypeCorrect`, `LaunchInvariant` | `TypeOK`, `LaunchInv` |
| `RunLaunch_proofs!AtMostOneOpenRun`, `GraphIsSeededOnce`, `RepeatsAreFound` | `OneOpenRun`, `SeededOnce`, `RepeatsFindTheRun` |
| `EmbeddedRun_proofs!TypeCorrect`, `OneAtATime` | `TypeOK`, `OneExecutionEach` |
| `EmbeddedRun_proofs!NothingTwice`, `RightVerdict` | `DoneOnce`, `VerdictIsRight` |
| `RunBudget_proofs!TypeCorrect`, `ChargesAreReal` | `TypeOK`, `NothingIsMadeUp` |
| `RunBudget_proofs!RefusalsArePaidFor`, `CalmExecutionKeeps` | `RefusalIsPaidFor`, `ExecutionKeepsToBudget` |
| `RunPreview_proofs!TypeCorrect`, `PreviewInvariant` | `TypeOK`, `PreviewInv` |
| `RunPreview_proofs!ProcessesAreKnown`, `ReadyTellsTheTruth`, `LimitHolds` | `NothingLeaks`, `ReadyIsServed`, `SlotsHold` |

Every safety property of a passing run is stated by one of them.  No run repeats
`RunningIsReclaimable`, `HolderIsRecorded`, `OneExecutionEach` of `RunControl` and what else
is stated only here.

**Assumptions.**  Besides the constants' assumptions of each module there is one:
`GraphAssumption` of `RecoveryPolicy` says that the graph a run starts with has no
repairs and at most one RUN_TESTS, as `generate_work_dag` makes it: so it is at first,
and a repair stands for no item of the graph ever after.  Nothing is assumed of the
deployment: the theorems about leases hold for any number of ticks and loops, for
keepalives that lapse and for local starts, and speak of the items that these did not
send astray.

**The arguments.**  None of the properties is inductive; each module's `Props` states
the strengthening, and TLC checked each of these before it was proved.

* *Leases.*  A reclaim may requeue a row from an old read, and a report writes over a
  row on the strength of columns read long before.  `LeaseInv` says that each of
  these reads is still true of an item whose lease was not broken: an execution is recorded in its row with a live lease;
  the rows a reclaimer remembers are running and nobody executes them; a busy
  context's agent is active, so its item is no orphan; what was loaded is what the
  row holds.  The refinement then maps each step to a step of `WorkItemPromise` or to
  a stutter.
* *Scheduler.*  `DecisionInv` and `ValidationsStay`: a failed row a tick has read
  stays failed and is none of the items it cancels, and a passed validation stays
  passed, so what the tick concludes from them is still so at its commit, however stale
  its other reads are.  `CalmReads`: in a tick nobody overlaps, all its reads hold.
* *Recovery budgets.*  The budgets are counted before they are spent.  `BudgetInv`
  counts a report that was admitted and has not spent as spent: each worker has at
  most one, and the last to be admitted was admitted within the limit, hence the
  overrun of one for each other worker; and nobody else spends for an item a worker
  executes.
* *Recovery graph.*  `LineageInv`: a repair is the only one of a failed row, which is
  of one of three types and which nothing supersedes before the repair's retry; the
  tests that are not superseded are one row; an ended row changes only by being
  superseded; and a repair spends only when it ends.  So a retry always finds the edges
  of what it replaces at exactly one row, whatever repairs are under way.
* *Recovery without rows.*  `GraphInv`: some row that is not superseded stands for each
  node, no row stands for two, and once a row has left the queue, all that its node waits
  for is done, excused, or being done again with it (`Passed`, `Redone`).  With `LineageInv` each step then is one node's step in `WorkGraph` or a
  stutter; that a failed node begins again only so often is `BudgetsHold`.
* *Recovery is finite.*  `StepsLeft` weighs what is left of the budgets and the faults, the
  rows in the queue and those that run, and what reports have still to do.  An attempt
  is recorded before anything is queued again or appended, so every step, retries and
  repairs included, lowers the sum.  Unlike `RecoveryEnds` this assumes no fairness: it
  bounds the steps for every graph, where the liveness of one instance is only checked.
* *Run control.*  `ControlInv`: what a request that no other overtook has read still
  holds when it writes (but that a push which left its commit behind may meanwhile
  complete a failed run); executions and checkpoints are numbered apart, so that one
  checkpoint is the latest; and every edit of a done item is committed, or in that
  checkpoint, and in the workspace if there is one.  A pull request that resets only what
  was pushed leaves it so; every other reset is a mishap.
* *Launch.*  `LaunchInv` has three parts: nothing is open while an uncrossed launch is about
  to insert; who bootstraps an uncrossed run does so alone and has found no graph;
  and a request past its search is the only one about its key while nobody has been
  answered, and the runs that bear a key are of one line.
* *Embedded run.*  `ExecutionInv`: from `Start` to the commit of its batch an item is
  held by one loop, and a repair's row, while it is new, belongs to whoever holds the item
  it repairs.  `AloneInv`: a success that was kept is DONE and in no batch, and what
  a loop found out about the queue and the failures still holds when it concludes.
* *Budget.*  `BudgetInv`: no copy is ever above what was charged or granted, and every
  copy has the limit granted unless an extension came while somebody held one; a
  calm worker is alone and sees in every copy exactly what it was charged
  (`CalmIsAlone`), so that what it was charged keeps to the budget
  (`ChargesKeepToBudget`); and whatever it spent uncharged is bounded by its answers that
  were not parsed, of which there are none before the first charge (`UnpaidIsUnparsed`).
* *Previews.*  `PreviewInv`: what was killed, and what a record does not call READY,
  stays dead; a process is the preview of one run, and of one request until that
  commits; a launch that was not overtaken has room left.

**What proof attempts showed.**  An older form of `RepeatsFindTheRun` held in
TLC's instance and is false in larger ones: two overlapping forks with one key, a
repetition, a keyless fork of the older of the two and another repetition give
two answers that are not related.  The property now excludes keys that were ever
crowded.  `DependentsFollow` and `RepairBringsRetry` turned out to depend on
`GraphAssumption`: the retry of tests selects every failed RUN_TESTS of the run, so a
graph with two would break them.

**Only model-checked.**  The liveness properties `EveryItemSettles`,
`AbandonedIsRequeued`, `RunConcludes`, `RecoveryEnds`, `OpenRunStops`,
`NobodyIsStranded` and `LoopEnds`: liveness under fairness and ENABLED are out of the
prover's reach.  Of `RecoveryEnds`, `RecoveryIsFinite` proves that nothing goes on for ever;
that what has begun is brought to its end is left to the run.

## 5. Plan

Done: the modules of section 2 and the proofs of section 4.  What is left:

1. Abstract specifications for more components, as `WorkItemPromise` is for the
   leases and `WorkGraph` for recovery: a run's life as seen by an operator,
   implemented by `RunScheduler` and `RunControl`.
2. Goal orchestration and the scheduler's requeue functions, which look at spawned
   items: they join `RunScheduler` and `RecoveryPolicy`.
3. The deployment daemon and the preview reconciler, as far as they keep state of
   their own.

Not modelled, and why:

* the *runtime lifecycle* is one guarded assignment per transition, by one writer,
  and its unit tests enumerate the table;
* the *in-memory run service* belongs to the first version of the API; no run the
  platform executes passes through it;
* the *SDLC state machine* of `core/` is a sequential library that no process calls at
  run time;
* the *codex executor* and its patch guard: what one execution does to a workspace with a
  language model is a nondeterministic verdict; its charges and refusals are in
  `RunBudget` and `EmbeddedRun`;
* *knowledge*, the *event log*, the *agent package* and the *web UI* decide nothing
  about a run.

## 6. Observations

What modelling, checking and proving brought to light beside the findings.  A
property above that names an exception names one of these.

**Leases and workers**

* `app/runtime/leases.py:70`: the guarded update of a reclaim repeats the test of the
  status and not that of the lease or holder.  The orchestrator's loop, an unblock or a
  confirm request reclaims beside the tick, and an item that was requeued and claimed
  again is taken from its new holder.  `lease_two_workers` shows it with tick and loop; the
  requests reclaim in one short transaction and are left out.
* The scheduler's nudge (`app/runtime/scheduler_service.py:223`) executes under an
  agent id that may be busy.
* `app/runtime/worker_service.py:231`: two tests of a run can be claimed at once,
  because NOT EXISTS is evaluated on a snapshot.
* The HTTP worker endpoints (`app/api/v1/persistence.py:6637-6850`) begin a transaction
  where their query has already opened one, and never commit.

**Scheduler**

* A run can be completed while an item executes: one that is claimed between the count
  of active items and that of queued ones is in neither.
* A budget failure never blocks (`app/services/work_item_state.py:39`), so it completes a
  run that `apps/api/tests/test_runtime_flow.py:4324` expects to be PAUSED.
* With `runtime_never_fail_runs` no run fails.  The automatic resume is meant for stall
  pauses, but goes by `summary.recovery_pause` (`app/runtime/scheduler_service.py:313`),
  which no resume clears and which the pauses for spend, budget and operator do not
  overwrite: a run once paused for a stall resumes from them too, as long as it has
  automatic resumes left.

**Recovery**

* The budgets of a run and of a failure type are overrun by up to one attempt for each
  further worker.
* Layout, zone and foundation failures, dependency failures and transient ones all
  fall into the failure type "unknown" and share its budget.
* FIX_ZONE_COMPOSITION, FIX_VISUAL_QUALITY and GENESIS_FOUNDATION items that are done
  bring no retry of what they repaired.
* A retry in place overwrites the `recovery_action` of the payload, which makes the
  item one of recovery for the budget and for superseding.
* Equal failures are counted by signature only where the executor raises.
* `_spawn_test_retry` (`app/runtime/recovery_policy.py:837`) selects superseded failures
  too; with one RUN_TESTS in a graph this does no harm.

**Run control**

* An unblock (`app/api/v1/persistence.py:4112`) looks for something runnable among rows
  it has not flushed; if it finds nothing, what it requeued is rolled back.
* Requests that overlap write what they read before the other opened the run.
* A pull request (`app/api/v1/persistence.py:4390`, `app/services/pr_service.py:174`,
  `app/services/repo_connector.py:504-528`) resets the workspace to the base or to what was
  pushed, whatever the status of the run and without a lock: edits of done items that no
  push has committed, and those of an execution under way, are gone.
* A discard does not ask whether somebody works in the workspace; a push commits it and so
  outdates the latest checkpoint; items done in the other order than they started
  leave an older checkpoint as the latest; a checkpoint that does not apply leaves the
  workspace reset.  These are the mishaps of `RunControlProps`.

**Launch**

* The gate (`app/services/run_launch.py:339`) counts open runs without a lock and ignores
  PAUSED ones.
* The key is written after the launch has committed, and a search goes back 200 runs:
  requests with one key that overlap can make two runs, and later repetitions are then
  answered with either.  `docs/architecture/tenant-auth-readiness-checklist.md:56` speaks
  of idempotence.
* A fork takes over the key of its source (`app/services/run_replay.py:32`) and drops
  every item with a mark of recovery; a retry in place leaves one on an item of the graph.
* The bootstrap in a request goes by the status its session has cached: a cancel
  since is overwritten by RUNNING (`app/runtime/orchestrator.py:245`).

**Embedded execution**

* The loop never sees a cancel: `session.get` returns the object it has
  (`app/runtime/orchestrator.py:434`, under the comment "refresh run status").
* Two loops overwrite each other's verdicts; a resumed run may be concluded by the loop
  from before; one may poll for ever for an item whose parent the other canceled.
* An executor that charges the run in a session of its own waits for a row its own loop has
  locked (`app/runtime/codex_executor.py:4689`), in every batch in which an earlier item
  updated the run; `docs/runtime-deploy.md:28` falls back to this mode "so runs do not
  remain queued forever on API-only deployments".
* An exception or a lost commit discards the successes of the whole batch, which is
  executed again.
* The limit on queued items is applied before their dependencies are looked at
  (`app/runtime/orchestrator.py:704`), so that items a failure does not block may be canceled
  as blocked.
* After a crash of the API process the run stays RUNNING with nobody to execute it.

**Budget**

* A report writes back the summary its worker loaded, and with it the ledger of that
  moment: charges made meanwhile are forgotten unless the execution raises or dies
  (`app/runtime/worker_service.py:165`, `app/runtime/execution_contract.py:924`).  The
  budget is in effect one for each execution; `docs/CODEX_BACKLOG.md:140` says "Decrement on
  execution; halt when exceeded."
* In the same way an extension is lost if an item executes meanwhile.
* An extension with `auto_resume` requeues only items stopped after an answer, not those
  turned away before the first (`app/runtime/codex_executor.py:1538`), while the UI says
  "Budget extended. Run resumed."; it does not raise the reserve.
* The cost of an answer of a repair that cannot be parsed is recorded nowhere, and the next
  one is asked for without a look at the budget
  (`app/runtime/codex_executor.py:4380-4440`, `4504-4552`, `4615-4663`): an execution may go
  beyond the budget by one answer for each.

**Previews**

* A launch kills the old preview first; if it then fails, the FAILED record is rolled
  back with the request (`app/api/v1/persistence.py:4482-4530`) and the READY record of the
  dead process keeps its slot until it expires or is deleted.  The tests that see FAILED
  (`apps/api/tests/test_preview_api.py`) share the session of the request.
* With a limit of one, the relaunch of a READY preview is refused, because it counts
  itself.
* A look kills an expired preview but never commits EXPIRED; there is no daemon, so an
  expired preview runs until somebody launches or looks.
* A cleanup kills the processes of STOPPED and EXPIRED records again at every launch; that
  process ids are reused is not modelled, nor is a fixed port, where a health check may be
  answered by another run's server.
* Two launches of one run leave the first process running unrecorded.

## 7. Running

    tlc -config Lease.cfg MCWorkItemLease
    tlc -config Sched_decides.cfg MCRunScheduler
    tlapm RunScheduler_proofs.tla

The remaining configurations are named after their runs; `PROJECT.json` gives the module of
each, the mutants that each property rejects, and the lines every definition models.
