------------------------------ MODULE EmbeddedRun ------------------------------
(***************************************************************************)
(* RunOrchestrator.start with no live worker (orchestrator.py): the task   *)
(* that bootstrapped a run executes its work items itself, in the API      *)
(* process.  A loop takes a batch of runnable items, executes them one     *)
(* after another and commits what came of all of them at its next turn;    *)
(* until then nobody else sees any of it, but its row locks are held.      *)
(*                                                                         *)
(* An operator may cancel the run and resume it, which starts another loop *)
(* although the one before may still be at work: its session reads the row *)
(* of the run once and then keeps it (session.get, expire_on_commit off),  *)
(* until a rollback.                                                       *)
(*                                                                         *)
(* Locks are those of PostgreSQL.  An event takes the key of the run's row *)
(* FOR KEY SHARE, an update of its summary FOR NO KEY UPDATE, a conclusion *)
(* and a cancel FOR UPDATE.  The requests are single steps (RunControl and *)
(* RunLaunch have their reads apart); recovery is a retry in place, or one *)
(* repair that replaces the failed item (RecoveryPolicy has the rest).     *)
(* There is no worker and no scheduler: the deployment of web and api only.*)
(***************************************************************************)
EXTENDS Integers, FiniteSets

CONSTANTS
    Items,        \* the work items, numbered by priority, then creation
    Edges,        \* <<from, to>>: to waits for from
    RepairOf,     \* a function: of some items, the item that replaces it
    Soft,         \* items whose failure does not block (is_non_blocking_failure)
    Asking,       \* items whose execution asks a language model
    Batch,        \* max_workitem_concurrency
    MaxAttempts,  \* max_attempts
    MaxLoops,     \* bound on the tasks that drive the run
    MaxCalls,     \* bound on the operator's requests
    MaxMishaps    \* bound on lost commits and on tasks that die

ASSUME ConstantsAssumption ==
    /\ Items \subseteq Nat \ {0}
    /\ Edges \subseteq Items \X Items
    /\ DOMAIN RepairOf \subseteq Items
    /\ \A i \in DOMAIN RepairOf : RepairOf[i] \in Items \ DOMAIN RepairOf
    /\ \A i, j \in DOMAIN RepairOf : RepairOf[i] = RepairOf[j] => i = j
    /\ Soft \subseteq Items
    /\ Asking \subseteq Items
    /\ Batch \in Nat \ {0}
    /\ MaxAttempts \in Nat \ {0}
    /\ MaxLoops \in Nat \ {0}
    /\ MaxCalls \in Nat
    /\ MaxMishaps \in Nat

VARIABLES
    run,      \* the status of the run's row
    item,     \* the work_items rows, as committed
    loop,     \* the tasks
    calls,    \* requests so far
    mishaps,  \* lost commits and dead tasks so far
    crossed,  \* two tasks have driven the run at the same time; until then:
    done,     \* the items executed successfully since they were last asked for
    redone,   \* those so executed once more
    undone    \* those whose success a rollback or a lost commit discarded

vars == <<run, item, loop, calls, mishaps, crossed, done, redone, undone>>
bounds == <<calls, mishaps>>
history == <<crossed, done, redone, undone>>

Loops == 1 .. MaxLoops
Concluded == {"COMPLETED", "FAILED", "CANCELED"}
Repairs == {RepairOf[i] : i \in DOMAIN RepairOf}

\* at: what the task does next; seen: the status in its session; rest: the batch;
\* own: the rows it has changed and not committed; synced: it has updated the run;
\* asking: its executor has asked a model.
Row(status) == [status |-> status, attempt |-> 0]
NoRow == Row("-")
Nothing == [i \in Items |-> NoRow]

Turn(seen) ==
    [at |-> "top", seen |-> seen, queued |-> FALSE, failed |-> FALSE,
     rest |-> {}, own |-> Nothing, synced |-> FALSE, asking |-> FALSE]
Off == [Turn("-") EXCEPT !.at = "off"]

Init ==
    /\ run = "RUNNING"
    /\ item = [i \in Items |-> Row(IF i \in Repairs THEN "NONE" ELSE "QUEUED")]
    /\ loop = [l \in Loops |-> IF l = 1 THEN Turn("RUNNING") ELSE Off]
    /\ calls = 0
    /\ mishaps = 0
    /\ crossed = FALSE
    /\ done = {}
    /\ redone = {}
    /\ undone = {}

-----------------------------------------------------------------------------
(* Rows and locks.                                                         *)

Is(status) == {i \in Items : item[i].status = status}
Blocks(i) == item[i].status = "FAILED" /\ i \notin Soft
Satisfied(i) == item[i].status \in {"DONE", "SUPERSEDED", "NONE"} \/ (item[i].status = "FAILED" /\ i \in Soft)
DependenciesMet(i) == \A e \in Edges : e[2] = i => Satisfied(e[1])

Held(l) == {i \in Items : loop[l].own[i] # NoRow}
Others(l) == Loops \ {l}

\* Whom l waits for, if it needs these locks.
NobodyForItem(l, i) == {}
ForItem(l, i) == {m \in Others(l) : i \in Held(m)}
ForSummary(l) == {m \in Others(l) : loop[m].synced}
ForRun(l) == {m \in Others(l) : Held(m) # {}}

\* The next of the batch.
First(S) == CHOOSE i \in S : \A j \in S : i <= j
Current(l) == First(loop[l].rest)
Rest(l) == loop[l].rest \ {Current(l)}

\* An event and an update in one: what the task at this point waits for.
WaitsFor(l) ==
    CASE loop[l].at \in {"start", "cancel"} -> ForItem(l, Current(l))
      [] loop[l].at = "execute" -> IF loop[l].asking THEN {} ELSE ForSummary(l)
      [] loop[l].at = "raised" -> ForItem(l, Current(l)) \cup ForSummary(l)
      [] loop[l].at = "finalize" -> ForRun(l)
      [] OTHER -> {}

Becomes(l, turn) == loop' = [loop EXCEPT ![l] = turn]

CommitsFailures(l) ==
    item' = [i \in Items |-> IF i \in Held(l) /\ loop[l].own[i].status # "DONE" THEN loop[l].own[i] ELSE item[i]]
Commits(l) == item' = [i \in Items |-> IF i \in Held(l) THEN loop[l].own[i] ELSE item[i]]

\* What a rollback discards.
Discards(l) ==
    /\ undone' = IF crossed THEN undone ELSE undone \cup {i \in Held(l) : loop[l].own[i].status = "DONE"}
    /\ UNCHANGED <<crossed, done, redone>>

-----------------------------------------------------------------------------
(* The loop.                                                               *)

\* It commits, and goes by the status it once read.
Top(l) ==
    /\ loop[l].at = "top"
    /\ Commits(l)
    /\ Becomes(l, [Turn(loop[l].seen) EXCEPT
                      !.at = IF loop[l].seen \in Concluded THEN "finalize" ELSE "count"])
    /\ UNCHANGED <<run, bounds, history>>

\* Nothing is committed RUNNING here, so there are no active items to count.
Count(l) ==
    /\ loop[l].at = "count"
    /\ Becomes(l, [loop[l] EXCEPT !.at = "failures", !.queued = Is("QUEUED") # {}])
    /\ UNCHANGED <<run, item, bounds, history>>

Failures(l) ==
    /\ loop[l].at = "failures"
    /\ Becomes(l, [loop[l] EXCEPT !.queued = FALSE,
                                  !.failed = \E i \in Items : Blocks(i),
                                  !.at = IF loop[l].queued THEN "select" ELSE "finalize"])
    /\ UNCHANGED <<run, item, bounds, history>>

\* _runnable_queued_items: the first of the queue, and of those the runnable.
FirstQueued == {i \in Is("QUEUED") : Cardinality({j \in Is("QUEUED") : j < i}) < Batch}
Runnable == {i \in FirstQueued : DependenciesMet(i)}

PatientSelect(l) ==
    /\ loop[l].at = "select"
    /\ Becomes(l, [loop[l] EXCEPT !.rest = Runnable, !.at = IF Runnable # {} THEN "start" ELSE "top"])
    /\ UNCHANGED <<run, item, bounds, history>>

\* With nothing to run it gives up if something failed, or sleeps.
Select(l) ==
    /\ loop[l].at = "select"
    /\ Becomes(l, [loop[l] EXCEPT !.rest = Runnable,
                                  !.at = IF Runnable # {} THEN "start"
                                         ELSE IF loop[l].failed THEN "blocked" ELSE "top"])
    /\ UNCHANGED <<run, item, bounds, history>>

\* _cancel_terminally_blocked_items: all that are queued, as they were read.
Blocked(l) ==
    /\ loop[l].at = "blocked"
    /\ Becomes(l, [loop[l] EXCEPT !.rest = Is("QUEUED"),
                                  !.at = IF Is("QUEUED") = {} THEN "finalize" ELSE "cancel"])
    /\ UNCHANGED <<run, item, bounds, history>>

CancelBlocked(l) ==
    /\ loop[l].at = "cancel"
    /\ ForItem(l, Current(l)) = {}
    /\ Becomes(l, [loop[l] EXCEPT
                      !.own[Current(l)] = [item[Current(l)] EXCEPT !.status = "CANCELED"],
                      !.rest = Rest(l),
                      !.at = IF Rest(l) = {} THEN "finalize" ELSE "cancel"])
    /\ UNCHANGED <<run, item, bounds, history>>

HopefulVerdict(l) == IF loop[l].seen = "CANCELED" THEN "CANCELED" ELSE "COMPLETED"
Verdict(l) ==
    IF loop[l].failed THEN "FAILED" ELSE IF loop[l].seen = "CANCELED" THEN "CANCELED" ELSE "COMPLETED"

\* A run that someone concluded keeps its status.
Finalize(l) ==
    /\ loop[l].at = "finalize"
    /\ ForRun(l) = {}
    /\ run' = IF run \in Concluded THEN run ELSE Verdict(l)
    /\ Commits(l)
    /\ Becomes(l, Off)
    /\ UNCHANGED <<bounds, history>>

-----------------------------------------------------------------------------
(* _process_work_item                                                      *)

\* It is the item's row by its key that is updated, whatever its status.
Start(l) ==
    /\ loop[l].at = "start"
    /\ ForItem(l, Current(l)) = {}
    /\ Becomes(l, [loop[l] EXCEPT
                      !.own[Current(l)] = [item[Current(l)] EXCEPT !.status = "RUNNING"],
                      !.at = "execute"])
    /\ UNCHANGED <<run, item, bounds, history>>

\* What is left of the batch, with these rows changed.
AfterItem(l, own) ==
    [loop[l] EXCEPT !.own = own, !.synced = TRUE, !.asking = FALSE, !.failed = FALSE,
                    !.rest = Rest(l),
                    !.at = IF Rest(l) = {} THEN "top" ELSE "start"]

\* The executor records what a model's answer cost in a session of its own,
\* which waits for whoever has updated the run: for this very task, if an item
\* of the batch was finished before.
Ask(l) ==
    /\ loop[l].at = "execute"
    /\ ~loop[l].asking
    /\ Current(l) \in Asking
    /\ Becomes(l, [loop[l] EXCEPT !.asking = TRUE])
    /\ UNCHANGED <<run, item, bounds, history>>

Recorded(l) == loop[l].asking => \A m \in Loops : ~loop[m].synced

Done(l) ==
    /\ loop[l].at = "execute"
    /\ Recorded(l)
    /\ ForSummary(l) = {}
    /\ LET i == Current(l)
       IN  /\ Becomes(l, AfterItem(l, [loop[l].own EXCEPT ![i].status = "DONE"]))
           /\ done' = IF crossed THEN done ELSE done \cup {i}
           /\ redone' = IF crossed THEN redone ELSE redone \cup ({i} \cap done)
    /\ UNCHANGED <<run, item, bounds, crossed, undone>>

RecoveredOnceMore(own, i, row) ==
    {[own EXCEPT ![i] = [row EXCEPT !.status = "FAILED"]]}
    \cup (IF row.attempt < MaxAttempts
          THEN {[own EXCEPT ![i] = [status |-> "QUEUED", attempt |-> row.attempt + 1]]} ELSE {})

\* maybe_apply_recovery of item i, whose row is this: what becomes of the rows.
Recovered(own, i, row) ==
    {[own EXCEPT ![i] = [row EXCEPT !.status = "FAILED"]]}
    \cup (IF row.attempt + 1 < MaxAttempts
          THEN {[own EXCEPT ![i] = [status |-> "QUEUED", attempt |-> row.attempt + 1]]} ELSE {})
    \cup (IF i \in DOMAIN RepairOf /\ item[RepairOf[i]].status = "NONE"
          THEN {[own EXCEPT ![i] = [row EXCEPT !.status = "SUPERSEDED"],
                            ![RepairOf[i]] = Row("QUEUED")]} ELSE {})

Fail(l) ==
    /\ loop[l].at = "execute"
    /\ Recorded(l)
    /\ ForSummary(l) = {}
    /\ \E own \in Recovered(loop[l].own, Current(l), loop[l].own[Current(l)]) :
          Becomes(l, AfterItem(l, own))
    /\ UNCHANGED <<run, item, bounds, history>>

\* Something raises: the rollback discards what the batch did so far.
Raise(l) ==
    /\ loop[l].at \in {"start", "execute"}
    /\ Recorded(l)
    /\ Discards(l)
    /\ Becomes(l, [loop[l] EXCEPT !.at = "raised", !.own = Nothing, !.synced = FALSE,
                                  !.asking = FALSE])
    /\ UNCHANGED <<run, item, bounds>>

\* The item has failed, whatever its row is by now, and the run is read again.
Recover(l) ==
    /\ loop[l].at = "raised"
    /\ WaitsFor(l) = {}
    /\ \E own \in Recovered(loop[l].own, Current(l), item[Current(l)]) :
          Becomes(l, [AfterItem(l, own) EXCEPT !.seen = run])
    /\ UNCHANGED <<run, item, bounds, history>>

-----------------------------------------------------------------------------
(* What goes wrong.                                                        *)

\* The connection is lost in the commit, a transient error: the loop goes on.
LoseCommit(l) ==
    /\ loop[l].at = "top"
    /\ Held(l) # {}
    /\ mishaps < MaxMishaps
    /\ mishaps' = mishaps + 1
    /\ Discards(l)
    /\ Becomes(l, Turn(run))
    /\ UNCHANGED <<run, item, calls>>

\* Its process dies, or an error that is not transient ends it.
Ends(l) ==
    /\ Discards(l)
    /\ Becomes(l, Off)
    /\ UNCHANGED <<run, item, calls>>

Die(l) ==
    /\ loop[l].at # "off"
    /\ mishaps < MaxMishaps
    /\ mishaps' = mishaps + 1
    /\ Ends(l)

\* PostgreSQL ends a cycle of waits by an error in one of them.
Cycle(l) == \E m \in WaitsFor(l) : l \in WaitsFor(m)

BreakCycle(l) ==
    /\ Cycle(l)
    /\ loop[l].at \notin {"start", "execute"}
    /\ Ends(l)
    /\ UNCHANGED mishaps

-----------------------------------------------------------------------------
(* The operator.                                                           *)

Requests ==
    /\ calls < MaxCalls
    /\ calls' = calls + 1
    /\ UNCHANGED mishaps

\* patch_run_status skips a row that is locked, and then refuses.
Cancel ==
    /\ Requests
    /\ run \notin Concluded
    /\ \A l \in Loops : Held(l) = {}
    /\ run' = "CANCELED"
    /\ UNCHANGED <<item, loop, history>>

\* resume_existing_run in its default mode (RunControl has the others).
Asked == Is("QUEUED") \cup Is("CANCELED") \cup {i \in Items : Blocks(i)}

Resume(l) ==
    /\ Requests
    /\ run \in {"FAILED", "CANCELED"}
    /\ loop[l] = Off
    /\ \A m \in Loops : ~loop[m].synced /\ Held(m) \cap Asked = {}
    /\ item' = [i \in Items |-> IF i \in Asked THEN [item[i] EXCEPT !.status = "QUEUED"] ELSE item[i]]
    /\ run' = "RUNNING"
    /\ Becomes(l, Turn("RUNNING"))
    /\ crossed' = (crossed \/ \E m \in Others(l) : loop[m].at # "off")
    /\ done' = IF crossed' THEN {} ELSE done \ Asked
    /\ redone' = IF crossed' THEN {} ELSE redone \ Asked
    /\ undone' = IF crossed' THEN {} ELSE undone

-----------------------------------------------------------------------------
Step(l) ==
    \/ Top(l) \/ Count(l) \/ Failures(l) \/ Select(l)
    \/ Blocked(l) \/ CancelBlocked(l) \/ Finalize(l)
    \/ Start(l) \/ Ask(l) \/ Done(l) \/ Fail(l) \/ Raise(l) \/ Recover(l)
    \/ BreakCycle(l)

Next ==
    \/ \E l \in Loops : Step(l) \/ LoseCommit(l) \/ Die(l) \/ Resume(l)
    \/ Cancel

Spec == Init /\ [][Next]_vars

\* A task that lives goes on: executions end and locks are granted.
FairSpec == Spec /\ \A l \in Loops : WF_vars(Step(l))
=============================================================================
