------------------------------- MODULE RunLaunch -------------------------------
(***************************************************************************)
(* How the runs of a project come to be: requests that create, fork or     *)
(* resume one (persistence.py, run_launch.py, run_replay.py), and the      *)
(* bootstrap that makes a run RUNNING and seeds its graph of work items    *)
(* (orchestrator.py), once in the request and once more in the task the    *)
(* request schedules.                                                      *)
(*                                                                         *)
(* A request commits several times and others run in between, in this or   *)
(* in another API process.  Its session keeps the run as it was last       *)
(* refreshed: the bootstrap of a request locks the row and goes by that    *)
(* older status, while a scheduled task starts with a new session.         *)
(*                                                                         *)
(* The graph of a run is how many times it was seeded or copied.  What     *)
(* happens to a run that has one is the subject of the other modules: here *)
(* it is concluded or paused.  runtime_never_fail_runs is off.             *)
(***************************************************************************)
EXTENDS Integers, Sequences, FiniteSets

CONSTANTS
    CreateKeys,  \* request keys of clients that create a run
    ForkKeys,    \* request keys of clients that fork one
    NoKey,       \* a request without a key
    Window,      \* how many runs a search for a key goes back
    MaxCalls,    \* bound on requests
    MaxPending,  \* bound on requests and tasks under way when another arrives
    MaxRuns,     \* bound on runs
    MaxMishaps   \* bound on runs that others conclude or pause, and on requests
                 \* and tasks that raise or die with their process

ASSUME ConstantsAssumption ==
    /\ CreateKeys \cap ForkKeys = {}
    /\ NoKey \notin CreateKeys \cup ForkKeys
    /\ Window \in Nat
    /\ MaxCalls \in Nat
    /\ MaxPending \in Nat
    /\ MaxRuns \in Nat
    /\ MaxMishaps \in Nat

VARIABLES
    run,       \* the runs rows of the project, in order of creation
    calls,     \* requests so far
    pending,   \* the requests and tasks under way, with what they have read
    answered,  \* the answers to requests with a key
    crowded,   \* the keys, each with the run to fork, that a request came with while
               \* another had it and nobody had been answered
    stops,
    faults

vars == <<run, calls, pending, answered, crowded, stops, faults>>

Keys == CreateKeys \cup ForkKeys
Ids == 1 .. Len(run)
NoId == 0

Open == {"QUEUED", "RUNNING"}
Stopped == {"FAILED", "CANCELED", "PAUSED"}
Concluded == {"COMPLETED", "FAILED", "CANCELED"}

\* Of the summary: key is request_key, scope is fork_source_run_id.  The others are
\* records for the properties: line, the run that this one has its key from by
\* forks of forks, else itself; asked, that a bootstrap was asked for; opened, how
\* the run was last opened; crossed, that a resume opened it, or the run it was
\* copied from, while another request or task was about it.
Row(status, key, scope, line, graph, asked, opened, crossed) ==
    [status |-> status, key |-> key, scope |-> scope, line |-> line, graph |-> graph,
     asked |-> asked, opened |-> opened, crossed |-> crossed]

Init ==
    /\ run = <<>>
    /\ calls = 0
    /\ pending = {}
    /\ answered = {}
    /\ crowded = {}
    /\ stops = 0
    /\ faults = 0

IsOpen(i) == run[i].status \in Open
RunningRuns == {i \in Ids : run[i].status = "RUNNING"}
OpenRuns == {i \in Ids : IsOpen(i)}

-----------------------------------------------------------------------------
(* Requests.                                                               *)

\* starts says whether the run is to be bootstrapped; run is the run it made
\* or resumes, seen its status in the session.  fresh: no run was opened since it
\* counted those open.
Call(kind, key, scope, starts, next, i) ==
    [id |-> calls, kind |-> kind, key |-> key, scope |-> scope, starts |-> starts,
     next |-> next, run |-> i, seen |-> "-", fresh |-> TRUE]

\* What a request or an answer is about, if it has a key.
About(r) == <<r.key, r.scope>>
Repeats(call) ==
    /\ call.key # NoKey
    /\ \E r \in pending : About(r) = About(call)
    /\ \A a \in answered : About(a) # About(call)

Arrives(call) ==
    /\ calls < MaxCalls
    /\ Cardinality(pending) < MaxPending
    /\ calls' = calls + 1
    /\ pending' = pending \cup {call}
    /\ crowded' = IF Repeats(call) THEN crowded \cup {About(call)} ELSE crowded
    /\ UNCHANGED <<run, answered, stops, faults>>

\* create_run; without a key, the routes of a structural change and of a vision
\* run too, and the latter may leave the run for later.
Create(key, starts) ==
    Arrives(Call("create", key, NoId, starts, IF key = NoKey THEN "count" ELSE "find", NoId))

\* fork_existing_run, and strategies, whose forks have no key.
Fork(i, key, starts) ==
    Arrives(Call("fork", key, i, starts, IF key = NoKey THEN "insert" ELSE "find", NoId))

\* resume_existing_run: RunControl has what it reads and writes.
Resume(i, starts) ==
    /\ run[i].status \in Stopped
    /\ Arrives(Call("resume", NoKey, NoId, starts, "reopen", i))

Stops(i, outcomes) ==
    /\ IsOpen(i)
    /\ stops + faults < MaxMishaps
    /\ stops' = stops + 1
    /\ \E status \in outcomes : run' = [run EXCEPT ![i].status = status]
    /\ UNCHANGED <<calls, pending, answered, crowded, faults>>

\* patch_run_status
Cancel(i) == Stops(i, {"CANCELED"})

\* Executors and the scheduler.
Stop(i) ==
    /\ run[i].graph > 0
    /\ Stops(i, {"COMPLETED", "FAILED", "PAUSED"})

Becomes(r, new) == pending' = (pending \ {r}) \cup new
Goes(r, next) == Becomes(r, {[r EXCEPT !.next = next]})
Ends(r) == Becomes(r, {})

\* r becomes new while a run becomes open: who has counted before is mistaken.
Opens(r, new) ==
    pending' = {[q EXCEPT !.fresh = q.next # "insert"] : q \in pending \ {r}} \cup new

\* Without a key there is nothing more to do.
ToAnswer(r) == IF r.key = NoKey THEN {} ELSE {[r EXCEPT !.next = "key"]}
ToBootstrap(r) == IF r.starts THEN {[r EXCEPT !.next = "refresh"]} ELSE ToAnswer(r)

Answers(r, i) ==
    answered' = answered \cup {[key |-> r.key, scope |-> r.scope, run |-> i]}

-----------------------------------------------------------------------------
(* Finding the run of a key, and making one.                               *)

Recent == {i \in Ids : i > Len(run) - Window}
Named(r) == {i \in Recent : run[i].key = r.key /\ (r.kind = "fork" => run[i].scope = r.scope)}
Latest(S) == CHOOSE i \in S : \A j \in S : j <= i

\* _find_run_by_request_key, before anything else ...
Find(r) ==
    /\ r.next = "find"
    /\ IF Named(r) # {}
       THEN /\ Answers(r, Latest(Named(r)))
            /\ Ends(r)
       ELSE /\ Goes(r, IF r.kind = "fork" THEN "insert" ELSE "count")
            /\ UNCHANGED answered
    /\ UNCHANGED <<run, calls, crowded, stops, faults>>

\* launch_run_for_project counts the open runs, without a lock ...
CountOpen(r) ==
    /\ r.next = "count"
    /\ IF OpenRuns = {}
       THEN Becomes(r, {[r EXCEPT !.next = "insert", !.fresh = TRUE]})
       ELSE IF r.key = NoKey THEN Ends(r) ELSE Goes(r, "find_again")
    /\ UNCHANGED <<run, calls, answered, crowded, stops, faults>>

\* ... and if there is one, the key may be its by now.
FindAgain(r) ==
    /\ r.next = "find_again"
    /\ IF Named(r) # {} THEN Answers(r, Latest(Named(r))) ELSE UNCHANGED answered
    /\ Ends(r)
    /\ UNCHANGED <<run, calls, crowded, stops, faults>>

\* The row of a new run has no key yet.
NewRun(r, status) ==
    Row(status, NoKey, NoId, Len(run) + 1, 0, r.starts,
        IF r.fresh THEN "launch" ELSE "overlap", FALSE)

\* The row of a fork has its key, or else all that its source had; of the items
\* of the source those that bear a mark of recovery are not copied.
ForkRow(r, graph) ==
    LET from == run[r.scope]
    IN  IF r.key = NoKey
        THEN Row("QUEUED", from.key, from.scope, from.line, graph, r.starts, "fork", from.crossed)
        ELSE Row("QUEUED", r.key, r.scope, Len(run) + 1, graph, r.starts, "fork", from.crossed)

InsertFailed(r) ==
    /\ r.next = "insert"
    /\ r.kind = "create"
    /\ Len(run) < MaxRuns
    /\ run' = Append(run, NewRun(r, "FAILED"))
    /\ Becomes(r, ToAnswer([r EXCEPT !.run = Len(run) + 1, !.fresh = TRUE]))
    /\ UNCHANGED <<calls, answered, crowded, stops, faults>>

Insert(r) ==
    /\ r.next = "insert"
    /\ Len(run) < MaxRuns
    /\ \E graph \in (IF r.kind = "fork" THEN {0, run[r.scope].graph} ELSE {0}) :
          run' = Append(run, IF r.kind = "fork" THEN ForkRow(r, graph) ELSE NewRun(r, "QUEUED"))
    /\ Opens(r, ToBootstrap([r EXCEPT !.run = Len(run) + 1, !.fresh = TRUE]))
    /\ UNCHANGED <<calls, answered, crowded, stops, faults>>

\* A resume writes QUEUED whatever the run has become.
Reopen(r) ==
    /\ r.next = "reopen"
    /\ run' = [run EXCEPT ![r.run].status = "QUEUED", ![r.run].asked = r.starts,
                          ![r.run].opened = "resume",
                          ![r.run].crossed = @ \/ \E q \in pending \ {r} : q.run = r.run]
    /\ Opens(r, ToBootstrap(r))
    /\ UNCHANGED <<calls, answered, crowded, stops, faults>>

-----------------------------------------------------------------------------
(* bootstrap_in_session.                                                   *)

\* A scheduled task has a session of its own.
Status(r) == IF r.kind = "start" THEN run[r.run].status ELSE r.seen

Refresh(r) ==
    /\ r.next = "refresh"
    /\ Becomes(r, {[r EXCEPT !.next = "lock", !.seen = run[r.run].status]})
    /\ UNCHANGED <<run, calls, answered, crowded, stops, faults>>

\* When all is done a task goes on to drive the run (EmbeddedRun).
Leaves(r, next) ==
    Becomes(r, IF next = "hand_over" /\ r.kind = "start" THEN {}
               ELSE {[r EXCEPT !.next = next, !.seen = "-"]})

\* A concluded run is left alone, and there is nothing more to bootstrap ...
LockConcluded(r) ==
    /\ r.next = "lock"
    /\ Status(r) \in Concluded
    /\ Leaves(r, "hand_over")
    /\ UNCHANGED <<run, calls, answered, crowded, stops, faults>>

\* ... a workspace that cannot be prepared fails the run ...
LockUnfailed(r) ==
    /\ r.next = "lock"
    /\ Status(r) \notin Concluded
    /\ Leaves(r, "hand_over")
    /\ UNCHANGED <<run, calls, answered, crowded, stops, faults>>

LockBroken(r) ==
    /\ r.next = "lock"
    /\ Status(r) \notin Concluded
    /\ run' = [run EXCEPT ![r.run].status = "FAILED"]
    /\ Leaves(r, "hand_over")
    /\ UNCHANGED <<calls, answered, crowded, stops, faults>>

\* ... and a QUEUED run becomes RUNNING; if the session was behind, this opens a
\* run that was concluded since.
Lock(r) ==
    /\ r.next = "lock"
    /\ Status(r) \notin Concluded
    /\ IF Status(r) = "QUEUED" /\ ~IsOpen(r.run)
       THEN /\ run' = [run EXCEPT ![r.run].status = "RUNNING", ![r.run].opened = "stale"]
            /\ Opens(r, {[r EXCEPT !.next = "check", !.seen = "-"]})
       ELSE /\ run' = IF Status(r) = "QUEUED" THEN [run EXCEPT ![r.run].status = "RUNNING"]
                      ELSE run
            /\ Leaves(r, "check")
    /\ UNCHANGED <<calls, answered, crowded, stops, faults>>

\* The lock is gone by now.  generate_template_dag looks once more.
CheckNothing(r) ==
    /\ r.next \in {"check", "generate"}
    /\ Leaves(r, IF r.next = "check" THEN "generate" ELSE "seed")
    /\ UNCHANGED <<run, calls, answered, crowded, stops, faults>>

CheckItems(r) ==
    /\ r.next \in {"check", "generate"}
    /\ Leaves(r, IF run[r.run].graph > 0 THEN "hand_over"
                 ELSE IF r.next = "check" THEN "generate" ELSE "seed")
    /\ UNCHANGED <<run, calls, answered, crowded, stops, faults>>

\* The graph is written.  A task that is too large for one fails its run here
\* instead (TaskScopeError), which is left out.
Seed(r) ==
    /\ r.next = "seed"
    /\ run' = [run EXCEPT ![r.run].graph = @ + 1]
    /\ Leaves(r, "hand_over")
    /\ UNCHANGED <<calls, answered, crowded, stops, faults>>

-----------------------------------------------------------------------------
(* After the bootstrap.                                                    *)

TaskUnflushed(r) ==
    [r EXCEPT !.kind = "start", !.key = NoKey, !.scope = NoId, !.run = NoId, !.next = "lock"]

\* _schedule_orchestrator_start: whatever came of the bootstrap.
Task(r) ==
    [r EXCEPT !.kind = "start", !.key = NoKey, !.scope = NoId, !.next = "lock"]

HandOver(r) ==
    /\ r.next = "hand_over"
    /\ Becomes(r, {Task(r)} \cup ToAnswer(r))
    /\ UNCHANGED <<run, calls, answered, crowded, stops, faults>>

\* create_run records the key when all is done, then answers.
KeyOnlyAnswered(r) == UNCHANGED run
KeyWritten(r) ==
    run' = IF r.kind = "create" THEN [run EXCEPT ![r.run].key = r.key] ELSE run

WriteKey(r) ==
    /\ r.next = "key"
    /\ KeyWritten(r)
    /\ Answers(r, r.run)
    /\ Ends(r)
    /\ UNCHANGED <<calls, crowded, stops, faults>>

\* Its process dies, or something raises: what it has committed remains.
Die(r) ==
    /\ stops + faults < MaxMishaps
    /\ faults' = faults + 1
    /\ Ends(r)
    /\ UNCHANGED <<run, calls, answered, crowded, stops>>

-----------------------------------------------------------------------------
Request ==
    \/ \E key \in CreateKeys : Create(key, TRUE)
    \/ \E starts \in BOOLEAN : Create(NoKey, starts)
    \/ \E i \in Ids, key \in ForkKeys \cup {NoKey}, starts \in BOOLEAN : Fork(i, key, starts)
    \/ \E i \in Ids, starts \in BOOLEAN : Resume(i, starts)

Bootstrap(r) ==
    Refresh(r) \/ LockConcluded(r) \/ LockBroken(r) \/ Lock(r) \/ CheckItems(r) \/ Seed(r)

Serve(r) ==
    \/ Find(r) \/ CountOpen(r) \/ FindAgain(r)
    \/ InsertFailed(r) \/ Insert(r) \/ Reopen(r)
    \/ Bootstrap(r)
    \/ HandOver(r) \/ WriteKey(r)

Next ==
    \/ Request
    \/ \E i \in Ids : Cancel(i) \/ Stop(i)
    \/ \E r \in pending : Serve(r) \/ Die(r)

Spec == Init /\ [][Next]_vars

\* Requests and tasks that nothing stops go on.
FairSpec == Spec /\ WF_vars(\E r \in pending : Serve(r))
=============================================================================
