------------------------------ MODULE RunPreview ------------------------------
(***************************************************************************)
(* Previews of runs (preview_service.py and their routes in                *)
(* persistence.py): a request starts a web server on the workspace of a    *)
(* completed run and keeps its process id in run.summary.                  *)
(*                                                                         *)
(* Processes are started and killed at once; what is written about them    *)
(* becomes visible with the commit, or is rolled back when the request     *)
(* raises: the session is then closed without one.  Between the reading of *)
(* a record and its commit lie builds of minutes, and the record is        *)
(* written back whole.  A row that a request has flushed is locked until   *)
(* it ends.                                                                *)
(*                                                                         *)
(* Left out: a pull request (pr_service.py:280) and a retried push         *)
(* (run_delivery.py:91), which also write the whole summary of a completed *)
(* run back, and with it the record of a preview as they have read it.     *)
(*                                                                         *)
(* A preview is one process, named by the number of its start: process ids *)
(* are not reused.  All runs belong to one project.  The time at which a   *)
(* preview expires belongs to its start, so due is a set of processes.     *)
(***************************************************************************)
EXTENDS Integers, FiniteSets

CONSTANTS
    Runs,         \* runs, numbered in the order in which a flush writes them
    Requests,     \* requests that can be under way at once
    Limits,       \* values of max_previews_per_project, or preview_max_per_project
    MaxStarts,    \* bound on processes started
    MaxMishaps    \* bound on processes that exit and on requests that are lost

ASSUME ConstantsAssumption ==
    /\ Runs \subseteq Nat
    /\ IsFiniteSet(Runs)
    /\ IsFiniteSet(Requests)
    /\ Limits \subseteq Nat
    /\ MaxStarts \in Nat
    /\ MaxMishaps \in Nat

VARIABLES
    record,   \* run.summary["preview"] as committed
    req,      \* the requests, with what their sessions read and wrote
    starts,   \* processes started so far
    alive,    \* processes that run
    due,      \* processes whose preview has expired
    mishaps,
    astray,   \* processes that may run with no record of them
    gone,     \* processes that may be gone although a record says READY
    crowded,  \* a preview became READY after another request had counted
    limit     \* of previews of the project, which nobody changes meanwhile

vars == <<record, req, starts, alive, due, mishaps, astray, gone, crowded, limit>>

NoProcess == 0
Preview(status, proc) == [status |-> status, proc |-> proc]
NoPreview == Preview("NONE", NoProcess)

\* wrote: the rows flushed, or about to be, of which held are locked; was and now
\* have the records as read and as written.  late: another preview became READY
\* since it read the run, or counted.
Idle == [at |-> "idle", run |-> 0, wrote |-> {}, held |-> {}, proc |-> NoProcess, late |-> FALSE,
         was |-> [r \in Runs |-> NoPreview], now |-> [r \in Runs |-> NoPreview]]

Init ==
    /\ record = [r \in Runs |-> NoPreview]
    /\ req = [q \in Requests |-> Idle]
    /\ starts = 0
    /\ alive = {}
    /\ due = {}
    /\ mishaps = 0
    /\ astray = {}
    /\ gone = {}
    /\ crowded = FALSE
    /\ limit \in Limits

IsActive(preview) == preview.status = "READY" /\ preview.proc \notin due
Changed(q) == {r \in req[q].wrote : req[q].now[r] # req[q].was[r]}
Killed(q) == {req[q].was[r].proc : r \in {s \in Changed(q) : IsActive(req[q].was[s])}}

\* _count_active_previews: the session has the run itself and what it wrote.
Seen(q, r) == IF r \in req[q].wrote \cup {req[q].run} THEN req[q].now[r] ELSE record[r]
Active(q) == {r \in Runs : IsActive(Seen(q, r))}

-----------------------------------------------------------------------------
(* Row locks.  A flush writes its rows one after the other; a cycle of     *)
(* requests that wait for each other loses one of them to the database.    *)

Missing(q) == req[q].wrote \ req[q].held
Flushed(q) == Missing(q) = {}
IsNext(q, r) == r \in Missing(q) /\ \A s \in Missing(q) : r <= s
Locked(r) == \E p \in Requests : r \in req[p].held
WaitsFor(q, p) == \E r \in req[p].held : IsNext(q, r)
InCycle(q) ==
    \E S \in SUBSET Requests :
       /\ q \in S
       /\ \A p \in S : (\E o \in S : WaitsFor(p, o)) /\ (\E o \in S : WaitsFor(o, p))

Lock(q) ==
    /\ \E r \in Runs :
          /\ IsNext(q, r)
          /\ ~Locked(r)
          /\ req' = [req EXCEPT ![q].held = @ \cup {r}]
    /\ UNCHANGED <<record, starts, alive, due, mishaps, astray, gone, crowded>>

Rollback(q) ==
    /\ req' = [req EXCEPT ![q] = Idle]
    /\ gone' = gone \cup Killed(q)
    /\ UNCHANGED <<record, starts, due, astray, crowded>>

Abort(q) ==
    /\ InCycle(q)
    /\ Rollback(q)
    /\ UNCHANGED <<alive, mishaps>>

-----------------------------------------------------------------------------
(* launch_run_preview.                                                     *)

\* cleanup_expired_previews, over all runs and whatever the record's status.
Expired == {r \in Runs : record[r].proc \in due}
Launch(q, r) ==
    /\ req[q].at = "idle"
    /\ alive' = alive \ {record[s].proc : s \in Expired}
    /\ req' = [req EXCEPT ![q] =
                [Idle EXCEPT !.at = "mark", !.run = r, !.wrote = Expired,
                             !.was = [s \in Runs |-> IF s \in Expired THEN record[s]
                                                     ELSE NoPreview],
                             !.now = [s \in Runs |-> IF s \in Expired
                                                     THEN Preview("EXPIRED", record[s].proc)
                                                     ELSE NoPreview]]]
    /\ UNCHANGED <<record, starts, due, mishaps, astray, gone, crowded>>

ReadRun(q) ==
    /\ req[q].at = "mark"
    /\ Flushed(q)
    /\ LET r == req[q].run IN
         req' = [req EXCEPT ![q].at = "decide", ![q].late = FALSE,
                            ![q].was[r] = IF r \in req[q].wrote THEN req[q].was[r] ELSE record[r],
                            ![q].now[r] = IF r \in req[q].wrote THEN req[q].now[r] ELSE record[r]]
    /\ UNCHANGED <<record, starts, alive, due, mishaps, astray, gone, crowded>>

\* With reuse_if_healthy: the record is written back as it was read.
Reuse(q) ==
    /\ req[q].at = "decide"
    /\ IsActive(req[q].now[req[q].run])
    /\ req[q].now[req[q].run].proc \in alive
    /\ req' = [req EXCEPT ![q].at = "reply", ![q].wrote = @ \cup {req[q].run}]
    /\ UNCHANGED <<record, starts, alive, due, mishaps, astray, gone, crowded>>

\* The limit is reached, the run is not COMPLETED, or there is nothing to preview.
Refuse(q) ==
    /\ req[q].at = "decide"
    /\ Rollback(q)
    /\ UNCHANGED <<alive, mishaps>>

\* Mutant: one preview too many.
ClearBeyondLimit(q) ==
    /\ req[q].at = "decide"
    /\ Cardinality(Active(q)) <= limit
    /\ LET r == req[q].run IN
         /\ alive' = alive \ {req[q].now[r].proc}
         /\ req' = [req EXCEPT ![q].at = "build", ![q].wrote = req[q].wrote \cup {r},
                               ![q].now[r] = NoPreview, ![q].late = FALSE]
    /\ UNCHANGED <<record, starts, due, mishaps, astray, gone, crowded>>

\* The process of the old preview is killed before its row is locked.
Clear(q) ==
    /\ req[q].at = "decide"
    /\ Cardinality(Active(q)) < limit
    /\ LET r == req[q].run IN
         /\ alive' = alive \ {req[q].now[r].proc}
         /\ req' = [req EXCEPT ![q].at = "build", ![q].wrote = req[q].wrote \cup {r},
                               ![q].now[r] = NoPreview, ![q].late = FALSE]
    /\ UNCHANGED <<record, starts, due, mishaps, astray, gone, crowded>>

Start(q) ==
    /\ req[q].at = "build"
    /\ Flushed(q)
    /\ starts < MaxStarts
    /\ starts' = starts + 1
    /\ alive' = alive \cup {starts'}
    /\ req' = [req EXCEPT ![q].at = "check", ![q].proc = starts']
    /\ UNCHANGED <<record, due, mishaps, astray, gone, crowded>>

\* The failure is written to the session, and rolled back by the route.
FailToStart(q) ==
    /\ req[q].at = "build"
    /\ Flushed(q)
    /\ Rollback(q)
    /\ UNCHANGED <<alive, mishaps>>

\* Mutant: a process that does not serve is left.
FailToServeAndLeave(q) ==
    /\ req[q].at = "check"
    /\ Rollback(q)
    /\ UNCHANGED <<alive, mishaps>>

\* Mutant: the failure is committed.
FailToServeForGood(q) ==
    /\ req[q].at = "check"
    /\ alive' = alive \ {req[q].proc}
    /\ record' = [record EXCEPT ![req[q].run] = Preview("FAILED", req[q].proc)]
    /\ req' = [req EXCEPT ![q] = Idle]
    /\ UNCHANGED <<starts, due, mishaps, astray, gone, crowded>>

FailToServe(q) ==
    /\ req[q].at = "check"
    /\ alive' = alive \ {req[q].proc}
    /\ Rollback(q)
    /\ UNCHANGED mishaps

Serve(q) ==
    /\ req[q].at = "check"
    /\ req[q].proc \in alive
    /\ req' = [req EXCEPT ![q].at = "reply",
                          ![q].now[req[q].run] = Preview("READY", req[q].proc)]
    /\ UNCHANGED <<record, starts, alive, due, mishaps, astray, gone, crowded>>

-----------------------------------------------------------------------------
(* Stopping, looking, and the commit.                                      *)

\* Mutant: a stopped preview keeps its status.
KillOnly(q, r, held) ==
    /\ req[q].at = "idle"
    /\ record[r].status # "NONE"
    /\ alive' = alive \ {record[r].proc}
    /\ req' = [req EXCEPT ![q] =
                [Idle EXCEPT !.at = "reply", !.run = r, !.wrote = {r}, !.held = held,
                             !.was[r] = record[r], !.now[r] = record[r]]]
    /\ UNCHANGED <<record, starts, due, mishaps, astray, gone, crowded>>

Kill(q, r, held) ==
    /\ req[q].at = "idle"
    /\ record[r].status # "NONE"
    /\ alive' = alive \ {record[r].proc}
    /\ req' = [req EXCEPT ![q] =
                [Idle EXCEPT !.at = "reply", !.run = r, !.wrote = {r}, !.held = held,
                             !.was[r] = record[r],
                             !.now[r] = Preview("STOPPED", record[r].proc)]]
    /\ UNCHANGED <<record, starts, due, mishaps, astray, gone, crowded>>

\* delete_run_preview
Stop(q, r) == Kill(q, r, {})

\* discard_run_workspace locks the row first, or answers that there is none.
Discard(q, r) == ~Locked(r) /\ Kill(q, r, {r})

\* Rows whose record is no longer what the request has read.
Crossed(q) == {r \in req[q].wrote : record[r] # req[q].was[r]}

\* Rows that the commit makes READY.
Fresh(q) == {r \in req[q].wrote : req[q].now[r].status = "READY" /\ record[r] # req[q].now[r]}

Commit(q) ==
    /\ req[q].at = "reply"
    /\ Flushed(q)
    /\ record' = [r \in Runs |-> IF r \in req[q].wrote THEN req[q].now[r] ELSE record[r]]
    /\ astray' = astray \cup (alive \cap {record[r].proc : r \in Crossed(q)})
    /\ gone' = gone \cup {req[q].now[r].proc : r \in Crossed(q) \ Changed(q)}
    /\ req' = [p \in Requests |->
                 IF p = q \/ req[p].at = "idle" THEN Idle
                 ELSE [req[p] EXCEPT !.late = req[p].late \/ Fresh(q) # {}]]
    /\ crowded' = (crowded \/ (req[q].late /\ Fresh(q) # {}))
    /\ UNCHANGED <<starts, alive, due, mishaps>>

\* fetch_run_preview: kills what has expired, and never commits what it writes.
Look(r) ==
    /\ record[r].status = "READY"
    /\ record[r].proc \in due \cap alive
    /\ alive' = alive \ {record[r].proc}
    /\ UNCHANGED <<record, req, starts, due, mishaps, astray, gone, crowded>>

-----------------------------------------------------------------------------
(* Time and faults.                                                        *)

Expire(r) ==
    /\ record[r].proc \notin due \cup {NoProcess}
    /\ due' = due \cup {record[r].proc}
    /\ UNCHANGED <<record, req, starts, alive, mishaps, astray, gone, crowded>>

Exit(n) ==
    /\ mishaps < MaxMishaps
    /\ n \in alive
    /\ mishaps' = mishaps + 1
    /\ alive' = alive \ {n}
    /\ gone' = gone \cup {n}
    /\ UNCHANGED <<record, req, starts, due, astray, crowded>>

\* The API process dies, or the commit or what comes just before it raises.
Lose(q) ==
    /\ mishaps < MaxMishaps
    /\ req[q].at # "idle"
    /\ mishaps' = mishaps + 1
    /\ req' = [req EXCEPT ![q] = Idle]
    /\ gone' = gone \cup Killed(q)
    /\ astray' = astray \cup (alive \cap {req[q].proc})
    /\ UNCHANGED <<record, starts, alive, due, crowded>>

Arrive(q) == \E r \in Runs : Launch(q, r) \/ Stop(q, r) \/ Discard(q, r)
Advance(q) ==
    \/ ReadRun(q) \/ Reuse(q) \/ Refuse(q) \/ Clear(q)
    \/ Start(q) \/ FailToStart(q) \/ Serve(q) \/ FailToServe(q)
    \/ Commit(q) \/ Abort(q)

Next ==
    /\ \/ \E q \in Requests : Arrive(q) \/ Lock(q) \/ Advance(q) \/ Lose(q)
       \/ \E r \in Runs : Look(r) \/ Expire(r)
       \/ \E n \in alive : Exit(n)
    /\ UNCHANGED limit

Spec == Init /\ [][Next]_vars
=============================================================================
