--------------------------- MODULE WorkItemLease ---------------------------
(***************************************************************************)
(* Work items of one running run, the processes that execute them and the  *)
(* leases that are meant to keep two of those processes apart              *)
(* (worker_service.py, leases.py, and the parts of scheduler_service.py    *)
(* and recovery_policy.py that move a work item).                          *)
(*                                                                         *)
(* The database is Postgres at READ COMMITTED.  A row is a record of row;  *)
(* a transaction that has updated a row but has not committed blocks every *)
(* other writer of that row and is invisible to every reader: those rows   *)
(* are in held.  The columns a worker read when it started are in loaded:  *)
(* the ORM writes back only the columns that differ from them.             *)
(*                                                                         *)
(* A context is whatever runs tick_worker: a worker process, which uses    *)
(* its own agent id, or a reclaimer (the scheduler's tick) that nudges a   *)
(* queue by calling tick_worker in line under some worker's agent id.      *)
(*                                                                         *)
(* Two kinds of process reclaim: the scheduler's tick, and beside it the   *)
(* loop that orchestrator.py leaves running for every run an API request   *)
(* launched, which only requeues expired leases.                           *)
(***************************************************************************)
EXTENDS Integers, FiniteSets

CONSTANTS
    Items,              \* the work items of the run
    Tests,              \* those whose type is RUN_TESTS
    Agents,             \* agent ids; a worker process draws a fresh one when it starts
    Reclaimers,         \* processes that reclaim leases: scheduler ticks ...
    Loops,              \* ... and, among them, the orchestrator's external-mode loops
    None,               \* SQL NULL
    MaxAttempts,        \* WorkItem.max_attempts
    MaxFaults,          \* bound on crashes, failed report transactions and keepalives that lapse
    KeepaliveMayLapse,  \* a keepalive loop may die or be starved while its worker lives
    LocalEnv            \* settings.env = "local"

ASSUME ConstantsAssumption ==
    /\ Tests \subseteq Items
    /\ Agents \cap Reclaimers = {}
    /\ Loops \subseteq Reclaimers
    /\ None \notin Agents \cup Items
    /\ MaxAttempts \in Nat \ {0}
    /\ MaxFaults \in Nat
    /\ KeepaliveMayLapse \in BOOLEAN
    /\ LocalEnv \in BOOLEAN

VARIABLES
    row,      \* work_items: status, assigned_agent_id, lease_expires_at, attempt
    agents,   \* agents.status
    pc,       \* where a context is in tick_worker
    actor,    \* the agent id a context runs under
    job,      \* the work item a context claimed
    cands,    \* the rows a context's claim statement returned
    loaded,   \* the row as a context loaded it before executing
    ka,       \* a context's keepalive task
    phase,    \* where a reclaimer is in its tick
    seen,     \* the rows a reclaimer's last SELECT returned
    held,     \* the rows a reclaimer has requeued and not yet committed
    faults,   \* crashes, failed reports and lapses so far
    astray    \* history: the items whose lease was broken, in one of the four ways below

rowVars == <<row, agents>>
ctxVars == <<pc, actor, job, cands, loaded, ka>>
tickVars == <<phase, seen, held>>
vars == <<row, agents, pc, actor, job, cands, loaded, ka, phase, seen, held, faults, astray>>

Contexts == Agents \cup Reclaimers
Status == {"QUEUED", "RUNNING", "DONE", "SKIPPED", "FAILED"}
Verdicts == {"DONE", "SKIPPED", "FAILED"}
Lease == {"none", "live", "expired"}
Row == [status : Status, agent : Agents \cup {None}, lease : Lease,
        attempt : 0 .. MaxAttempts - 1]

FreshRow == [status |-> "QUEUED", agent |-> None, lease |-> "none", attempt |-> 0]

TypeOK ==
    /\ row \in [Items -> Row]
    /\ agents \in [Agents -> {"unregistered", "ACTIVE", "INACTIVE"}]
    /\ pc \in [Contexts -> {"off", "idle", "selecting", "claimed", "running"}]
    /\ actor \in [Contexts -> Agents \cup {None}]
    /\ job \in [Contexts -> Items \cup {None}]
    /\ cands \in [Contexts -> SUBSET Items]
    /\ loaded \in [Contexts -> Row]
    /\ ka \in [Contexts -> {"off", "sleep", "read"}]
    /\ phase \in [Reclaimers -> {"idle", "expired", "orphaned", "swept", "nudging"}]
    /\ seen \in [Reclaimers -> SUBSET Items]
    /\ held \in [Reclaimers -> SUBSET Items]
    /\ faults \in 0 .. MaxFaults
    /\ astray \subseteq Items
    /\ \A c \in Contexts : pc[c] \in {"idle", "selecting", "claimed", "running"}
                               => actor[c] \in Agents
    /\ \A c \in Contexts : pc[c] \in {"claimed", "running"} => job[c] \in Items

Init ==
    /\ row = [i \in Items |-> FreshRow]
    /\ agents = [a \in Agents |-> "unregistered"]
    /\ pc = [c \in Contexts |-> "off"]
    /\ actor = [c \in Contexts |-> None]
    /\ job = [c \in Contexts |-> None]
    /\ cands = [c \in Contexts |-> {}]
    /\ loaded = [c \in Contexts |-> FreshRow]
    /\ ka = [c \in Contexts |-> "off"]
    /\ phase = [r \in Reclaimers |-> "idle"]
    /\ seen = [r \in Reclaimers |-> {}]
    /\ held = [r \in Reclaimers |-> {}]
    /\ faults = 0
    /\ astray = {}

-----------------------------------------------------------------------------
(* Locks and views.                                                        *)

Held == UNION {held[r] : r \in Reclaimers}

\* A context is executing i from its claim's commit to the end of its report.
Executing(c, i) == pc[c] \in {"claimed", "running"} /\ job[c] = i

\* ... and the row still names it as the holder.
Holds(c, i) == Executing(c, i) /\ actor[c] = row[i].agent

(* How a lease is broken: what a claim, a start, the clock or a requeue    *)
(* does to an item that the protocol has no answer to.  astray remembers   *)
(* these items and changes nothing.                                        *)

\* The worker row was marked inactive between its check and its claim.
ClaimsDisowned(c, i) == IF agents[actor[c]] = "ACTIVE" THEN {} ELSE {i}

\* A local start marks the workers of live executions inactive.
StartDisowns(a) ==
    {i \in Items : LocalEnv /\ \E c \in Contexts : Executing(c, i) /\ actor[c] # a}

\* A lease runs out under an execution whose keepalive lapsed.
ExpiresHeld(i) == IF \E c \in Contexts : Executing(c, i) THEN {i} ELSE {}

\* A requeue is committed while another reclaimer has selected the same row
\* and not updated it: its guarded UPDATE will match whoever claims it next.
CommitOvertaken(r) == {i \in held[r] : \E s \in Reclaimers \ {r} : i \in seen[s]}

\* The rows a claim, a retry and a reclaim write.
UnleasedRow(r, a) == [status |-> "RUNNING", agent |-> a, lease |-> "none", attempt |-> r.attempt]
ClaimedRow(r, a) == [status |-> "RUNNING", agent |-> a, lease |-> "live", attempt |-> r.attempt]

UnchargedRow(n) == [status |-> "QUEUED", agent |-> None, lease |-> "none", attempt |-> n]
RetriedRow(n) == [status |-> "QUEUED", agent |-> None, lease |-> "none", attempt |-> n + 1]

RequeuedRow(r) == [status |-> "QUEUED", agent |-> None, lease |-> "none", attempt |-> r.attempt]

\* A retry must stay below max_attempts.
OneRetryTooMany(n) == n + 1 <= MaxAttempts
RetriesLeft(n) == n + 1 < MaxAttempts

\* What the ORM flushes: the columns of target that differ from the loaded ones.
Flush(db, was, target) ==
    [status  |-> IF target.status # was.status THEN target.status ELSE db.status,
     agent   |-> IF target.agent # was.agent THEN target.agent ELSE db.agent,
     lease   |-> IF target.lease # was.lease THEN target.lease ELSE db.lease,
     attempt |-> IF target.attempt # was.attempt THEN target.attempt ELSE db.attempt]

-----------------------------------------------------------------------------
(* Worker processes and tick_worker.                                       *)

\* main(): a new agent row; in the local environment every other worker row
\* is marked inactive first, whether or not its process is still alive.
StartWorker(a) ==
    /\ agents[a] = "unregistered"
    /\ agents' = [b \in Agents |->
                     IF b = a THEN "ACTIVE"
                     ELSE IF LocalEnv /\ agents[b] = "ACTIVE" THEN "INACTIVE"
                     ELSE agents[b]]
    /\ pc' = [pc EXCEPT ![a] = "idle"]
    /\ actor' = [actor EXCEPT ![a] = a]
    /\ astray' = astray \cup StartDisowns(a)
    /\ UNCHANGED <<row, job, cands, loaded, ka, tickVars, faults>>

\* Where a context goes when tick_worker returns.
Resting(c) == IF c \in Agents THEN "idle" ELSE "off"

\* A context forgets the item it was busy with; its keepalive is cancelled.
Drop(c, next) ==
    /\ pc' = [pc EXCEPT ![c] = next]
    /\ actor' = [actor EXCEPT ![c] = IF next = "off" THEN None ELSE actor[c]]
    /\ job' = [job EXCEPT ![c] = None]
    /\ cands' = [cands EXCEPT ![c] = {}]
    /\ loaded' = [loaded EXCEPT ![c] = FreshRow]
    /\ ka' = [ka EXCEPT ![c] = "off"]

\* The claim's WHERE clause: queued, not locked, and no RUN_TESTS running.
Claimable ==
    {i \in Items : /\ row[i].status = "QUEUED"
                   /\ i \notin Held
                   /\ \A t \in Tests : row[t].status # "RUNNING"}

\* The claim statement takes its snapshot.
ClaimSelect(c) ==
    /\ pc[c] = "idle"
    /\ agents[actor[c]] = "ACTIVE"
    /\ Claimable # {}
    /\ cands' = [cands EXCEPT ![c] = Claimable]
    /\ pc' = [pc EXCEPT ![c] = "selecting"]
    /\ UNCHANGED <<rowVars, actor, job, loaded, ka, tickVars, faults, astray>>

\* A claim that trusts its snapshot.
Unlocking(c) == cands[c]

\* Of a snapshot row only its own columns are looked at again when it is locked.
Lockable(c) == {i \in cands[c] : row[i].status = "QUEUED" /\ i \notin Held}

\* The claim locks one of those rows, marks it running and commits.
ClaimCommit(c) ==
    /\ pc[c] = "selecting"
    /\ \E i \in Lockable(c) :
          /\ row' = [row EXCEPT ![i] = ClaimedRow(row[i], actor[c])]
          /\ job' = [job EXCEPT ![c] = i]
          /\ astray' = astray \cup ClaimsDisowned(c, i)
    /\ pc' = [pc EXCEPT ![c] = "claimed"]
    /\ cands' = [cands EXCEPT ![c] = {}]
    /\ UNCHANGED <<agents, actor, loaded, ka, tickVars, faults>>

\* tick_worker returns without a claim: the agent is not active, the
\* statement returned nothing, or every row it returned has gone.
ClaimNothing(c) ==
    /\ \/ pc[c] = "idle" /\ c \in Reclaimers
          /\ (agents[actor[c]] # "ACTIVE" \/ Claimable = {})
       \/ pc[c] = "selecting" /\ Lockable(c) = {}
    /\ Drop(c, Resting(c))
    /\ UNCHANGED <<rowVars, tickVars, faults, astray>>

\* The second session reads the row, whatever it holds by now, starts the
\* keepalive task and executes the item.
Load(c) ==
    /\ pc[c] = "claimed"
    /\ loaded' = [loaded EXCEPT ![c] = row[job[c]]]
    /\ ka' = [ka EXCEPT ![c] = "sleep"]
    /\ pc' = [pc EXCEPT ![c] = "running"]
    /\ UNCHANGED <<rowVars, actor, job, cands, tickVars, faults, astray>>

\* The transaction of execute_item commits a new row.
Report(c, newRow) ==
    /\ job[c] \notin Held
    /\ row' = [row EXCEPT ![job[c]] = newRow]
    /\ Drop(c, Resting(c))
    /\ UNCHANGED <<agents, tickVars, faults, astray>>

\* The executor returned a verdict and no recovery rule requeues the item:
\* the verdict is written over whatever the row says.
ReportVerdict(c) ==
    \E s \in Verdicts :
        Report(c, Flush(row[job[c]], loaded[c], [loaded[c] EXCEPT !.status = s]))

\* The executor returned FAILED and maybe_apply_recovery retries.  FAILED is
\* flushed before the rule is looked up, so QUEUED is always written.
ReportRetry(c) ==
    /\ RetriesLeft(loaded[c].attempt)
    /\ Report(c, [Flush(row[job[c]], loaded[c], RetriedRow(loaded[c].attempt))
                  EXCEPT !.status = "QUEUED"])

\* The executor raised: the session is rolled back, the row is read again and
\* made FAILED without a guard ...
ReportRaised(c) ==
    Report(c, [row[job[c]] EXCEPT !.status = "FAILED"])

\* ... or requeued by maybe_apply_recovery from the fresh row.
ReportRaisedRetry(c) ==
    /\ RetriesLeft(row[job[c]].attempt)
    /\ Report(c, RetriedRow(row[job[c]].attempt))

\* The report itself fails (the database is away): tick_worker raises, its
\* caller logs, and the row stays running with nobody renewing its lease.  A
\* nudging reclaimer's tick raises with it and rolls back.
AbortReport(c) ==
    /\ pc[c] = "running"
    /\ faults < MaxFaults
    /\ faults' = faults + 1
    /\ Drop(c, Resting(c))
    /\ phase' = [r \in Reclaimers |-> IF r = c THEN "idle" ELSE phase[r]]
    /\ held' = [r \in Reclaimers |-> IF r = c THEN {} ELSE held[r]]
    /\ UNCHANGED <<rowVars, seen, astray>>

\* A worker process dies.  Its agent row stays as it is.
CrashWorker(a) ==
    /\ pc[a] # "off"
    /\ faults < MaxFaults
    /\ faults' = faults + 1
    /\ Drop(a, "off")
    /\ UNCHANGED <<rowVars, tickVars, astray>>

-----------------------------------------------------------------------------
(* The keepalive task: a read, then a write that repeats none of its tests. *)

KeepaliveRead(c) ==
    /\ ka[c] = "sleep"
    /\ LET r == row[job[c]]
       IN  ka' = [ka EXCEPT ![c] = IF r.agent = actor[c] /\ r.status = "RUNNING"
                                   THEN "read" ELSE "off"]
    /\ UNCHANGED <<rowVars, pc, actor, job, cands, loaded, tickVars, faults, astray>>

KeepaliveWrite(c) ==
    /\ ka[c] = "read"
    /\ job[c] \notin Held
    /\ row' = [row EXCEPT ![job[c]] = [@ EXCEPT !.lease = "live"]]
    /\ ka' = [ka EXCEPT ![c] = "sleep"]
    /\ UNCHANGED <<agents, pc, actor, job, cands, loaded, tickVars, faults, astray>>

\* An exception ends the loop; the execution it covers goes on.
KeepaliveLapse(c) ==
    /\ KeepaliveMayLapse
    /\ ka[c] # "off"
    /\ faults < MaxFaults
    /\ faults' = faults + 1
    /\ ka' = [ka EXCEPT ![c] = "off"]
    /\ UNCHANGED <<rowVars, pc, actor, job, cands, loaded, tickVars, astray>>

\* Time passes lease_expires_at ...
Expire(i) ==
    /\ row[i].status = "RUNNING"
    /\ row[i].lease = "live"
    /\ row' = [row EXCEPT ![i] = [@ EXCEPT !.lease = "expired"]]
    /\ astray' = astray \cup ExpiresHeld(i)
    /\ UNCHANGED <<agents, ctxVars, tickVars>>

\* A lease that runs out while the keepalive loop of its holder runs on time.
NeverRenewed(i) ==
    /\ row[i].status = "RUNNING"
    /\ row[i].lease = "live"
    /\ row' = [row EXCEPT ![i] = [@ EXCEPT !.lease = "expired"]]
    /\ UNCHANGED <<agents, ctxVars, tickVars, faults, astray>>

\* ... of an item nobody renews any more: a loop that runs on time refreshes at
\* least four times per lease ...
LeaseExpires(i) ==
    /\ \A c \in Contexts : Holds(c, i) => pc[c] = "running" /\ ka[c] = "off"
    /\ Expire(i)
    /\ UNCHANGED faults

\* ... or of one whose holder's loop is kept waiting (by a git subprocess that
\* blocks the event loop, for one) and goes on later.
LeaseOverruns(i) ==
    /\ KeepaliveMayLapse
    /\ \A c \in Contexts : Holds(c, i) => pc[c] = "running"
    /\ \E c \in Contexts : Holds(c, i) /\ ka[c] # "off"
    /\ faults < MaxFaults
    /\ faults' = faults + 1
    /\ Expire(i)

-----------------------------------------------------------------------------
(* The reclaimers.  A tick runs reclaim_expired_work_items and             *)
(* reclaim_orphaned_work_items in one transaction, then the nudge.  A      *)
(* round of the orchestrator's loop runs reclaim_expired_work_items only   *)
(* and commits at the head of the next round, 0.2 s later.                 *)

Orphans ==
    {i \in Items : /\ row[i].status = "RUNNING"
                   /\ \/ row[i].agent = None
                      \/ agents[row[i].agent] # "ACTIVE"}

\* Leases that have run out (the two first statements of reclaim_expired_work_items).
ExpiredLeases == {i \in Items : row[i].status = "RUNNING" /\ row[i].lease = "expired"}

\* A round of a loop that selects nothing changes nothing and is no step.
RoundDue(r) == r \in Loops => ExpiredLeases # {}

ScanExpired(r) ==
    /\ phase[r] = "idle"
    /\ RoundDue(r)
    /\ phase' = [phase EXCEPT ![r] = "expired"]
    /\ seen' = [seen EXCEPT ![r] = ExpiredLeases]
    /\ UNCHANGED <<rowVars, ctxVars, held, faults, astray>>

\* The guarded UPDATE tests the status again and nothing else; it waits for
\* the row lock of another reclaimer.
Requeued(r) == {i \in seen[r] : row[i].status = "RUNNING"}
Unlocked(r) == \A s \in Reclaimers \ {r} : Requeued(r) \cap held[s] = {}

SweepExpired(r) ==
    /\ phase[r] = "expired"
    /\ Unlocked(r)
    /\ held' = [held EXCEPT ![r] = Requeued(r)]
    /\ \/ /\ r \notin Loops
          /\ phase' = [phase EXCEPT ![r] = "orphaned"]
          /\ seen' = [seen EXCEPT ![r] = Orphans \ Requeued(r)]
       \/ /\ r \in Loops
          /\ phase' = [phase EXCEPT ![r] = "swept"]
          /\ seen' = [seen EXCEPT ![r] = {}]
    /\ UNCHANGED <<rowVars, ctxVars, faults, astray>>

SweepOrphaned(r) ==
    /\ phase[r] = "orphaned"
    /\ Unlocked(r)
    /\ phase' = [phase EXCEPT ![r] = "swept"]
    /\ held' = [held EXCEPT ![r] = held[r] \cup Requeued(r)]
    /\ seen' = [seen EXCEPT ![r] = {}]
    /\ UNCHANGED <<rowVars, ctxVars, faults, astray>>

\* The reclaimer's own view of the queue, its uncommitted updates included.
QueuedFor(r) == {i \in Items : row[i].status = "QUEUED"} \cup held[r]
ActiveFor(r) == {i \in Items : row[i].status = "RUNNING"} \ held[r]
NudgeDue(r) ==
    /\ r \notin Loops
    /\ QueuedFor(r) # {} /\ ActiveFor(r) = {}
    /\ \E a \in Agents : agents[a] = "ACTIVE"

\* _nudge_worker_if_stalled: run tick_worker here, under a worker's agent id.
Nudge(r) ==
    /\ phase[r] = "swept"
    /\ NudgeDue(r)
    /\ \E a \in Agents : agents[a] = "ACTIVE" /\ actor' = [actor EXCEPT ![r] = a]
    /\ pc' = [pc EXCEPT ![r] = "idle"]
    /\ phase' = [phase EXCEPT ![r] = "nudging"]
    /\ UNCHANGED <<rowVars, job, cands, loaded, ka, seen, held, faults, astray>>

CommitTick(r) ==
    /\ \/ phase[r] = "swept" /\ ~NudgeDue(r)
       \/ phase[r] = "nudging" /\ pc[r] = "off"
    /\ row' = [i \in Items |-> IF i \in held[r]
                               THEN RequeuedRow(row[i]) ELSE row[i]]
    /\ phase' = [phase EXCEPT ![r] = "idle"]
    /\ held' = [held EXCEPT ![r] = {}]
    /\ astray' = astray \cup CommitOvertaken(r)
    /\ UNCHANGED <<agents, ctxVars, seen, faults>>

\* The tick dies with its transaction and with the item it may be executing.
CrashTick(r) ==
    /\ phase[r] # "idle"
    /\ faults < MaxFaults
    /\ faults' = faults + 1
    /\ phase' = [phase EXCEPT ![r] = "idle"]
    /\ seen' = [seen EXCEPT ![r] = {}]
    /\ held' = [held EXCEPT ![r] = {}]
    /\ Drop(r, "off")
    /\ UNCHANGED <<rowVars, astray>>

-----------------------------------------------------------------------------
Reports(c) ==
    /\ pc[c] = "running"
    /\ \/ ReportVerdict(c)
       \/ ReportRetry(c)
       \/ ReportRaised(c)
       \/ ReportRaisedRetry(c)

ContextStep(c) ==
    \/ ClaimSelect(c)
    \/ ClaimCommit(c)
    \/ ClaimNothing(c)
    \/ Load(c)
    \/ Reports(c)

KeepaliveStep(c) == KeepaliveRead(c) \/ KeepaliveWrite(c)

TickStep(r) ==
    \/ ScanExpired(r)
    \/ SweepExpired(r)
    \/ SweepOrphaned(r)
    \/ Nudge(r)
    \/ CommitTick(r)

Faults ==
    \/ \E c \in Contexts : AbortReport(c)
    \/ \E c \in Contexts : KeepaliveLapse(c)
    \/ \E i \in Items : LeaseOverruns(i)
    \/ \E a \in Agents : CrashWorker(a)
    \/ \E r \in Reclaimers : CrashTick(r)

Next ==
    \/ \E a \in Agents : StartWorker(a)
    \/ \E c \in Contexts : ContextStep(c) \/ KeepaliveStep(c)
    \/ \E i \in Items : LeaseExpires(i)
    \/ \E r \in Reclaimers : TickStep(r)
    \/ Faults

Spec == Init /\ [][Next]_vars

\* Processes and clocks that are running keep running: workers are restarted
\* by their supervisor, main() loops, tick_worker runs to its end, the
\* scheduler ticks every second and time passes.  The orchestrator's loop ends
\* with its API process, so only what it has begun is due.  No fault is.
Fairness ==
    /\ \A a \in Agents : WF_vars(StartWorker(a))
    /\ \A c \in Contexts : WF_vars(ContextStep(c)) /\ WF_vars(KeepaliveStep(c))
    /\ \A i \in Items : WF_vars(LeaseExpires(i))
    /\ \A r \in Reclaimers \ Loops : WF_vars(TickStep(r))
    /\ \A r \in Loops : WF_vars(SweepExpired(r)) /\ WF_vars(CommitTick(r))

FairSpec == Spec /\ Fairness
=============================================================================
