-------------------------- MODULE RecoveryPolicyProps --------------------------
(***************************************************************************)
(* What recovery promises, whatever fails, in whatever order reports read  *)
(* and commit: it is bounded, it ends, and it loses no one's dependents.   *)
(***************************************************************************)
EXTENDS RecoveryPolicy

ItemRow(n) ==
    [type : {Graph[i] : i \in DOMAIN Graph} \cup CountedFixes \cup {"GENESIS_FOUNDATION"},
     status : {"QUEUED", "RUNNING", "DONE", "FAILED"},
     attempt : 0 .. MaxAttempts - 1,
     text : Texts \cup {{}},
     same : -1 .. MaxSameSignature,
     by : 0 .. n,
     source : 0 .. n,
     failed : 0 .. n,
     action : {"-", "retry", "spawn_fix_node", "spawn_retry_node"},
     signature : Texts \cup {{}},
     of : SUBSET DOMAIN Graph]

WorkerRow(n) ==
    [pc : {"idle", "executing", "counted", "sized"}, job : 0 .. n, text : Texts \cup {{}},
     same : -1 .. MaxSameSignature - 1, allowed : BOOLEAN, room : BOOLEAN]

TypeOK ==
    /\ item \in Seq(ItemRow(Len(item)))
    /\ edges \subseteq Ids \X Ids
    /\ tries \in Seq([item : Ids, type : FailureTypes])
    /\ worker \in [Workers -> WorkerRow(Len(item))]
    /\ overdue \in BOOLEAN
    /\ faults \in 0 .. MaxFaults

\* What one report too late, on each other worker, adds to a count it checked.
Overrun == Cardinality(Workers) - 1

\* The budgets are counted before and spent after, without a lock: an item's
\* own budget is exact, since one worker executes it, and every other worker
\* may spend once more than the run or the failure type allows, never twice
\* (check_budget and create_attempt).
BudgetsHold ==
    /\ Len(tries) <= MaxRun + Overrun
    /\ \A i \in Ids : TriesOf(i) <= MaxItem
    /\ \A type \in FailureTypes : TriesAt(type) <= MaxType + Overrun

\* Why that is so.  A report that was admitted and has not spent counts as spent:
\* each worker has at most one, and all but one were admitted within the limit.
\* Nobody else spends for an item that a worker executes.
Busy(w) == worker[w].pc # "idle"
Admitted == {w \in Workers : worker[w].pc \in {"counted", "sized"} /\ worker[w].allowed}
Spends(w) == FailureType(Class(worker[w].job, worker[w].text))
AdmittedAt(type) == {w \in Admitted : Spends(w) = type}

JobIsRunning ==
    \A w \in Workers : Busy(w) => worker[w].job \in Ids /\ item[worker[w].job].status = "RUNNING"
OneWorkerEach ==
    \A v, w \in Workers : Busy(v) /\ Busy(w) /\ worker[v].job = worker[w].job => v = w
SizedIsAdmitted == \A w \in Workers : worker[w].pc = "sized" => worker[w].allowed
OpenIsUnrepeated ==
    \A i \in Ids : item[i].status \in {"QUEUED", "RUNNING"} => item[i].same < MaxSameSignature

RunBudget == Len(tries) + Cardinality(Admitted) <= MaxRun + Overrun
TypeBudget ==
    \A type \in FailureTypes : TriesAt(type) + Cardinality(AdmittedAt(type)) <= MaxType + Overrun
ItemBudget ==
    /\ \A i \in Ids : TriesOf(i) <= MaxItem
    /\ \A w \in Admitted : TriesOf(worker[w].job) < MaxItem

JobInv == TypeOK /\ JobIsRunning /\ OneWorkerEach /\ SizedIsAdmitted /\ OpenIsUnrepeated
BudgetInv == JobInv /\ RunBudget /\ TypeBudget /\ ItemBudget

\* However often an item is retried by new items, one of them stands for it that
\* is not superseded, and those that waited for it wait for that one: dependents
\* neither start on a superseded failure nor wait for an item that no one will run
\* (outgoing_edges in the three _spawn_*_retry functions).
DependentsFollow ==
    /\ \A i \in Ids : Superseded(i) => /\ item[i].status = "FAILED"
                                       /\ item[i].by > i
                                       /\ item[item[i].by].type = item[i].type
                                       /\ item[i].of \subseteq item[item[i].by].of
    /\ \A i, j \in Ids :
          item[i].of \cap item[j].of # {} /\ ~Superseded(i) /\ ~Superseded(j) => i = j
    /\ \A e \in edges : ~Superseded(e[1])
    /\ \A e \in GraphEdges : \E i \in Ids : e[1] \in item[i].of /\ <<i, e[2]>> \in edges

\* Why that is so.  A repair that brings a retry is the only one of a failed item of
\* three types, which nothing else supersedes: before the retry, or without it, it
\* is not superseded ...
IsRepair(i) == item[i].type \in RetryingFixes
RetriedTypes == {"CODE_FRONTEND", "FRAMEWORK_VALIDATE", "RUN_TESTS"}
HasRetry(fix) == \E j \in Ids : item[j].source = fix
RepairsAreOfFailures ==
    /\ \A w \in Workers : worker[w].pc = "sized" =>
          Rule(worker[w].job, worker[w].text) = "spawn_fix_node"
    /\ \A fix \in Ids : IsRepair(fix) =>
          /\ item[fix].failed \in Ids
          /\ item[item[fix].failed].status = "FAILED"
          /\ item[item[fix].failed].type \in RetriedTypes
          /\ Superseded(item[fix].failed) => HasRetry(fix)
    /\ \A f, g \in Ids : IsRepair(f) /\ IsRepair(g) /\ item[f].failed = item[g].failed => f = g
\* ... a retry waits for the repair that brought it ...
RetriesAreOfRepairs ==
    \A j \in Ids : item[j].source # NoId =>
       /\ item[j].source \in Ids
       /\ item[item[j].source].status = "DONE"
       /\ <<item[j].source, j>> \in edges
\* ... and the tests that are not superseded are one item.
OneTestOpen ==
    \A i, j \in Ids :
       item[i].type = "RUN_TESTS" /\ item[j].type = "RUN_TESTS" /\ ~Superseded(i) /\ ~Superseded(j) =>
          i = j
WorkKeepsItsType == \A i \in Ids : \A n \in item[i].of : item[i].type = Graph[n]
\* A repair spends only when it ends.
RepairsSpendLast ==
    \A fix \in Ids : IsRepair(fix) /\ item[fix].status \in {"QUEUED", "RUNNING"} => TriesOf(fix) = 0

\* A repair that is done and was paid for is used: what it repaired is
\* superseded by a retry that waits for this repair, unless it was tests and
\* their failure has reached its cap (the spawn_retry_node branch).
RepairBringsRetry ==
    \A fix \in Ids :
       item[fix].type \in RetryingFixes /\ item[fix].status = "DONE" /\ TriesOf(fix) > 0 =>
          \/ \E j \in Ids : item[j].source = fix /\ <<fix, j>> \in edges
          \/ item[item[fix].failed].type = "RUN_TESTS" /\ ~MayRetryTests

LineageInv ==
    /\ JobInv
    /\ DependentsFollow
    /\ RepairsAreOfFailures /\ RetriesAreOfRepairs
    /\ OneTestOpen /\ WorkKeepsItsType
    /\ RepairsSpendLast /\ RepairBringsRetry

\* Without the rows: whatever recovery appends to the table and points elsewhere,
\* each node of the run's graph is begun only when all that it waits for is done or
\* has failed without blocking, what is done stays done, and a failed node is begun
\* again only by an attempt, of which there are no more than the budgets and what
\* reports too late add (is_dependency_satisfied, the three _spawn_*_retry and
\* check_budget).
Standing(n) == {i \in Ids : n \in item[i].of /\ ~Superseded(i)}
Current(n) == CHOOSE i \in Standing(n) : TRUE
Stage(row) ==
    CASE row.status = "QUEUED" -> "waiting"
      [] row.status = "RUNNING" -> "running"
      [] row.status = "DONE" -> "done"
      [] OTHER -> IF Excused(row) THEN "excused" ELSE "failed"
NodeState == [n \in DOMAIN Graph |-> Stage(item[Current(n)])]
Redone == {n \in DOMAIN Graph : \E i \in Ids : i # n /\ n \in item[i].of}

Work == INSTANCE WorkGraph WITH
    Nodes <- DOMAIN Graph, Order <- GraphEdges, Limit <- MaxRun + Overrun,
    Optional <- {n \in DOMAIN Graph : Graph[n] \in Optional},
    state <- NodeState, again <- Redone, spent <- Len(tries)

FollowsTheGraph == Work!GSpec

\* Why that is so.  Some row always stands for a node, and no row for two; and where a
\* row was appended for a node, or the node's first row has left the queue, each node
\* that it waits for had a row that was done or failed without blocking.
NobodyIsLost == \A n \in DOMAIN Graph : Standing(n) # {}
OneNode == \A i \in Ids : \A m, n \in item[i].of : m = n
Passed(row) == row.status = "DONE" \/ (row.status = "FAILED" /\ Excused(row))
OrderKept ==
    \A e \in GraphEdges : \A i \in Ids :
       e[2] \in item[i].of /\ (i # e[2] \/ item[i].status # "QUEUED") =>
          \E j \in Ids : e[1] \in item[j].of /\ Passed(item[j])
NodesAreRows == DOMAIN Graph \subseteq Ids
GraphInv == NodesAreRows /\ NobodyIsLost /\ OneNode /\ OrderKept

\* What is left to do.  An attempt, or an execution that ends without a report, pays
\* for a row that is queued again or is new; a row in the queue pays for its claim, and
\* a claim for the steps of its report.
RowsAt(status) == {i \in Ids : item[i].status = status}
WorkersAt(pcs) == {w \in Workers : worker[w].pc \in pcs}
Load == 6 * Cardinality(RowsAt("RUNNING")) + 5 * Cardinality(RowsAt("QUEUED"))
Effort ==
    2 * Cardinality(WorkersAt({"idle"})) + Cardinality(WorkersAt({"idle", "executing"}))
      + Cardinality(WorkersAt({"idle", "executing", "counted"}))
Ticks == IF overdue THEN 0 ELSE 1
StepsLeft ==
    10 * ((MaxRun + Overrun) - Len(tries)) + 10 * (MaxFaults - faults) + Ticks + Load + Effort

\* Recovery cannot go on for ever, even without fairness: every step, whoever takes it,
\* uses up something of a sum that the budgets bound from the first state on
\* (create_attempt comes before every retry and every repair).
StepsAreUsedUp == [][StepsLeft' < StepsLeft]_vars

\* Whatever keeps failing, recovery ends: from some moment on nothing runs and
\* nothing can (no retry, repair and retry of the repaired without end).
RecoveryEnds ==
    <>[](\A i \in Ids : item[i].status # "RUNNING" /\ ~Runnable(i))
=============================================================================
