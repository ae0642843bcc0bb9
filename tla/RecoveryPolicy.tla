---------------------------- MODULE RecoveryPolicy ----------------------------
(***************************************************************************)
(* What becomes of a work item that failed, or of a repair that is done:   *)
(* recovery_policy.py with the budgets of runtime_recovery_service.py, as  *)
(* worker_service.execute_item applies them in the transaction that        *)
(* reports an execution.                                                   *)
(*                                                                         *)
(* The work items of the run are a sequence in order of creation, recovery *)
(* appends to it.  A failing report reads the budgets, then the number of  *)
(* repairs, and commits: other reports commit in between.  A report of     *)
(* DONE updates the row of the run (its checkpoint) before it asks for     *)
(* recovery, every report updates it before it commits, and whoever has    *)
(* updated it keeps others from doing so until its commit: a report of     *)
(* DONE is one step.                                                       *)
(*                                                                         *)
(* One worker at a time executes an item (WorkItemLease).  The run stays   *)
(* open (RunScheduler), the recovery memory is off (its default), and what *)
(* an executor printed is the set of the marks the policy looks for.       *)
(***************************************************************************)
EXTENDS Integers, Sequences, FiniteSets

CONSTANTS
    Workers,
    Graph,        \* the types of the items of the run's graph
    GraphEdges,   \* <<from, to>>: to waits for from
    Optional,     \* the types whose payload says blocking: False
    Texts,        \* what a failing execution may print: sets of marks
    MaxAttempts,  \* WorkItem.max_attempts
    MaxItem,      \* runtime_recovery_max_attempts_per_work_item
    MaxType,      \* ... per_failure_type
    MaxRun,       \* ... per_run
    MaxFix,       \* max_fix_attempts_per_run
    TestRetries,  \* runtime_test_retry_max_per_signature
    MaxFaults     \* bound on executions that end without a report

ASSUME ConstantsAssumption ==
    /\ IsFiniteSet(Workers) /\ Workers # {}
    /\ Graph \in Seq(STRING)
    /\ GraphEdges \subseteq (1 .. Len(Graph)) \X (1 .. Len(Graph))
    /\ Optional \subseteq STRING
    /\ Texts \subseteq SUBSET STRING
    /\ MaxAttempts \in Nat \ {0}
    /\ MaxItem \in Nat
    /\ MaxType \in Nat
    /\ MaxRun \in Nat
    /\ MaxFix \in Nat
    /\ TestRetries \in Nat \ {0}
    /\ MaxFaults \in Nat

VARIABLES
    item,     \* the work_items rows
    edges,    \* the work_item_edges rows
    tries,    \* the recovery_attempts rows: item and failure type
    worker,   \* what each worker does, and what its report has read so far
    overdue,  \* the run is past its time or cost limit
    faults

vars == <<item, edges, tries, worker, overdue, faults>>

-----------------------------------------------------------------------------
(* Classification.  Each mark stands for a group of phrases; the first     *)
(* entry of a table that shares a mark with the text decides.              *)

FrontendTypes == {"CODE_FRONTEND", "FIX_LAYOUT_COMPOSITION", "FIX_ZONE_COMPOSITION",
                  "FIX_VISUAL_QUALITY", "GENESIS_FOUNDATION", "FOUNDATION_VALIDATE"}

Readiness == <<
    [marks |-> {"foundation"},                         class |-> "foundation_bootstrap_required"],
    [marks |-> {"topology", "shell"},                  class |-> "zone_composition_failure"],
    [marks |-> {"zones", "placeholder", "mutation"},   class |-> "zone_composition_failure"],
    [marks |-> {"layout", "visual"},                   class |-> "layout_composition_failure"]>>

Phrases == <<
    [marks |-> {"clone"},                              class |-> "clone_auth_failure"],
    [marks |-> {"environment"},                        class |-> "environment_failure"],
    [marks |-> {"layout", "topology", "placeholder"},  class |-> "layout_composition_failure"],
    [marks |-> {"zones"},                              class |-> "zone_composition_failure"],
    [marks |-> {"visual"},                             class |-> "visual_quality_failure"],
    [marks |-> {"mutation", "shell"},                  class |-> "mutation_authority_violation"],
    [marks |-> {"vite"},                               class |-> "frontend_syntax_failure"],
    [marks |-> {"syntax", "no_such_module"},           class |-> "syntax_failure"],
    [marks |-> {"no_module_named", "cannot_import"},   class |-> "dependency_failure"],
    [marks |-> {"network", "model_call"},              class |-> "transient"],
    [marks |-> {"contract"},                           class |-> "output_contract_invalid"],
    [marks |-> {"structural"},                         class |-> "structural_contract_violation"],
    [marks |-> {"patch"},                              class |-> "patch_apply_failure"],
    [marks |-> {"patch_size"},                         class |-> "patch_size_violation"],
    [marks |-> {"hex_color"},                          class |-> "design_token_violation"]>>

Matching(table, text) == {n \in DOMAIN table : table[n].marks \cap text # {}}
Matches(table, text) == Matching(table, text) # {}
First(table, text) ==
    table[CHOOSE n \in Matching(table, text) : \A m \in Matching(table, text) : n <= m].class

\* Only FRAMEWORK_VALIDATE looks for the messages of vite.
Legible(type, text) == IF type = "FRAMEWORK_VALIDATE" THEN text ELSE text \ {"vite"}

Unrecognised(type, text) ==
    IF type = "RUN_TESTS"
    THEN IF "failed" \in text THEN "test_assertion_failure" ELSE "test_failure"
    ELSE IF "not_found" \in text THEN "missing_context" ELSE "logic_failure"

classify_failure(type, text) ==
    IF type = "REVIEW_DIFF" THEN "policy_failure"
    ELSE IF type = "RUN_TESTS" /\ "stack" \in text THEN "stack_test_strategy_mismatch"
    ELSE IF text \cap {"budget", "budget_result"} # {} THEN "budget_exhausted"
    ELSE IF type \in FrontendTypes /\ Matches(Readiness, text) THEN First(Readiness, text)
    ELSE IF Matches(Phrases, Legible(type, text)) THEN First(Phrases, Legible(type, text))
    ELSE Unrecognised(type, text)

\* FAILURE_CLASS_MAP: what the budgets and the attempts call it.
FailureTypes == {"parser_error", "patch_apply_failed", "test_failed", "validation_drift",
                 "worker_stalled", "auth_failed", "scope_violation", "architecture_violation",
                 "unknown"}

FailureType(class) ==
    CASE class \in {"syntax_failure", "output_contract_invalid"} -> "parser_error"
      [] class = "patch_apply_failure" -> "patch_apply_failed"
      [] class \in {"test_assertion_failure", "test_failure"} -> "test_failed"
      [] class \in {"policy_failure", "design_token_violation"} -> "validation_drift"
      [] class = "clone_auth_failure" -> "auth_failed"
      [] class = "environment_failure" -> "worker_stalled"
      [] class \in {"missing_context", "patch_size_violation"} -> "scope_violation"
      [] class = "structural_contract_violation" -> "architecture_violation"
      [] OTHER -> "unknown"

-----------------------------------------------------------------------------
(* RECOVERY_POLICIES: which failures of a type are retried and which are   *)
(* repaired; a DONE repair of some types brings a retry.                   *)

BackendTypes == {"CODE_BACKEND", "GENERATE_ROUTE", "GENERATE_SERVICE", "GENERATE_REPOSITORY",
                 "GENERATE_CAPABILITY_BINDING"}

RetriedClasses(type) ==
    CASE type = "CODE_FRONTEND" -> {"patch_apply_failure", "output_contract_invalid",
                                    "structural_contract_violation", "design_token_violation",
                                    "transient"}
      [] type \in BackendTypes -> {"patch_apply_failure", "output_contract_invalid",
                                   "patch_size_violation", "transient"}
      [] type \in {"RUN_TESTS", "FRAMEWORK_VALIDATE"} -> {"transient"}
      [] OTHER -> {}

RepairedClasses(type) ==
    CASE type = "CODE_FRONTEND" -> {"layout_composition_failure", "zone_composition_failure",
                                    "frontend_syntax_failure", "visual_quality_failure",
                                    "mutation_authority_violation",
                                    "foundation_bootstrap_required"}
      [] type = "RUN_TESTS" -> {"stack_test_strategy_mismatch", "syntax_failure",
                                "dependency_failure", "test_assertion_failure", "test_failure"}
      [] type = "FRAMEWORK_VALIDATE" -> {"frontend_syntax_failure", "syntax_failure",
                                         "dependency_failure", "missing_context",
                                         "logic_failure"}
      [] type = "FIX_LAYOUT_COMPOSITION" -> {"foundation_bootstrap_required"}
      [] OTHER -> {}

\* plan_recovery of a failure
Action(type, class) ==
    CASE class \in RetriedClasses(type) -> "retry"
      [] class \in RepairedClasses(type) -> "spawn_fix_node"
      [] type = "REVIEW_DIFF" /\ class = "policy_failure" -> "block_run"
      [] OTHER -> "none"

\* The repairs whose DONE brings a retry, and the type _spawn_fix_node chooses.
RetryingFixes == {"FIX_TEST_FAILURE", "FIX_LAYOUT_COMPOSITION", "FIX_FRONTEND_SYNTAX"}
CountedFixes == RetryingFixes \cup {"FIX_ZONE_COMPOSITION", "FIX_VISUAL_QUALITY"}

FixType(class) ==
    CASE class = "layout_composition_failure" -> "FIX_LAYOUT_COMPOSITION"
      [] class \in {"zone_composition_failure", "mutation_authority_violation"}
             -> "FIX_ZONE_COMPOSITION"
      [] class = "frontend_syntax_failure" -> "FIX_FRONTEND_SYNTAX"
      [] class = "visual_quality_failure" -> "FIX_VISUAL_QUALITY"
      [] class = "foundation_bootstrap_required" -> "GENESIS_FOUNDATION"
      [] OTHER -> "FIX_TEST_FAILURE"

\* generate_work_dag makes no repairs and one item that runs the tests; neither
\* does a fork copy repairs or retries (_is_recovery_work_item).  The payload of
\* a repair says nothing of blocking.
ASSUME GraphAssumption ==
    /\ Optional \cap (CountedFixes \cup {"GENESIS_FOUNDATION"}) = {}
    /\ \A n \in DOMAIN Graph : Graph[n] \notin RetryingFixes
    /\ \A m, n \in DOMAIN Graph : Graph[m] = "RUN_TESTS" /\ Graph[n] = "RUN_TESTS" => m = n

\* _is_dependency_import_signature
ImportError(text) == text \cap {"no_such_module", "no_module_named"} # {}
RetryCap(text) == IF ImportError(text) THEN 1 ELSE TestRetries

-----------------------------------------------------------------------------
(* Rows.                                                                   *)

Ids == 1 .. Len(item)
NoId == 0

\* text is what the last execution printed.  same is the count of identical
\* signatures in its result, -1 where there is none; by is superseded_by.  Of
\* the payload: source is recovery_source_id, failed is failed_work_item_id,
\* action is recovery_action, signature is recovery_retry_signature.  of is a
\* record for the properties: the items of the graph whose work a row stands for.
NewItem(type) ==
    [type |-> type, status |-> "QUEUED", attempt |-> 0, text |-> {}, same |-> -1, by |-> NoId,
     source |-> NoId, failed |-> NoId, action |-> "-", signature |-> {}, of |-> {}]

IdleWorker == [pc |-> "idle", job |-> NoId, text |-> {}, same |-> -1, allowed |-> FALSE,
               room |-> FALSE]

Init ==
    /\ item = [n \in 1 .. Len(Graph) |-> [NewItem(Graph[n]) EXCEPT !.of = {n}]]
    /\ edges = GraphEdges
    /\ tries = <<>>
    /\ worker = [w \in Workers |-> IdleWorker]
    /\ overdue = FALSE
    /\ faults = 0

Retries(i) == item[i].action = "spawn_retry_node"
Superseded(i) == item[i].by # NoId

\* is_non_blocking_failure: the item is optional, or the executor's result says that
\* a budget was used up (budget_result; the claim does not read last_error).
Excused(row) == row.type \in Optional \/ "budget_result" \in row.text
Blocking(i) == item[i].status = "FAILED" /\ ~Superseded(i) /\ ~Excused(item[i])

\* is_dependency_satisfied; in the mistaken form, no failure blocks.
Ended(i) == item[i].status \in {"DONE", "FAILED"}
Satisfied(i) == item[i].status = "DONE" \/ (item[i].status = "FAILED" /\ ~Blocking(i))
\* A claim also passes over the runs whose tests it sees running, which a claim of the
\* tests at the same time escapes: left out.
Runnable(i) ==
    item[i].status = "QUEUED" /\ \A e \in edges : e[2] = i => Satisfied(e[1])

Class(i, text) == classify_failure(item[i].type, text)
Rule(i, text) == Action(item[i].type, Class(i, text))

-----------------------------------------------------------------------------
(* Budgets.                                                                *)

TriesOf(i) == Cardinality({n \in DOMAIN tries : tries[n].item = i})
TriesAt(type) == Cardinality({n \in DOMAIN tries : tries[n].type = type})

\* check_budget; in the mistaken form, without the count of the run.
UnboundedRun(i, type) == ~overdue /\ TriesOf(i) < MaxItem /\ TriesAt(type) < MaxType
WithinBudget(i, type) ==
    /\ ~overdue
    /\ TriesOf(i) < MaxItem
    /\ TriesAt(type) < MaxType
    /\ Len(tries) < MaxRun

Try(i, type) == Append(tries, [item |-> i, type |-> type])

\* The cap on repairs counts FIX types; another may spawn without limit.
Fixes == {i \in Ids : item[i].type \in CountedFixes}
RoomForFix == Cardinality(Fixes) < MaxFix

-----------------------------------------------------------------------------
(* Executions.                                                             *)

Claim(w, i) ==
    /\ worker[w].pc = "idle"
    /\ Runnable(i)
    /\ item' = [item EXCEPT ![i].status = "RUNNING"]
    /\ worker' = [worker EXCEPT ![w] = [IdleWorker EXCEPT !.pc = "executing", !.job = i]]
    /\ UNCHANGED <<edges, tries, overdue, faults>>

\* The worker dies, or its handler of failures fails ...
Abandon(w) ==
    /\ worker[w].pc # "idle"
    /\ faults < MaxFaults
    /\ faults' = faults + 1
    /\ worker' = [worker EXCEPT ![w] = IdleWorker]
    /\ UNCHANGED <<item, edges, tries, overdue>>

\* ... and the item returns to the queue when its lease has run out; in the
\* mistaken form, only if it has an attempt left.
OneRetryTooMany(i) == item[i].attempt + 1 <= MaxAttempts
RetriesLeft(i) == item[i].attempt + 1 < MaxAttempts

LeasedWithRetries(i) == item[i].status = "RUNNING" /\ RetriesLeft(i)
Leased(i) == item[i].status = "RUNNING"

Reclaim(i) ==
    /\ Leased(i)
    /\ \A w \in Workers : worker[w].job # i
    /\ item' = [item EXCEPT ![i].status = "QUEUED"]
    /\ UNCHANGED <<edges, tries, worker, overdue, faults>>

\* check_budget's limits on time and cost.
PassLimit ==
    /\ ~overdue
    /\ overdue' = TRUE
    /\ UNCHANGED <<item, edges, tries, worker, faults>>

Done(w) == worker' = [worker EXCEPT ![w] = IdleWorker]

\* The new row of a report without recovery.
Reported(i, status, text, same) ==
    [item[i] EXCEPT !.status = status, !.text = text, !.same = same]

-----------------------------------------------------------------------------
(* A report of FAILED.                                                     *)

\* An executor's verdict replaces the result, and with it the signature of the
\* failure before; an exception rolls back and keeps the old result.  All
\* signatures are equal while the recovery memory is off.
NextSame(i, raised) == IF raised /\ item[i].same >= 0 THEN item[i].same + 1 ELSE 0

MaxSameSignature == 2  \* MAX_SAME_FAILURE_SIGNATURE_RETRIES

\* No rule, or the same failure too often: nothing but the report.
FailUnrecovered(w, text, raised) ==
    LET i == worker[w].job
        none == Rule(i, text) = "none"
        same == NextSame(i, raised)
    IN  /\ worker[w].pc = "executing"
        /\ none \/ same >= MaxSameSignature
        /\ item' = [item EXCEPT ![i] = Reported(i, "FAILED", text,
                        IF ~none THEN same ELSE IF raised THEN @.same ELSE -1)]
        /\ Done(w)
        /\ UNCHANGED <<edges, tries, overdue, faults>>

\* Otherwise it reads the budgets ...
CheckBudget(w, text, raised) ==
    LET i == worker[w].job
        same == NextSame(i, raised)
    IN  /\ worker[w].pc = "executing"
        /\ Rule(i, text) # "none"
        /\ same < MaxSameSignature
        /\ worker' = [worker EXCEPT ![w].pc = "counted", ![w].text = text, ![w].same = same,
                          ![w].allowed = WithinBudget(i, FailureType(Class(i, text)))]
        /\ UNCHANGED <<item, edges, tries, overdue, faults>>

\* ... and, for a repair, counts the repairs.
CountFixes(w) ==
    /\ worker[w].pc = "counted"
    /\ worker[w].allowed
    /\ Rule(worker[w].job, worker[w].text) = "spawn_fix_node"
    /\ worker' = [worker EXCEPT ![w].pc = "sized", ![w].room = RoomForFix]
    /\ UNCHANGED <<item, edges, tries, overdue, faults>>

\* What the commit makes of the failed row.
FailedRow(w) == Reported(worker[w].job, "FAILED", worker[w].text, worker[w].same)

Escalate(w) ==
    /\ worker[w].pc = "counted"
    /\ ~worker[w].allowed
    /\ item' = [item EXCEPT ![worker[w].job] = FailedRow(w)]
    /\ Done(w)
    /\ UNCHANGED <<edges, tries, overdue, faults>>

\* create_attempt; in the mistaken form, no row is written.
Unattempted(w) == UNCHANGED tries
Attempted(w) ==
    LET i == worker[w].job IN tries' = Try(i, FailureType(Class(i, worker[w].text)))

\* An attempt is spent whether or not one of the item's own is left.
CommitRetry(w) ==
    LET i == worker[w].job
        row == FailedRow(w)
    IN  /\ worker[w].pc = "counted"
        /\ worker[w].allowed
        /\ Rule(i, worker[w].text) = "retry"
        /\ Attempted(w)
        /\ item' = [item EXCEPT ![i] =
               IF RetriesLeft(i)
               THEN [row EXCEPT !.status = "QUEUED", !.attempt = @ + 1, !.action = "retry"]
               ELSE row]
        /\ Done(w)
        /\ UNCHANGED <<edges, overdue, faults>>

CommitBlock(w) ==
    /\ worker[w].pc = "counted"
    /\ worker[w].allowed
    /\ Rule(worker[w].job, worker[w].text) = "block_run"
    /\ Attempted(w)
    /\ item' = [item EXCEPT ![worker[w].job] = FailedRow(w)]
    /\ Done(w)
    /\ UNCHANGED <<edges, overdue, faults>>

\* _spawn_fix_node: the repair waits for nothing, nothing waits for it.
Fix(w) ==
    [NewItem(FixType(Class(worker[w].job, worker[w].text)))
         EXCEPT !.failed = worker[w].job, !.action = "spawn_fix_node"]

CommitFix(w) ==
    LET failed == [item EXCEPT ![worker[w].job] = FailedRow(w)]
    IN  /\ worker[w].pc = "sized"
        /\ Attempted(w)
        /\ item' = IF worker[w].room THEN Append(failed, Fix(w)) ELSE failed
        /\ Done(w)
        /\ UNCHANGED <<edges, overdue, faults>>

-----------------------------------------------------------------------------
(* A report of DONE.  DONE stands for SKIPPED where no rule applies; a     *)
(* repair is not skipped: only test_executor skips, and it repairs nothing. *)

FailedTests == {i \in Ids : item[i].type = "RUN_TESTS" /\ item[i].status = "FAILED"}
Latest(S) == CHOOSE i \in S : \A j \in S : j <= i

\* Retries whose signature is that of the latest failed test run, among those
\* failed ones that still bear the mark of a spawned retry.
PriorRetries(text) == {i \in FailedTests : Retries(i) /\ item[i].signature = text}
MayRetryTests ==
    /\ FailedTests # {}
    /\ LET text == item[Latest(FailedTests)].text
       IN  text # {} => Cardinality(PriorRetries(text)) < RetryCap(text)

\* A repair spawns one retry of a failed item of the other two types, be that
\* item itself a retry.
MayRetryOriginal(i, fix) == item[i].status = "FAILED" /\ item[i].source = NoId
MayRetry(i, fix) ==
    /\ item[i].status = "FAILED"
    /\ \A j \in Ids : item[j].source = fix /\ item[j].type = item[i].type
                       => item[j].status = "FAILED"

Waiting(S) == {e \in edges : e[1] \in S}
KeepWaiting(S, new) == edges
Repoint(S, new) == (edges \ Waiting(S)) \cup {<<new, e[2]>> : e \in Waiting(S)}

\* The three _spawn_*_retry: the retry inherits the payload and the dependents
\* of the items in old, which it supersedes, and waits for the repair.
SpawnRetry(w, old, retry) ==
    LET fix == worker[w].job
        new == Len(item) + 1
        row(j) == IF j = fix THEN Reported(fix, "DONE", {}, 0)
                  ELSE IF j \in old THEN [item[j] EXCEPT !.by = new] ELSE item[j]
        works == UNION {item[j].of : j \in old}
    IN  /\ item' = Append([j \in Ids |-> row(j)], [retry EXCEPT !.of = works])
        /\ edges' = Repoint(old, new) \cup {<<fix, new>>}

RetryOf(i, fix) ==
    [NewItem(item[i].type) EXCEPT !.source = fix, !.action = "spawn_retry_node",
                                  !.failed = item[i].failed, !.signature = item[i].signature]

Finish(w) == item' = [item EXCEPT ![worker[w].job] = Reported(worker[w].job, "DONE", {}, -1)]

\* No rule, hence no attempt and no retry.
ReportDone(w) ==
    /\ worker[w].pc = "executing"
    /\ item[worker[w].job].type \notin RetryingFixes
    /\ Finish(w)
    /\ Done(w)
    /\ UNCHANGED <<edges, tries, overdue, faults>>

\* A repair is done, but the budget is used up.
ReportFixEscalated(w) ==
    /\ worker[w].pc = "executing"
    /\ item[worker[w].job].type \in RetryingFixes
    /\ ~WithinBudget(worker[w].job, FailureType("fix_applied"))
    /\ item' = [item EXCEPT ![worker[w].job] = Reported(worker[w].job, "DONE", {}, 0)]
    /\ Done(w)
    /\ UNCHANGED <<edges, tries, overdue, faults>>

\* ... or it brings a retry of what it repaired; for tests, of all that failed.
ReportFix(w) ==
    LET fix == worker[w].job
        failed == item[fix].failed
        type == IF failed = NoId THEN "RUN_TESTS" ELSE item[failed].type
    IN  /\ worker[w].pc = "executing"
        /\ item[fix].type \in RetryingFixes
        /\ WithinBudget(fix, FailureType("fix_applied"))
        /\ tries' = Try(fix, FailureType("fix_applied"))
        /\ CASE type \notin {"FRAMEWORK_VALIDATE", "CODE_FRONTEND"} /\ MayRetryTests ->
                    LET latest == Latest(FailedTests)
                    IN  SpawnRetry(w, FailedTests,
                            [RetryOf(latest, fix) EXCEPT !.signature = item[latest].text])
             [] type \in {"FRAMEWORK_VALIDATE", "CODE_FRONTEND"} /\ MayRetry(failed, fix) ->
                    SpawnRetry(w, {failed}, [RetryOf(failed, fix) EXCEPT !.failed = failed])
             [] OTHER -> /\ item' = [item EXCEPT ![fix] = Reported(fix, "DONE", {}, 0)]
                         /\ UNCHANGED edges
        /\ Done(w)
        /\ UNCHANGED <<overdue, faults>>

-----------------------------------------------------------------------------
ReportFailed(w) ==
    \/ \E text \in Texts, raised \in BOOLEAN :
       /\ raised => "budget_result" \notin text
       /\ \/ FailUnrecovered(w, text, raised)
          \/ CheckBudget(w, text, raised)
    \/ CountFixes(w)
    \/ Escalate(w)
    \/ CommitRetry(w)
    \/ CommitBlock(w)
    \/ CommitFix(w)

Report(w) == ReportFailed(w) \/ ReportDone(w) \/ ReportFixEscalated(w) \/ ReportFix(w)

Next ==
    \/ \E w \in Workers, i \in Ids : Claim(w, i)
    \/ \E w \in Workers : Abandon(w)
    \/ \E i \in Ids : Reclaim(i)
    \/ PassLimit
    \/ \E w \in Workers : Report(w)

Spec == Init /\ [][Next]_vars

\* Workers poll for items, reports end and the sweep of leases is periodic.
Fairness ==
    /\ \A w \in Workers : WF_vars(Report(w))
    /\ WF_vars(\E w \in Workers, i \in Ids : Claim(w, i))
    /\ WF_vars(\E i \in Ids : Reclaim(i))

FairSpec == Spec /\ Fairness
=============================================================================
