----------------------- MODULE WorkItemLease_proofs -----------------------
(***************************************************************************)
(* Theorems about WorkItemLease, for every set of items, agents and        *)
(* reclaimers and every bound.                                             *)
(***************************************************************************)
EXTENDS WorkItemLeaseProps, TLAPS

\* The initial value of a row is a row.
LEMMA FreshRowType == FreshRow \in Row
  BY ConstantsAssumption DEF FreshRow, Row, Status, Lease

\* Whatever mixture of its columns a worker writes back, a row stays a row.
LEMMA FlushType ==
  ASSUME NEW db \in Row, NEW was \in Row, NEW target \in Row
  PROVE  Flush(db, was, target) \in Row
  BY DEF Flush, Row

\* Renewing or expiring its lease leaves a row a row.
LEMMA RenewType ==
  ASSUME NEW r \in Row, NEW l \in Lease
  PROVE  [r EXCEPT !.lease = l] \in Row
  BY DEF Row

\* Type correctness: every row keeps a known status, an agent id or NULL, and
\* an attempt below max_attempts, whoever writes it.
LEMMA TypeInductive == TypeOK /\ [Next]_vars => TypeOK'
<1> USE ConstantsAssumption
<1> SUFFICES ASSUME TypeOK, [Next]_vars PROVE TypeOK'
  OBVIOUS
<1>1. ASSUME NEW a \in Agents, StartWorker(a) PROVE TypeOK'
  BY <1>1 DEF TypeOK, StartWorker, StartDisowns, Contexts, tickVars
<1>2. ASSUME NEW c \in Contexts, ContextStep(c) PROVE TypeOK'
  <2>1. CASE ClaimSelect(c)
    BY <2>1 DEF TypeOK, ClaimSelect, Claimable, tickVars, rowVars
  <2>2. CASE ClaimCommit(c)
    <3>1. PICK i \in Items :
              /\ row' = [row EXCEPT ![i] = ClaimedRow(row[i], actor[c])]
              /\ job' = [job EXCEPT ![c] = i]
              /\ astray' = astray \cup ClaimsDisowned(c, i)
      BY <2>2 DEF TypeOK, ClaimCommit, Lockable
    <3>2. actor[c] \in Agents
      BY <2>2 DEF TypeOK, ClaimCommit
    <3>3. row' \in [Items -> Row]
      BY <3>1, <3>2 DEF TypeOK, Row, Lease, Status, ClaimedRow
    <3>4. /\ pc' = [pc EXCEPT ![c] = "claimed"]
          /\ cands' = [cands EXCEPT ![c] = {}]
          /\ UNCHANGED <<agents, actor, loaded, ka, tickVars, faults>>
      BY <2>2 DEF ClaimCommit
    <3>5. astray' \subseteq Items
      BY <3>1 DEF TypeOK, ClaimsDisowned
    <3>6. job' \in [Contexts -> Items \cup {None}] /\ job'[c] \in Items
      BY <3>1 DEF TypeOK
    <3> QED BY <3>1, <3>2, <3>3, <3>4, <3>5, <3>6 DEF TypeOK, tickVars
  <2>3. CASE ClaimNothing(c)
    BY <2>3, FreshRowType DEF TypeOK, ClaimNothing, Drop, Resting, tickVars, rowVars, Contexts
  <2>4. CASE Load(c)
    BY <2>4 DEF TypeOK, Load, tickVars, rowVars
  <2>5. CASE Reports(c)
    <3> DEFINE i == job[c]
    <3>0. pc[c] = "running" /\ i \in Items /\ row[i] \in Row /\ loaded[c] \in Row
      BY <2>5 DEF TypeOK, Reports
    <3>1. \A r \in Row : Report(c, r) => TypeOK'
      BY <3>0, FreshRowType DEF TypeOK, Report, Drop, Resting, tickVars, Contexts
    <3>2. CASE ReportVerdict(c)
      <4>1. \A s \in Verdicts : [loaded[c] EXCEPT !.status = s] \in Row
        BY <3>0 DEF Row, Verdicts, Status
      <4>2. PICK s \in Verdicts :
                Report(c, Flush(row[i], loaded[c], [loaded[c] EXCEPT !.status = s]))
        BY <3>2 DEF ReportVerdict
      <4> QED BY <4>1, <4>2, <3>0, <3>1, FlushType
    <3>3. CASE ReportRetry(c)
      <4> DEFINE t == RetriedRow(loaded[c].attempt)
                 f == Flush(row[i], loaded[c], t)
      <4>1. t \in Row
        BY <3>0, <3>3 DEF ReportRetry, RetriedRow, RetriesLeft, Row, Status, Lease
      <4>2. f \in Row
        BY <3>0, <4>1, FlushType
      <4>3. [f EXCEPT !.status = "QUEUED"] \in Row
        BY <4>2 DEF Row, Status
      <4> QED BY <4>3, <3>1, <3>3 DEF ReportRetry
    <3>4. CASE ReportRaised(c)
      <4>1. [row[i] EXCEPT !.status = "FAILED"] \in Row
        BY <3>0 DEF Row, Status
      <4> QED BY <4>1, <3>1, <3>4 DEF ReportRaised
    <3>5. CASE ReportRaisedRetry(c)
      <4>1. RetriedRow(row[i].attempt) \in Row
        BY <3>0, <3>5 DEF ReportRaisedRetry, RetriedRow, RetriesLeft, Row, Status, Lease
      <4> QED BY <4>1, <3>1, <3>5 DEF ReportRaisedRetry
    <3> QED BY <2>5, <3>2, <3>3, <3>4, <3>5 DEF Reports
  <2> QED BY <1>2, <2>1, <2>2, <2>3, <2>4, <2>5 DEF ContextStep
<1>3. ASSUME NEW c \in Contexts, KeepaliveStep(c) PROVE TypeOK'
  <2>1. CASE KeepaliveRead(c)
    BY <2>1 DEF TypeOK, KeepaliveRead, tickVars, rowVars
  <2>2. CASE KeepaliveWrite(c)
    <3>1. row' \in [Items -> Row]
      <4>1. CASE job[c] \in Items
        <5>1. [row[job[c]] EXCEPT !.lease = "live"] \in Row
          <6>1. row[job[c]] \in Row
            BY <4>1 DEF TypeOK
          <6> QED BY <6>1, RenewType DEF Lease
        <5> QED BY <2>2, <4>1, <5>1 DEF TypeOK, KeepaliveWrite
      <4>2. CASE job[c] \notin Items
        <5>1. row' = row
          BY <2>2, <4>2 DEF TypeOK, KeepaliveWrite
        <5> QED BY <5>1 DEF TypeOK
      <4> QED BY <4>1, <4>2
    <3> QED BY <2>2, <3>1 DEF TypeOK, KeepaliveWrite, tickVars
  <2> QED BY <1>3, <2>1, <2>2 DEF KeepaliveStep
<1>4. ASSUME NEW i \in Items, Expire(i), faults' \in 0 .. MaxFaults PROVE TypeOK'
  <2>1. row' \in [Items -> Row]
    <3>1. row[i] \in Row
      BY DEF TypeOK
    <3>2. [row[i] EXCEPT !.lease = "expired"] \in Row
      BY <3>1, RenewType DEF Lease
    <3> QED BY <1>4, <3>2 DEF TypeOK, Expire
  <2>2. astray' \subseteq Items
    BY <1>4 DEF TypeOK, Expire, ExpiresHeld
  <2> QED BY <1>4, <2>1, <2>2 DEF TypeOK, Expire, tickVars, ctxVars
<1>5. ASSUME NEW r \in Reclaimers, TickStep(r) PROVE TypeOK'
  <2>1. CASE ScanExpired(r)
    BY <2>1 DEF TypeOK, ScanExpired, ExpiredLeases, rowVars, ctxVars
  <2>2. CASE SweepExpired(r)
    BY <2>2 DEF TypeOK, SweepExpired, Requeued, Orphans, rowVars, ctxVars
  <2>3. CASE SweepOrphaned(r)
    BY <2>3 DEF TypeOK, SweepOrphaned, Requeued, rowVars, ctxVars
  <2>4. CASE Nudge(r)
    BY <2>4 DEF TypeOK, Nudge, rowVars, Contexts
  <2>5. CASE CommitTick(r)
    <3>1. row' \in [Items -> Row]
      BY <2>5 DEF TypeOK, CommitTick, RequeuedRow, Row, Status, Lease
    <3>2. astray' \subseteq Items
      BY <2>5 DEF TypeOK, CommitTick, CommitOvertaken
    <3> QED BY <2>5, <3>1, <3>2 DEF TypeOK, CommitTick, ctxVars
  <2> QED BY <1>5, <2>1, <2>2, <2>3, <2>4, <2>5 DEF TickStep
<1>6. ASSUME Faults PROVE TypeOK'
  <2>1. ASSUME NEW c \in Contexts, AbortReport(c) PROVE TypeOK'
    BY <2>1, FreshRowType DEF TypeOK, AbortReport, Drop, Resting, rowVars, Contexts
  <2>2. ASSUME NEW c \in Contexts, KeepaliveLapse(c) PROVE TypeOK'
    BY <2>2 DEF TypeOK, KeepaliveLapse, rowVars, tickVars
  <2>3. ASSUME NEW a \in Agents, CrashWorker(a) PROVE TypeOK'
    BY <2>3, FreshRowType DEF TypeOK, CrashWorker, Drop, rowVars, tickVars, Contexts
  <2>4. ASSUME NEW r \in Reclaimers, CrashTick(r) PROVE TypeOK'
    BY <2>4, FreshRowType DEF TypeOK, CrashTick, Drop, rowVars, Contexts
  <2>5. ASSUME NEW i \in Items, LeaseOverruns(i) PROVE TypeOK'
    <3>1. Expire(i) /\ faults' \in 0 .. MaxFaults
      BY <2>5 DEF TypeOK, LeaseOverruns
    <3> QED BY <1>4, <3>1
  <2> QED BY <1>6, <2>1, <2>2, <2>3, <2>4, <2>5 DEF Faults
<1>7. CASE UNCHANGED vars
  BY <1>7 DEF TypeOK, vars
<1>8. ASSUME NEW i \in Items, LeaseExpires(i) PROVE TypeOK'
  <2>1. Expire(i) /\ faults' \in 0 .. MaxFaults
    BY <1>8 DEF TypeOK, LeaseExpires
  <2> QED BY <1>4, <2>1
<1> QED BY <1>1, <1>2, <1>3, <1>5, <1>6, <1>7, <1>8 DEF Next

THEOREM TypeCorrect == Spec => []TypeOK
<1>1. Init => TypeOK
  BY ConstantsAssumption, FreshRowType DEF Init, TypeOK
<1> QED BY <1>1, TypeInductive, PTL DEF Spec

-----------------------------------------------------------------------------
(* Every environment: a running row can be reclaimed.                      *)

\* No step leaves a running row without an agent or without a lease: claims
\* set both, and the columns a stale report writes back are its status alone
\* or all of a requeue.
LEMMA ReclaimableInductive ==
  TypeOK /\ RunningIsReclaimable /\ [Next]_vars => RunningIsReclaimable'
<1> USE ConstantsAssumption
<1> SUFFICES ASSUME TypeOK, RunningIsReclaimable, [Next]_vars
             PROVE  RunningIsReclaimable'
  OBVIOUS
<1>1. CASE UNCHANGED row
  BY <1>1 DEF RunningIsReclaimable
<1>2. ASSUME NEW c \in Contexts, ClaimCommit(c) PROVE RunningIsReclaimable'
  <2>1. PICK i \in Items :
            row' = [row EXCEPT ![i] = ClaimedRow(row[i], actor[c])]
    BY <1>2 DEF TypeOK, ClaimCommit, Lockable
  <2>2. actor[c] # None
    BY <1>2 DEF TypeOK, ClaimCommit
  <2> QED BY <2>1, <2>2 DEF TypeOK, RunningIsReclaimable, ClaimedRow
<1>3. ASSUME NEW c \in Contexts, Reports(c) PROVE RunningIsReclaimable'
  <2> DEFINE i == job[c]
  <2>0. i \in Items /\ row[i] \in Row /\ loaded[c] \in Row
    BY <1>3 DEF TypeOK, Reports
  <2>1. ASSUME NEW r, Report(c, r), r.status # "RUNNING" PROVE RunningIsReclaimable'
    BY <2>0, <2>1 DEF TypeOK, RunningIsReclaimable, Report
  <2>2. CASE ReportVerdict(c)
    <3>1. PICK s \in Verdicts :
              Report(c, Flush(row[i], loaded[c], [loaded[c] EXCEPT !.status = s]))
      BY <2>2 DEF ReportVerdict
    <3> DEFINE f == Flush(row[i], loaded[c], [loaded[c] EXCEPT !.status = s])
    <3>2. CASE s # loaded[c].status
      <4>1. f.status # "RUNNING"
        BY <2>0, <3>2 DEF Flush, Verdicts, Row
      <4> QED BY <2>1, <3>1, <4>1
    <3>3. CASE s = loaded[c].status
      <4>1. f = row[i]
        BY <2>0, <3>3 DEF Flush, Row
      <4>2. row' = row
        BY <2>0, <3>1, <4>1 DEF Report, TypeOK
      <4> QED BY <1>1, <4>2
    <3> QED BY <3>2, <3>3
  <2>3. CASE ReportRetry(c)
    <3>1. PICK r : Report(c, r) /\ r.status # "RUNNING"
      BY <2>3 DEF ReportRetry, Flush
    <3> QED BY <2>1, <3>1
  <2>4. CASE ReportRaised(c)
    <3>1. PICK r : Report(c, r) /\ r.status # "RUNNING"
      <4>1. [row[i] EXCEPT !.status = "FAILED"].status = "FAILED"
        BY <2>0 DEF Row
      <4> QED BY <2>4, <4>1 DEF ReportRaised
    <3> QED BY <2>1, <3>1
  <2>5. CASE ReportRaisedRetry(c)
    BY <2>1, <2>5 DEF ReportRaisedRetry, RetriedRow
  <2> QED BY <1>3, <2>2, <2>3, <2>4, <2>5 DEF Reports
<1>4. ASSUME NEW c \in Contexts, KeepaliveWrite(c) PROVE RunningIsReclaimable'
  BY <1>4 DEF TypeOK, RunningIsReclaimable, KeepaliveWrite, Row
<1>5. ASSUME NEW i \in Items, Expire(i) PROVE RunningIsReclaimable'
  BY <1>5 DEF TypeOK, RunningIsReclaimable, Expire, Row
<1>6. ASSUME NEW r \in Reclaimers, CommitTick(r) PROVE RunningIsReclaimable'
  BY <1>6 DEF TypeOK, RunningIsReclaimable, CommitTick, RequeuedRow
<1>7. ASSUME NEW c \in Contexts, ContextStep(c) PROVE RunningIsReclaimable'
  BY <1>1, <1>2, <1>3, <1>7
     DEF ContextStep, ClaimSelect, ClaimNothing, Load, rowVars
<1>8. ASSUME NEW r \in Reclaimers, TickStep(r) PROVE RunningIsReclaimable'
  BY <1>1, <1>6, <1>8
     DEF TickStep, ScanExpired, SweepExpired, SweepOrphaned, Nudge, rowVars
<1>9. CASE Faults
  BY <1>1, <1>5, <1>9
     DEF Faults, AbortReport, KeepaliveLapse, LeaseOverruns, CrashWorker, CrashTick, rowVars
<1>10. ASSUME NEW c \in Contexts, KeepaliveStep(c) PROVE RunningIsReclaimable'
  BY <1>1, <1>4, <1>10 DEF KeepaliveStep, KeepaliveRead, rowVars
<1>11. ASSUME NEW a \in Agents, StartWorker(a) PROVE RunningIsReclaimable'
  BY <1>1, <1>11 DEF StartWorker
<1>12. CASE UNCHANGED vars
  BY <1>1, <1>12 DEF vars
<1> QED BY <1>5, <1>7, <1>8, <1>9, <1>10, <1>11, <1>12 DEF Next, LeaseExpires

\* In every environment - starved keepalive loops, two reclaimers, disowned
\* workers - a running row names an agent and carries a lease.
THEOREM Reclaimable == Spec => []RunningIsReclaimable
<1>1. Init => RunningIsReclaimable
  BY DEF Init, RunningIsReclaimable, FreshRow
<1>2. Spec => []TypeOK
  BY TypeCorrect
<1> QED BY <1>1, <1>2, ReclaimableInductive, PTL DEF Spec

-----------------------------------------------------------------------------
(* LeaseInv is inductive: how the steps change who executes what.          *)

\* A context that drops its item stops executing; nobody else starts, and the
\* others act for whom they acted.
LEMMA DropExecuting ==
  ASSUME TypeOK, NEW c \in Contexts, NEW next \in {"idle", "off"}, Drop(c, next)
  PROVE  \A d \in Contexts :
             /\ \A i \in Items : Executing(d, i)' => Executing(d, i) /\ d # c
             /\ d # c => actor'[d] = actor[d]
  BY DEF TypeOK, Drop, Executing

\* The parts of LeaseInv survive a context dropping its item, as long as the
\* rows others rely on are left alone.
LEMMA DropPreserves ==
  ASSUME TypeOK, LeaseInv, NEW c \in Contexts, NEW next \in {"idle", "off"},
         Drop(c, next), agents' = agents, astray' = astray,
         next = "idle" => pc[c] # "off" /\ c \in Agents,
         \A i \in Items : row'[i] # row[i] => Executing(c, i)
  PROVE  /\ ExclusiveExecution'
         /\ HolderIsRecorded'
         /\ ActorIsActive'
         /\ LoadedIsCurrent'
         /\ KeepaliveRuns'
<1> USE DEF LeaseInv, Kept
<1>1. \A d \in Contexts : \A i \in Items :
          Executing(d, i)' => Executing(d, i) /\ d # c /\ actor'[d] = actor[d]
  BY DropExecuting
<1>2. \A d \in Contexts : \A i \in Kept : Executing(d, i)' => row'[i] = row[i]
  BY <1>1 DEF ExclusiveExecution
<1>3. ExclusiveExecution'
  BY <1>1 DEF ExclusiveExecution
<1>4. HolderIsRecorded'
  BY <1>1, <1>2 DEF HolderIsRecorded
<1>5. ActorIsActive'
  <2>1. \A a \in Agents : agents[a] = "unregistered" => pc'[a] = "off"
    BY DEF ActorIsActive, TypeOK, Drop, Contexts
  <2>2. \A i \in Kept : \A d \in Contexts : Executing(d, i)' => agents[actor'[d]] = "ACTIVE"
    BY <1>1 DEF ActorIsActive
  <2> QED BY <2>1, <2>2 DEF ActorIsActive
<1>6. LoadedIsCurrent'
  <2> SUFFICES ASSUME NEW d \in Contexts, pc'[d] = "running", job'[d] \in Kept
               PROVE  loaded'[d] = row'[job'[d]]
    BY DEF LoadedIsCurrent
  <2>1. d # c /\ pc[d] = "running" /\ job'[d] = job[d] /\ loaded'[d] = loaded[d]
    BY DEF TypeOK, Drop
  <2>2. job[d] \in Kept /\ Executing(d, job[d])'
    BY <2>1 DEF TypeOK, Executing
  <2> QED BY <1>2, <2>1, <2>2 DEF LoadedIsCurrent
<1>7. KeepaliveRuns'
  BY DEF KeepaliveRuns, TypeOK, Drop
<1> QED BY <1>3, <1>4, <1>5, <1>6, <1>7

\* The parts of LeaseInv that speak of contexts and rows survive a step that
\* changes neither, whatever lease it breaks.
LEMMA ContextsUnchanged ==
  ASSUME LeaseInv, UNCHANGED <<row, agents, pc, actor, job, loaded, ka>>,
         astray \subseteq astray'
  PROVE  /\ ExclusiveExecution' /\ HolderIsRecorded' /\ ActorIsActive'
         /\ LoadedIsCurrent' /\ KeepaliveRuns'
         /\ \A d \in Contexts : \A i \in Items : Executing(d, i)' <=> Executing(d, i)
<1>1. \A d \in Contexts : \A i \in Items : Executing(d, i)' <=> Executing(d, i)
  BY DEF Executing
<1>2. ExclusiveExecution' /\ HolderIsRecorded'
  BY <1>1 DEF LeaseInv, ExclusiveExecution, HolderIsRecorded, Kept
<1>3. ActorIsActive' /\ LoadedIsCurrent' /\ KeepaliveRuns'
  BY <1>1 DEF LeaseInv, ActorIsActive, LoadedIsCurrent, KeepaliveRuns, Kept
<1> QED BY <1>1, <1>2, <1>3

-----------------------------------------------------------------------------
(* One lemma per action.                                                   *)

\* A local start disowns the executions of the others, and marks their items.
LEMMA StartPreserves ==
  ASSUME TypeOK, LeaseInv, NEW a \in Agents, StartWorker(a)
  PROVE  LeaseInv'
<1> USE DEF LeaseInv, Kept
<1>0. /\ pc[a] = "off" /\ a \in Contexts
      /\ astray' = astray \cup StartDisowns(a)
      /\ UNCHANGED <<row, job, loaded, ka, phase, seen, held>>
  BY DEF StartWorker, ActorIsActive, Contexts, tickVars
<1>1. \A d \in Contexts : \A i \in Items :
          Executing(d, i)' => Executing(d, i) /\ d # a /\ actor'[d] = actor[d]
  BY DEF TypeOK, StartWorker, Executing, Contexts
<1>2. ExclusiveExecution'
  BY <1>0, <1>1 DEF ExclusiveExecution
<1>3. HolderIsRecorded'
  BY <1>0, <1>1 DEF HolderIsRecorded
<1>4. ReclaimsOnlyAbandoned' /\ LocksAreExclusive'
  BY <1>0, <1>1 DEF ReclaimsOnlyAbandoned, LocksAreExclusive, TypeOK
<1>5. TickPhases'
  <2>1. \A r \in Reclaimers : pc'[r] = pc[r]
    BY ConstantsAssumption DEF StartWorker, TypeOK, Contexts
  <2> QED BY <1>0, <2>1 DEF TickPhases
<1>6. ActorIsActive'
  <2>1. \A b \in Agents : agents'[b] = "unregistered" => pc'[b] = "off"
    BY <1>0 DEF ActorIsActive, StartWorker, TypeOK, Contexts
  <2>2. ASSUME NEW i \in Items, i \notin astray', NEW d \in Contexts, Executing(d, i)'
        PROVE  agents'[actor'[d]] = "ACTIVE"
    <3>1. Executing(d, i) /\ actor'[d] = actor[d] /\ actor[d] \in Agents
      BY <1>1, <2>2 DEF Executing, TypeOK
    <3>2. agents[actor[d]] = "ACTIVE" /\ i \notin StartDisowns(a)
      BY <1>0, <2>2, <3>1 DEF ActorIsActive
    <3>3. actor[d] = a \/ ~LocalEnv
      BY <3>1, <3>2 DEF StartDisowns
    <3> QED BY <3>1, <3>2, <3>3 DEF StartWorker
  <2> QED BY <2>1, <2>2 DEF ActorIsActive
<1>7. LoadedIsCurrent'
  BY <1>0 DEF LoadedIsCurrent, StartWorker, TypeOK
<1>8. KeepaliveRuns'
  BY <1>0 DEF KeepaliveRuns, StartWorker, TypeOK
<1> QED BY <1>2, <1>3, <1>4, <1>5, <1>6, <1>7, <1>8

LEMMA ClaimSelectPreserves ==
  ASSUME TypeOK, LeaseInv, NEW c \in Contexts, ClaimSelect(c)
  PROVE  LeaseInv'
<1> USE DEF LeaseInv, Kept
<1>0. UNCHANGED <<row, agents, actor, job, loaded, ka, phase, seen, held, astray>>
  BY DEF ClaimSelect, rowVars, tickVars
<1>1. \A d \in Contexts : \A i \in Items : Executing(d, i)' <=> Executing(d, i)
  BY DEF TypeOK, ClaimSelect, Executing
<1>2. \A d \in Contexts : /\ pc'[d] = "running" <=> pc[d] = "running"
                          /\ pc'[d] = "off" <=> pc[d] = "off"
  BY DEF ClaimSelect, TypeOK
<1>3. ExclusiveExecution' /\ HolderIsRecorded'
  BY <1>0, <1>1 DEF ExclusiveExecution, HolderIsRecorded
<1>4. ReclaimsOnlyAbandoned' /\ LocksAreExclusive'
  BY <1>0, <1>1 DEF ReclaimsOnlyAbandoned, LocksAreExclusive, TypeOK
<1>5. TickPhases' /\ ActorIsActive'
  BY <1>0, <1>1, <1>2 DEF TickPhases, ActorIsActive, Contexts
<1>6. LoadedIsCurrent' /\ KeepaliveRuns'
  BY <1>0, <1>2 DEF LoadedIsCurrent, KeepaliveRuns
<1> QED BY <1>3, <1>4, <1>5, <1>6

\* A claim takes a row that is queued, so nobody executes it; a claim of a
\* worker marked inactive since its check is marked.
LEMMA ClaimCommitPreserves ==
  ASSUME TypeOK, LeaseInv, NEW c \in Contexts, ClaimCommit(c)
  PROVE  LeaseInv'
<1> USE DEF LeaseInv, Kept
<1>0. PICK i \in Items :
          /\ i \in Lockable(c)
          /\ row' = [row EXCEPT ![i] = ClaimedRow(row[i], actor[c])]
          /\ job' = [job EXCEPT ![c] = i]
          /\ astray' = astray \cup ClaimsDisowned(c, i)
  BY DEF TypeOK, ClaimCommit, Lockable
<1>1. row[i].status = "QUEUED" /\ (i \in Kept => \A d \in Contexts : ~Executing(d, i))
  BY <1>0 DEF Lockable, HolderIsRecorded
<1>2. /\ pc[c] = "selecting"
      /\ pc' = [pc EXCEPT ![c] = "claimed"]
      /\ UNCHANGED <<agents, actor, loaded, ka, phase, seen, held>>
  BY DEF ClaimCommit, tickVars
<1>3. \A d \in Contexts : \A j \in Items :
          Executing(d, j)' <=> (Executing(d, j) \/ (d = c /\ j = i))
  BY <1>0, <1>2 DEF TypeOK, Executing
<1>4. \A j \in Items : j # i => row'[j] = row[j]
  BY <1>0 DEF TypeOK
<1>5. /\ row'[i].status = "RUNNING"
      /\ row'[i].agent = actor[c]
      /\ row'[i].lease = "live"
  BY <1>0 DEF TypeOK, ClaimedRow
<1>6. ~\E j \in Items : Executing(c, j)
  BY <1>2 DEF Executing
<1>7. astray \subseteq astray'
  BY <1>0
<1>8. ExclusiveExecution'
  BY <1>1, <1>3, <1>6, <1>7 DEF ExclusiveExecution
<1>9. HolderIsRecorded'
  BY <1>1, <1>2, <1>3, <1>4, <1>5, <1>6, <1>7 DEF HolderIsRecorded
<1>10. ReclaimsOnlyAbandoned' /\ LocksAreExclusive'
  <2>1. ASSUME NEW r \in Reclaimers, NEW j \in (seen[r] \cup held[r]) \ astray'
        PROVE  row'[j].status = "RUNNING" /\ \A d \in Contexts : ~Executing(d, j)'
    <3>1. j \in Items /\ j # i
      BY <1>1, <1>7, <2>1 DEF ReclaimsOnlyAbandoned, TypeOK
    <3> QED BY <1>3, <1>4, <1>7, <2>1, <3>1 DEF ReclaimsOnlyAbandoned
  <2> QED BY <1>2, <2>1 DEF ReclaimsOnlyAbandoned, LocksAreExclusive
<1>11. TickPhases'
  BY <1>2 DEF TickPhases, TypeOK, Contexts
<1>12. ActorIsActive'
  <2>1. \A a \in Agents : agents[a] = "unregistered" => pc'[a] = "off"
    BY <1>2 DEF ActorIsActive, TypeOK, Contexts
  <2>2. ASSUME NEW j \in Items, j \notin astray', NEW d \in Contexts, Executing(d, j)'
        PROVE  agents[actor[d]] = "ACTIVE"
    <3>1. CASE Executing(d, j)
      BY <1>7, <2>2, <3>1 DEF ActorIsActive
    <3>2. CASE d = c /\ j = i
      BY <1>0, <2>2, <3>2 DEF ClaimsDisowned
    <3> QED BY <1>3, <2>2, <3>1, <3>2
  <2> QED BY <1>2, <2>1, <2>2 DEF ActorIsActive
<1>13. LoadedIsCurrent'
  <2> SUFFICES ASSUME NEW d \in Contexts, pc'[d] = "running",
                      job'[d] \in Items, job'[d] \notin astray'
               PROVE  loaded'[d] = row'[job'[d]]
    BY DEF LoadedIsCurrent
  <2>1. d # c /\ pc[d] = "running" /\ job'[d] = job[d] /\ loaded'[d] = loaded[d]
    BY <1>0, <1>2 DEF TypeOK
  <2>2. job[d] \in Kept /\ Executing(d, job[d])
    BY <1>7, <2>1 DEF TypeOK, Executing
  <2> QED BY <1>1, <1>4, <2>1, <2>2 DEF LoadedIsCurrent
<1>14. KeepaliveRuns'
  BY <1>2 DEF KeepaliveRuns, TypeOK
<1> QED BY <1>8, <1>9, <1>10, <1>11, <1>12, <1>13, <1>14

LEMMA ClaimNothingPreserves ==
  ASSUME TypeOK, LeaseInv, NEW c \in Contexts, ClaimNothing(c)
  PROVE  LeaseInv'
<1> USE DEF LeaseInv, Kept
<1>0. /\ Drop(c, Resting(c))
      /\ Resting(c) \in {"idle", "off"}
      /\ Resting(c) = "idle" => c \in Agents
      /\ pc[c] # "off"
      /\ UNCHANGED <<row, agents, phase, seen, held, astray>>
  BY DEF ClaimNothing, Resting, rowVars, tickVars
<1>1. /\ ExclusiveExecution'
      /\ HolderIsRecorded'
      /\ ActorIsActive'
      /\ LoadedIsCurrent'
      /\ KeepaliveRuns'
  BY <1>0, DropPreserves
<1>2. \A d \in Contexts : \A i \in Items : Executing(d, i)' => Executing(d, i)
  BY <1>0, DropExecuting
<1>3. ReclaimsOnlyAbandoned' /\ LocksAreExclusive'
  BY <1>0, <1>2 DEF ReclaimsOnlyAbandoned, LocksAreExclusive, TypeOK
<1>4. TickPhases'
  <2>1. \A r \in Reclaimers : pc'[r] # "off" => pc[r] # "off"
    BY <1>0 DEF Drop, TypeOK, Contexts
  <2> QED BY <1>0, <2>1 DEF TickPhases
<1> QED BY <1>1, <1>3, <1>4

LEMMA LoadPreserves ==
  ASSUME TypeOK, LeaseInv, NEW c \in Contexts, Load(c)
  PROVE  LeaseInv'
<1> USE DEF LeaseInv, Kept
<1>0. /\ pc[c] = "claimed" /\ pc' = [pc EXCEPT ![c] = "running"]
      /\ UNCHANGED <<row, agents, actor, job, phase, seen, held, astray>>
  BY DEF Load, rowVars, tickVars
<1>1. \A d \in Contexts : \A i \in Items : Executing(d, i)' <=> Executing(d, i)
  BY <1>0 DEF TypeOK, Executing
<1>2. ExclusiveExecution' /\ HolderIsRecorded'
  BY <1>0, <1>1 DEF ExclusiveExecution, HolderIsRecorded
<1>3. ReclaimsOnlyAbandoned' /\ LocksAreExclusive'
  BY <1>0, <1>1 DEF ReclaimsOnlyAbandoned, LocksAreExclusive, TypeOK
<1>4. TickPhases' /\ ActorIsActive'
  <2>1. \A d \in Contexts : pc'[d] = "off" <=> pc[d] = "off"
    BY <1>0 DEF TypeOK
  <2> QED BY <1>0, <1>1, <2>1 DEF TickPhases, ActorIsActive, Contexts
<1>5. LoadedIsCurrent'
  BY <1>0 DEF LoadedIsCurrent, Load, TypeOK
<1>6. KeepaliveRuns'
  BY DEF KeepaliveRuns, Load, TypeOK
<1> QED BY <1>2, <1>3, <1>4, <1>5, <1>6

\* A report changes the row of the item its context executes, which no
\* reclaimer has in hand and nobody else executes.
LEMMA ReportPreserves ==
  ASSUME TypeOK, LeaseInv, NEW c \in Contexts, pc[c] = "running",
         NEW newRow, Report(c, newRow)
  PROVE  LeaseInv'
<1> USE DEF LeaseInv, Kept
<1>0. /\ Drop(c, Resting(c))
      /\ Resting(c) \in {"idle", "off"}
      /\ Resting(c) = "idle" => c \in Agents
      /\ UNCHANGED <<agents, phase, seen, held, astray>>
  BY DEF Report, Resting, tickVars
<1>1. job[c] \in Items /\ Executing(c, job[c])
  BY DEF TypeOK, Executing
<1>2. \A i \in Items : row'[i] # row[i] => Executing(c, i)
  BY <1>1 DEF Report, TypeOK
<1>3. /\ ExclusiveExecution'
      /\ HolderIsRecorded'
      /\ ActorIsActive'
      /\ LoadedIsCurrent'
      /\ KeepaliveRuns'
  BY <1>0, <1>2, DropPreserves
<1>4. \A d \in Contexts : \A i \in Items : Executing(d, i)' => Executing(d, i)
  BY <1>0, DropExecuting
<1>5. ReclaimsOnlyAbandoned' /\ LocksAreExclusive'
  BY <1>0, <1>2, <1>4 DEF ReclaimsOnlyAbandoned, LocksAreExclusive, TypeOK
<1>6. TickPhases'
  <2>1. \A r \in Reclaimers : pc'[r] # "off" => pc[r] # "off"
    BY <1>0 DEF Drop, TypeOK, Contexts
  <2> QED BY <1>0, <2>1 DEF TickPhases
<1> QED BY <1>3, <1>5, <1>6

\* The keepalive loop of an execution whose lease was not broken rewrites the
\* lease it finds.
LEMMA KeepaliveRewrites ==
  ASSUME TypeOK, LeaseInv, NEW c \in Contexts, KeepaliveStep(c)
  PROVE  /\ \A i \in Items : /\ i \notin astray => row'[i] = row[i]
                             /\ row'[i] = [row[i] EXCEPT !.lease = row'[i].lease]
         /\ UNCHANGED <<agents, pc, actor, job, loaded, phase, seen, held, astray>>
<1>1. CASE KeepaliveRead(c)
  BY <1>1 DEF KeepaliveRead, rowVars, tickVars, TypeOK, Row
<1>2. CASE KeepaliveWrite(c)
  <2> DEFINE j == job[c]
  <2>1. pc[c] = "running" /\ j \in Items /\ row[j] \in Row
    BY <1>2 DEF KeepaliveWrite, LeaseInv, KeepaliveRuns, TypeOK
  <2>2. /\ \A i \in Items : i # j => row'[i] = row[i]
        /\ row'[j] = [row[j] EXCEPT !.lease = "live"]
    BY <1>2, <2>1 DEF KeepaliveWrite, TypeOK
  <2>3. j \notin astray => row[j].lease = "live"
    BY <2>1 DEF LeaseInv, HolderIsRecorded, Executing, Kept
  <2>4. \A i \in Items : row[i] = [row[i] EXCEPT !.lease = row[i].lease]
    BY DEF TypeOK, Row
  <2>5. row'[j].lease = "live" /\ (row[j].lease = "live" => row'[j] = row[j])
    BY <2>1, <2>2 DEF Row
  <2>6. \A i \in Items : i \notin astray => row'[i] = row[i]
    BY <2>2, <2>3, <2>5
  <2>7. \A i \in Items : row'[i] = [row[i] EXCEPT !.lease = row'[i].lease]
    BY <2>2, <2>4, <2>5
  <2>8. UNCHANGED <<agents, pc, actor, job, loaded, phase, seen, held, astray>>
    BY <1>2 DEF KeepaliveWrite, tickVars
  <2> QED BY <2>6, <2>7, <2>8
<1> QED BY <1>1, <1>2 DEF KeepaliveStep

LEMMA KeepalivePreserves ==
  ASSUME TypeOK, LeaseInv, NEW c \in Contexts, KeepaliveStep(c)
  PROVE  LeaseInv'
<1> USE DEF LeaseInv, Kept
<1>1. /\ \A i \in Items : i \notin astray => row'[i] = row[i]
      /\ UNCHANGED <<agents, pc, actor, job, loaded, phase, seen, held, astray>>
  BY KeepaliveRewrites
<1>2. \A d \in Contexts : \A i \in Items : Executing(d, i)' <=> Executing(d, i)
  BY <1>1 DEF Executing
<1>3. KeepaliveRuns'
  <2>1. ka[c] # "off" /\ \A d \in Contexts : d # c => ka'[d] = ka[d]
    BY DEF KeepaliveStep, KeepaliveRead, KeepaliveWrite, TypeOK
  <2> QED BY <1>1, <2>1 DEF KeepaliveRuns
<1>4. ExclusiveExecution' /\ HolderIsRecorded'
  BY <1>1, <1>2 DEF ExclusiveExecution, HolderIsRecorded
<1>5. ReclaimsOnlyAbandoned' /\ LocksAreExclusive' /\ TickPhases'
  BY <1>1, <1>2 DEF ReclaimsOnlyAbandoned, LocksAreExclusive, TickPhases, TypeOK
<1>6. ActorIsActive' /\ LoadedIsCurrent'
  BY <1>1, <1>2 DEF ActorIsActive, LoadedIsCurrent
<1> QED BY <1>3, <1>4, <1>5, <1>6

\* Only a lease nobody lives on runs out, unless it is marked as broken.
LEMMA ExpirePreserves ==
  ASSUME TypeOK, LeaseInv, NEW i \in Items, Expire(i)
  PROVE  LeaseInv'
<1> USE DEF LeaseInv, Kept
<1>0. /\ astray' = astray \cup ExpiresHeld(i)
      /\ UNCHANGED <<agents, pc, actor, job, loaded, ka, phase, seen, held>>
  BY DEF Expire, ctxVars, tickVars
<1>1. i \notin astray' => \A c \in Contexts : ~Executing(c, i)
  BY <1>0 DEF ExpiresHeld
<1>2. \A d \in Contexts : \A j \in Items : Executing(d, j)' <=> Executing(d, j)
  BY <1>0 DEF Executing
<1>3. \A j \in Items : j # i => row'[j] = row[j]
  BY DEF Expire, TypeOK
<1>4. row'[i].status = "RUNNING"
  BY DEF Expire, TypeOK, Row
<1>5. ExclusiveExecution' /\ HolderIsRecorded'
  BY <1>0, <1>1, <1>2, <1>3 DEF ExclusiveExecution, HolderIsRecorded
<1>6. ReclaimsOnlyAbandoned' /\ LocksAreExclusive'
  BY <1>0, <1>2, <1>3, <1>4 DEF ReclaimsOnlyAbandoned, LocksAreExclusive, TypeOK
<1>7. TickPhases' /\ ActorIsActive' /\ KeepaliveRuns'
  BY <1>0, <1>2 DEF TickPhases, ActorIsActive, KeepaliveRuns
<1>8. LoadedIsCurrent'
  <2> SUFFICES ASSUME NEW d \in Contexts, pc[d] = "running",
                      job[d] \in Items, job[d] \notin astray'
               PROVE  loaded[d] = row'[job[d]]
    BY <1>0 DEF LoadedIsCurrent
  <2>1. job[d] \in Kept /\ Executing(d, job[d])
    BY <1>0 DEF TypeOK, Executing
  <2> QED BY <1>1, <1>3, <2>1 DEF LoadedIsCurrent
<1> QED BY <1>5, <1>6, <1>7, <1>8

\* The scan sees leases that ran out, which no live execution has.
LEMMA ScanPreserves ==
  ASSUME TypeOK, LeaseInv, NEW r \in Reclaimers, ScanExpired(r)
  PROVE  LeaseInv'
<1> USE DEF LeaseInv, Kept
<1>0. UNCHANGED <<row, agents, pc, actor, job, loaded, ka, held, astray>>
  BY DEF ScanExpired, rowVars, ctxVars
<1>1. ReclaimsOnlyAbandoned'
  <2> SUFFICES ASSUME NEW s \in Reclaimers, NEW i \in (seen'[s] \cup held'[s]) \ astray
               PROVE  row'[i].status = "RUNNING" /\ \A c \in Contexts : ~Executing(c, i)'
    BY <1>0 DEF ReclaimsOnlyAbandoned
  <2>1. CASE s = r /\ i \in seen'[s]
    BY <1>0, <2>1 DEF ScanExpired, ExpiredLeases, TypeOK, HolderIsRecorded, Executing
  <2>2. CASE s # r \/ i \notin seen'[s]
    <3>1. i \in (seen[s] \cup held[s]) \ astray /\ i \in Items
      BY <1>0, <2>2 DEF ScanExpired, TypeOK
    <3> QED BY <1>0, <3>1, ContextsUnchanged DEF ReclaimsOnlyAbandoned
  <2> QED BY <2>1, <2>2
<1>2. TickPhases' /\ LocksAreExclusive'
  BY <1>0 DEF TickPhases, LocksAreExclusive, ScanExpired, TypeOK
<1> QED BY <1>0, <1>1, <1>2, ContextsUnchanged

\* An orphan's agent is not active, and a live execution's is; a sweep waits
\* for the rows another reclaimer has locked.
LEMMA SweepExpiredPreserves ==
  ASSUME TypeOK, LeaseInv, NEW r \in Reclaimers, SweepExpired(r)
  PROVE  LeaseInv'
<1> USE DEF LeaseInv, Kept
<1>0. /\ phase[r] = "expired" /\ Unlocked(r)
      /\ held' = [held EXCEPT ![r] = Requeued(r)]
      /\ \/ phase' = [phase EXCEPT ![r] = "orphaned"]
            /\ seen' = [seen EXCEPT ![r] = Orphans \ Requeued(r)]
         \/ phase' = [phase EXCEPT ![r] = "swept"]
            /\ seen' = [seen EXCEPT ![r] = {}]
      /\ UNCHANGED <<row, agents, pc, actor, job, loaded, ka, astray>>
  BY DEF SweepExpired, rowVars, ctxVars
<1>1. \A i \in Orphans : /\ i \in Items /\ row[i].status = "RUNNING"
                         /\ i \notin astray => \A c \in Contexts : ~Executing(c, i)
  BY ConstantsAssumption DEF Orphans, HolderIsRecorded, ActorIsActive, Executing, TypeOK
<1>2. ReclaimsOnlyAbandoned'
  <2> SUFFICES ASSUME NEW s \in Reclaimers, NEW i \in (seen'[s] \cup held'[s]) \ astray
               PROVE  row'[i].status = "RUNNING" /\ \A c \in Contexts : ~Executing(c, i)'
    BY <1>0 DEF ReclaimsOnlyAbandoned
  <2>1. i \in seen[s] \cup held[s] \/ i \in Orphans
    BY <1>0 DEF TypeOK, Requeued
  <2>2. i \in Items /\ row[i].status = "RUNNING" /\ \A c \in Contexts : ~Executing(c, i)
    BY <1>1, <2>1 DEF ReclaimsOnlyAbandoned, TypeOK
  <2> QED BY <1>0, <2>2, ContextsUnchanged
<1>3. LocksAreExclusive'
  BY <1>0 DEF LocksAreExclusive, Unlocked, TypeOK
<1>4. TickPhases'
  BY <1>0 DEF TickPhases, TypeOK
<1> QED BY <1>0, <1>2, <1>3, <1>4, ContextsUnchanged

LEMMA SweepOrphanedPreserves ==
  ASSUME TypeOK, LeaseInv, NEW r \in Reclaimers, SweepOrphaned(r)
  PROVE  LeaseInv'
<1> USE DEF LeaseInv, Kept
<1>0. UNCHANGED <<row, agents, pc, actor, job, loaded, ka, astray>>
  BY DEF SweepOrphaned, rowVars, ctxVars
<1>1. ReclaimsOnlyAbandoned'
  <2> SUFFICES ASSUME NEW s \in Reclaimers, NEW i \in (seen'[s] \cup held'[s]) \ astray
               PROVE  row'[i].status = "RUNNING" /\ \A c \in Contexts : ~Executing(c, i)'
    BY <1>0 DEF ReclaimsOnlyAbandoned
  <2>1. i \in (seen[s] \cup held[s]) \ astray /\ i \in Items
    BY DEF SweepOrphaned, TypeOK, Requeued
  <2> QED BY <1>0, <2>1, ContextsUnchanged DEF ReclaimsOnlyAbandoned
<1>2. LocksAreExclusive'
  BY DEF LocksAreExclusive, SweepOrphaned, Unlocked, TypeOK
<1>3. TickPhases'
  BY <1>0 DEF TickPhases, SweepOrphaned, TypeOK
<1> QED BY <1>0, <1>1, <1>2, <1>3, ContextsUnchanged

LEMMA NudgePreserves ==
  ASSUME TypeOK, LeaseInv, NEW r \in Reclaimers, Nudge(r)
  PROVE  LeaseInv'
<1> USE DEF LeaseInv, Kept
<1>0. /\ r \in Contexts /\ pc[r] = "off"
      /\ pc' = [pc EXCEPT ![r] = "idle"]
      /\ phase[r] = "swept" /\ phase' = [phase EXCEPT ![r] = "nudging"]
      /\ UNCHANGED <<row, agents, job, loaded, ka, seen, held, astray>>
  BY DEF Nudge, TickPhases, Contexts, rowVars
<1>1. PICK a \in Agents : agents[a] = "ACTIVE" /\ actor' = [actor EXCEPT ![r] = a]
  BY DEF Nudge
<1>2. \A d \in Contexts : d # r => pc'[d] = pc[d] /\ actor'[d] = actor[d]
  BY <1>0, <1>1 DEF TypeOK
<1>3. pc'[r] = "idle" /\ actor'[r] = a
  BY <1>0, <1>1 DEF TypeOK
<1>4. \A d \in Contexts : \A i \in Items : Executing(d, i)' <=> Executing(d, i) /\ d # r
  BY <1>0, <1>2, <1>3 DEF Executing
<1>5. ExclusiveExecution'
  BY <1>0, <1>4 DEF ExclusiveExecution
<1>6. HolderIsRecorded'
  BY <1>0, <1>2, <1>4 DEF HolderIsRecorded
<1>7. ReclaimsOnlyAbandoned' /\ LocksAreExclusive'
  BY <1>0, <1>4 DEF ReclaimsOnlyAbandoned, LocksAreExclusive, TypeOK
<1>8. TickPhases'
  BY <1>0, <1>2 DEF TickPhases, TypeOK, Contexts
<1>9. ActorIsActive'
  BY ConstantsAssumption, <1>0, <1>2, <1>4 DEF ActorIsActive, Contexts
<1>10. LoadedIsCurrent' /\ KeepaliveRuns'
  BY <1>0, <1>2, <1>3 DEF LoadedIsCurrent, KeepaliveRuns
<1> QED BY <1>5, <1>6, <1>7, <1>8, <1>9, <1>10

\* The commit makes visible what the sweeps requeued, which nobody executes;
\* a row that another reclaimer has selected is marked, and none has locked it.
LEMMA CommitPreserves ==
  ASSUME TypeOK, LeaseInv, NEW r \in Reclaimers, CommitTick(r)
  PROVE  LeaseInv'
<1> USE DEF LeaseInv, Kept
<1>0. /\ astray' = astray \cup CommitOvertaken(r)
      /\ phase[r] = "swept" \/ (phase[r] = "nudging" /\ pc[r] = "off")
      /\ phase' = [phase EXCEPT ![r] = "idle"]
      /\ held' = [held EXCEPT ![r] = {}]
      /\ \A i \in Items : i \notin held[r] => row'[i] = row[i]
      /\ UNCHANGED <<agents, pc, actor, job, loaded, ka, seen>>
  BY DEF CommitTick, ctxVars
<1>1. \A d \in Contexts : \A i \in Items : Executing(d, i)' <=> Executing(d, i)
  BY <1>0 DEF Executing
<1>2. \A d \in Contexts : \A i \in Kept : Executing(d, i) => row'[i] = row[i]
  BY <1>0 DEF ReclaimsOnlyAbandoned
<1>3. ExclusiveExecution' /\ HolderIsRecorded'
  BY <1>0, <1>1, <1>2 DEF ExclusiveExecution, HolderIsRecorded
<1>4. ReclaimsOnlyAbandoned'
  <2> SUFFICES ASSUME NEW s \in Reclaimers, NEW i \in (seen[s] \cup held'[s]) \ astray'
               PROVE  row'[i].status = "RUNNING" /\ \A c \in Contexts : ~Executing(c, i)
    BY <1>0, <1>1 DEF ReclaimsOnlyAbandoned, TypeOK
  <2>1. s # r
    BY <1>0 DEF TickPhases, TypeOK
  <2>2. held'[s] = held[s] /\ i \in Items
    BY <1>0, <2>1 DEF TypeOK
  <2>3. i \notin held[r]
    BY <1>0, <2>1, <2>2 DEF LocksAreExclusive, CommitOvertaken
  <2> QED BY <1>0, <2>2, <2>3 DEF ReclaimsOnlyAbandoned
<1>5. LocksAreExclusive'
  BY <1>0 DEF LocksAreExclusive, TypeOK
<1>6. TickPhases'
  BY <1>0 DEF TickPhases, TypeOK, Contexts
<1>7. ActorIsActive' /\ KeepaliveRuns'
  BY <1>0, <1>1 DEF ActorIsActive, KeepaliveRuns
<1>8. LoadedIsCurrent'
  <2> SUFFICES ASSUME NEW d \in Contexts, pc[d] = "running",
                      job[d] \in Items, job[d] \notin astray'
               PROVE  loaded[d] = row'[job[d]]
    BY <1>0 DEF LoadedIsCurrent
  <2>1. job[d] \in Kept /\ Executing(d, job[d])
    BY <1>0 DEF TypeOK, Executing
  <2> QED BY <1>2, <2>1 DEF LoadedIsCurrent
<1> QED BY <1>3, <1>4, <1>5, <1>6, <1>7, <1>8

\* A crash, of a worker or of a reclaimer, and a failed report only forget.
LEMMA AbortPreserves ==
  ASSUME TypeOK, LeaseInv, NEW c \in Contexts, AbortReport(c)
  PROVE  LeaseInv'
<1> USE DEF LeaseInv, Kept
<1>0. /\ Drop(c, Resting(c))
      /\ Resting(c) \in {"idle", "off"}
      /\ Resting(c) = "idle" => c \in Agents
      /\ pc[c] = "running"
      /\ UNCHANGED <<row, agents, seen, astray>>
  BY DEF AbortReport, Resting, rowVars
<1>1. /\ ExclusiveExecution'
      /\ HolderIsRecorded'
      /\ ActorIsActive'
      /\ LoadedIsCurrent'
      /\ KeepaliveRuns'
  BY <1>0, DropPreserves
<1>2. \A d \in Contexts : \A i \in Items : Executing(d, i)' => Executing(d, i)
  BY <1>0, DropExecuting
<1>3. \A r \in Reclaimers : held'[r] \subseteq held[r]
  BY DEF AbortReport
<1>4. ReclaimsOnlyAbandoned' /\ LocksAreExclusive'
  BY <1>0, <1>2, <1>3 DEF ReclaimsOnlyAbandoned, LocksAreExclusive, TypeOK
<1>5. \A r \in Reclaimers : (pc'[r] # "off" => pc[r] # "off") /\ (r = c => pc'[r] = "off")
  BY <1>0, ConstantsAssumption DEF Drop, TypeOK, Contexts, Resting
<1>6. TickPhases'
  BY <1>0, <1>5 DEF TickPhases, AbortReport
<1> QED BY <1>1, <1>4, <1>6

LEMMA CrashWorkerPreserves ==
  ASSUME TypeOK, LeaseInv, NEW a \in Agents, CrashWorker(a)
  PROVE  LeaseInv'
<1> USE DEF LeaseInv, Kept
<1>0. /\ a \in Contexts /\ Drop(a, "off")
      /\ UNCHANGED <<row, agents, phase, seen, held, astray>>
  BY DEF CrashWorker, rowVars, tickVars, Contexts
<1>1. /\ ExclusiveExecution'
      /\ HolderIsRecorded'
      /\ ActorIsActive'
      /\ LoadedIsCurrent'
      /\ KeepaliveRuns'
  BY <1>0, DropPreserves
<1>2. \A d \in Contexts : \A i \in Items : Executing(d, i)' => Executing(d, i)
  BY <1>0, DropExecuting
<1>3. ReclaimsOnlyAbandoned' /\ LocksAreExclusive'
  BY <1>0, <1>2 DEF ReclaimsOnlyAbandoned, LocksAreExclusive, TypeOK
<1>4. \A r \in Reclaimers : pc'[r] # "off" => pc[r] # "off"
  BY <1>0 DEF Drop, TypeOK, Contexts
<1>5. TickPhases'
  BY <1>0, <1>4 DEF TickPhases
<1> QED BY <1>1, <1>3, <1>5

LEMMA CrashTickPreserves ==
  ASSUME TypeOK, LeaseInv, NEW r \in Reclaimers, CrashTick(r)
  PROVE  LeaseInv'
<1> USE DEF LeaseInv, Kept
<1>0. r \in Contexts /\ Drop(r, "off") /\ UNCHANGED <<row, agents, astray>>
  BY DEF CrashTick, rowVars, Contexts
<1>1. /\ ExclusiveExecution'
      /\ HolderIsRecorded'
      /\ ActorIsActive'
      /\ LoadedIsCurrent'
      /\ KeepaliveRuns'
  BY <1>0, DropPreserves
<1>2. \A d \in Contexts : \A i \in Items : Executing(d, i)' => Executing(d, i)
  BY <1>0, DropExecuting
<1>3. \A s \in Reclaimers : seen'[s] \subseteq seen[s] /\ held'[s] \subseteq held[s]
  BY DEF CrashTick, TypeOK
<1>4. ReclaimsOnlyAbandoned' /\ LocksAreExclusive'
  BY <1>0, <1>2, <1>3 DEF ReclaimsOnlyAbandoned, LocksAreExclusive, TypeOK
<1>5. \A s \in Reclaimers : (pc'[s] # "off" => pc[s] # "off") /\ (s = r => pc'[s] = "off")
  BY <1>0 DEF Drop, TypeOK, Contexts
<1>6. TickPhases'
  BY <1>5 DEF TickPhases, CrashTick, TypeOK
<1> QED BY <1>1, <1>4, <1>6

LEMMA LapsePreserves ==
  ASSUME TypeOK, LeaseInv, NEW c \in Contexts, KeepaliveLapse(c)
  PROVE  LeaseInv'
<1> USE DEF LeaseInv, Kept
<1>1. /\ ka' = [ka EXCEPT ![c] = "off"]
      /\ UNCHANGED <<row, agents, pc, actor, job, loaded, phase, seen, held, astray>>
  BY DEF KeepaliveLapse, rowVars, tickVars
<1>2. \A d \in Contexts : \A i \in Items : Executing(d, i)' <=> Executing(d, i)
  BY <1>1 DEF Executing
<1>3. ExclusiveExecution' /\ HolderIsRecorded'
  BY <1>1, <1>2 DEF ExclusiveExecution, HolderIsRecorded
<1>4. ReclaimsOnlyAbandoned' /\ LocksAreExclusive' /\ TickPhases'
  BY <1>1, <1>2 DEF ReclaimsOnlyAbandoned, LocksAreExclusive, TickPhases, TypeOK
<1>5. ActorIsActive' /\ LoadedIsCurrent' /\ KeepaliveRuns'
  BY <1>1, <1>2 DEF ActorIsActive, LoadedIsCurrent, KeepaliveRuns, TypeOK
<1> QED BY <1>3, <1>4, <1>5

-----------------------------------------------------------------------------
LEMMA LeaseInductive == TypeOK /\ LeaseInv /\ [Next]_vars => LeaseInv'
<1> SUFFICES ASSUME TypeOK, LeaseInv, [Next]_vars PROVE LeaseInv'
  OBVIOUS
<1>1. ASSUME NEW c \in Contexts, ContextStep(c) PROVE LeaseInv'
  <2>1. CASE Reports(c)
    <3>1. PICK newRow : pc[c] = "running" /\ Report(c, newRow)
      BY <2>1 DEF Reports, ReportVerdict, ReportRetry, ReportRaised, ReportRaisedRetry
    <3> QED BY <3>1, ReportPreserves
  <2> QED BY <1>1, <2>1, ClaimSelectPreserves, ClaimCommitPreserves,
             ClaimNothingPreserves, LoadPreserves DEF ContextStep
<1>2. ASSUME NEW r \in Reclaimers, TickStep(r) PROVE LeaseInv'
  BY <1>2, ScanPreserves, SweepExpiredPreserves, SweepOrphanedPreserves,
     NudgePreserves, CommitPreserves DEF TickStep
<1>3. ASSUME Faults PROVE LeaseInv'
  BY <1>3, AbortPreserves, LapsePreserves, ExpirePreserves, CrashWorkerPreserves,
     CrashTickPreserves DEF Faults, LeaseOverruns
<1>4. CASE UNCHANGED vars
  <2>1. UNCHANGED <<row, agents, pc, actor, job, loaded, ka, phase, seen, held, astray>>
    BY <1>4 DEF vars
  <2>2. /\ ExclusiveExecution' /\ HolderIsRecorded' /\ ActorIsActive'
        /\ LoadedIsCurrent' /\ KeepaliveRuns'
        /\ \A d \in Contexts : \A i \in Items : Executing(d, i)' <=> Executing(d, i)
    BY <2>1, ContextsUnchanged
  <2>3. ReclaimsOnlyAbandoned' /\ LocksAreExclusive' /\ TickPhases'
    BY <2>1, <2>2
       DEF LeaseInv, ReclaimsOnlyAbandoned, LocksAreExclusive, TickPhases, TypeOK
  <2> QED BY <2>2, <2>3 DEF LeaseInv
<1> QED BY <1>1, <1>2, <1>3, <1>4, StartPreserves, KeepalivePreserves, ExpirePreserves
        DEF Next, LeaseExpires

\* Of every item whose lease was not broken, what a context or a reclaimer
\* read earlier is still true when it acts on it, however many ticks and loops
\* reclaim (leases.py, orchestrator.py), whoever else runs and whatever crashes.
THEOREM LeaseInvariant == Spec => []LeaseInv
<1>1. Init => LeaseInv
  BY DEF Init, LeaseInv, ExclusiveExecution, HolderIsRecorded, Executing, Kept,
         ReclaimsOnlyAbandoned, LocksAreExclusive, TickPhases, ActorIsActive,
         LoadedIsCurrent, KeepaliveRuns, Contexts
<1>2. Spec => []TypeOK
  BY TypeCorrect
<1> QED BY <1>1, <1>2, LeaseInductive, PTL DEF Spec

\* No two contexts execute one work item whose lease was not broken: a lapsed
\* keepalive, a local start and a requeue that overtakes another reclaimer are
\* the only ways to a second executor (tick_worker, leases.py).
THEOREM Exclusive == Spec => []ExclusiveExecution
<1>1. LeaseInv => ExclusiveExecution
  BY DEF LeaseInv
<1> QED BY <1>1, LeaseInvariant, PTL

\* A work item being executed whose lease was not broken is running in the
\* database under its executor's agent and with a live lease.
THEOREM Recorded == Spec => []HolderIsRecorded
<1>1. LeaseInv => HolderIsRecorded
  BY DEF LeaseInv
<1> QED BY <1>1, LeaseInvariant, PTL

-----------------------------------------------------------------------------
(* What one step does to one row whose lease was not broken.               *)

Claimed(i) == row[i].status = "QUEUED" /\ row'[i].status = "RUNNING"
              /\ row'[i].attempt = row[i].attempt
Expired(i) == row[i].status = "RUNNING" /\ row'[i].status = "RUNNING"
              /\ row'[i].attempt = row[i].attempt
Decided(i) == row[i].status = "RUNNING" /\ row'[i].status \in Verdicts
              /\ row'[i].attempt = row[i].attempt
Retried(i) == row[i].status = "RUNNING" /\ row'[i].status = "QUEUED"
              /\ row'[i].attempt = row[i].attempt + 1
Requeues(i) == row[i].status = "RUNNING" /\ row'[i].status = "QUEUED"
               /\ row'[i].attempt = row[i].attempt
               /\ \A c \in Contexts : ~Executing(c, i)

\* A report touches one row.
LEMMA ReportsOneRow ==
  ASSUME TypeOK, NEW c \in Contexts, Reports(c)
  PROVE  /\ job[c] \in Items /\ Executing(c, job[c]) /\ pc[c] = "running"
         /\ \A i \in Items : i # job[c] => row'[i] = row[i]
         /\ Drop(c, Resting(c)) /\ Resting(c) \in {"idle", "off"}
         /\ astray' = astray
<1>1. PICK newRow : Report(c, newRow)
  BY DEF Reports, ReportVerdict, ReportRetry, ReportRaised, ReportRaisedRetry
<1>2. pc[c] = "running" /\ job[c] \in Items /\ Executing(c, job[c])
  BY DEF Reports, TypeOK, Executing
<1> QED BY <1>1, <1>2 DEF Report, Resting, TypeOK

\* It writes a verdict or charges an attempt, because the row it writes is the
\* row it loaded.
LEMMA ReportStep ==
  ASSUME TypeOK, LeaseInv, NEW c \in Contexts, Reports(c), job[c] \notin astray
  PROVE  Decided(job[c]) \/ (Retried(job[c]) /\ row[job[c]].attempt + 1 < MaxAttempts)
<1> DEFINE i == job[c]
<1>1. pc[c] = "running" /\ i \in Kept /\ Executing(c, i) /\ row[i] \in Row
  BY DEF Reports, TypeOK, Executing, Kept
<1>2. row[i].status = "RUNNING" /\ loaded[c] = row[i]
  BY <1>1 DEF LeaseInv, HolderIsRecorded, LoadedIsCurrent
<1>3. ASSUME NEW r, Report(c, r) PROVE row'[i] = r
  BY <1>1, <1>3 DEF Report, TypeOK, Kept
<1>4. CASE ReportVerdict(c)
  <2>1. PICK s \in Verdicts :
            Report(c, Flush(row[i], row[i], [row[i] EXCEPT !.status = s]))
    BY <1>2, <1>4 DEF ReportVerdict
  <2> DEFINE f == Flush(row[i], row[i], [row[i] EXCEPT !.status = s])
  <2>2. f.status = s /\ f.attempt = row[i].attempt
    BY <1>1, <1>2 DEF Flush, Row, Verdicts
  <2> QED BY <1>1, <1>2, <1>3, <2>1, <2>2 DEF Decided
<1>5. CASE ReportRetry(c)
  <2> DEFINE t == RetriedRow(row[i].attempt)
             f == [Flush(row[i], row[i], t) EXCEPT !.status = "QUEUED"]
  <2>1. Report(c, f) /\ row[i].attempt + 1 < MaxAttempts
    BY <1>2, <1>5 DEF ReportRetry, RetriesLeft
  <2>2. f.status = "QUEUED" /\ f.attempt = row[i].attempt + 1
    BY <1>1 DEF Flush, Row, RetriedRow
  <2> QED BY <1>1, <1>2, <1>3, <2>1, <2>2 DEF Retried
<1>6. CASE ReportRaised(c)
  <2> DEFINE f == [row[i] EXCEPT !.status = "FAILED"]
  <2>1. Report(c, f)
    BY <1>6 DEF ReportRaised
  <2>2. f.status = "FAILED" /\ f.attempt = row[i].attempt
    BY <1>1 DEF Row
  <2> QED BY <1>1, <1>2, <1>3, <2>1, <2>2 DEF Decided, Verdicts
<1>7. CASE ReportRaisedRetry(c)
  <2> DEFINE f == RetriedRow(row[i].attempt)
  <2>1. Report(c, f) /\ row[i].attempt + 1 < MaxAttempts
    BY <1>7 DEF ReportRaisedRetry, RetriesLeft
  <2>2. f.status = "QUEUED" /\ f.attempt = row[i].attempt + 1
    BY DEF RetriedRow
  <2> QED BY <1>1, <1>2, <1>3, <2>1, <2>2 DEF Retried
<1> QED BY <1>4, <1>5, <1>6, <1>7 DEF Reports

LEMMA RowStep ==
  ASSUME TypeOK, LeaseInv, [Next]_vars, NEW i \in Items, i \notin astray
  PROVE  \/ row'[i] = row[i]
         \/ Claimed(i) \/ Expired(i) \/ Decided(i) \/ Retried(i) \/ Requeues(i)
<1>1. ASSUME NEW c \in Contexts, ClaimCommit(c) PROVE row'[i] = row[i] \/ Claimed(i)
  BY <1>1 DEF ClaimCommit, ClaimedRow, Lockable, Claimed, TypeOK
<1>2. ASSUME NEW c \in Contexts, Reports(c)
      PROVE  row'[i] = row[i] \/ Decided(i) \/ Retried(i)
  BY <1>2, ReportStep, ReportsOneRow
<1>3. ASSUME NEW j \in Items, Expire(j) PROVE row'[i] = row[i] \/ Expired(i)
  BY <1>3 DEF Expire, Expired, TypeOK, Row
<1>4. ASSUME NEW r \in Reclaimers, CommitTick(r) PROVE row'[i] = row[i] \/ Requeues(i)
  BY <1>4 DEF CommitTick, RequeuedRow, Requeues, LeaseInv, ReclaimsOnlyAbandoned
<1>5. ASSUME NEW c \in Contexts, KeepaliveStep(c) PROVE row'[i] = row[i]
  BY <1>5, KeepaliveRewrites
<1>6. ASSUME NEW c \in Contexts, ContextStep(c) PROVE UNCHANGED row \/ ClaimCommit(c) \/ Reports(c)
  BY <1>6 DEF ContextStep, ClaimSelect, ClaimNothing, Load, rowVars
<1>7. ASSUME NEW r \in Reclaimers, TickStep(r) PROVE UNCHANGED row \/ CommitTick(r)
  BY <1>7 DEF TickStep, ScanExpired, SweepExpired, SweepOrphaned, Nudge, rowVars
<1>8. ASSUME Faults PROVE UNCHANGED row \/ \E j \in Items : Expire(j)
  BY <1>8
     DEF Faults, AbortReport, KeepaliveLapse, LeaseOverruns, CrashWorker, CrashTick, rowVars
<1>9. ASSUME NEW a \in Agents, StartWorker(a) PROVE UNCHANGED row
  BY <1>9 DEF StartWorker
<1>10. UNCHANGED vars => UNCHANGED row
  BY DEF vars
<1> QED BY <1>1, <1>2, <1>3, <1>4, <1>5, <1>6, <1>7, <1>8, <1>9, <1>10
        DEF Next, LeaseExpires

\* No report, retry, requeue or keepalive write changes the verdict of an item
\* whose lease was not broken.
THEOREM FinalVerdicts == Spec => VerdictsAreFinal
<1>1. TypeOK /\ LeaseInv /\ [Next]_vars =>
        [\A i \in Kept : row[i].status \in Verdicts => row'[i].status = row[i].status]_vars
  BY RowStep DEF Kept, Verdicts, Claimed, Expired, Decided, Retried, Requeues
<1> QED BY <1>1, TypeCorrect, LeaseInvariant, PTL DEF Spec, VerdictsAreFinal

\* An item whose lease was not broken goes back to the queue either charged one
\* attempt by its executor or while nobody executes it.
THEOREM PaidRequeues == Spec => RequeueIsPaidFor
<1>1. TypeOK /\ LeaseInv /\ [Next]_vars =>
        [\A i \in Kept :
            row[i].status # "QUEUED" /\ row'[i].status = "QUEUED" =>
              \/ row'[i].attempt = row[i].attempt + 1
              \/ /\ row'[i].attempt = row[i].attempt
                 /\ \A c \in Contexts : ~Executing(c, i)]_vars
  BY RowStep DEF Kept, Verdicts, Claimed, Expired, Decided, Retried, Requeues
<1> QED BY <1>1, TypeCorrect, LeaseInvariant, PTL DEF Spec, RequeueIsPaidFor

-----------------------------------------------------------------------------
(* WorkItemLease implements WorkItemPromise.                               *)

\* The abstract state a concrete state stands for.
StatusOf == [i \in Items |-> IF i \in astray THEN "ASTRAY" ELSE row[i].status]
AttemptOf == [i \in Items |-> IF i \in astray THEN 0 ELSE row[i].attempt]
HoldersOf == [i \in Items |-> IF i \in astray THEN {}
                              ELSE {c \in Contexts : Executing(c, i)}]

\* Items of S return to the queue and items of T go astray: the promise's
\* Reclaim, of the functions above.
ReclaimsAt(S, T) ==
    /\ \A i \in S : StatusOf[i] = "RUNNING" /\ HoldersOf[i] = {}
    /\ \A i \in T : StatusOf[i] \in {"QUEUED", "RUNNING"}
    /\ StatusOf' = [i \in Items |-> IF i \in T THEN "ASTRAY"
                                    ELSE IF i \in S THEN "QUEUED" ELSE StatusOf[i]]
    /\ AttemptOf' = [i \in Items |-> IF i \in T THEN 0 ELSE AttemptOf[i]]
    /\ HoldersOf' = [i \in Items |-> IF i \in T THEN {} ELSE HoldersOf[i]]

Reclaims == \E S, T \in SUBSET Items : ReclaimsAt(S, T)

\* A step that puts back items nobody holds, or breaks leases, or both, and
\* otherwise moves neither a status, nor an attempt, nor who executes what.
LEMMA StepReclaims ==
  ASSUME NEW S \in SUBSET Items, astray \subseteq astray', astray' \subseteq Items,
         \A i \in S : /\ i \notin astray /\ row[i].status = "RUNNING"
                      /\ \A c \in Contexts : ~Executing(c, i),
         \A i \in astray' \ astray : row[i].status \in {"QUEUED", "RUNNING"},
         \A i \in Items \ astray' :
             /\ row'[i].status = IF i \in S THEN "QUEUED" ELSE row[i].status
             /\ row'[i].attempt = row[i].attempt
             /\ \A c \in Contexts : Executing(c, i)' <=> Executing(c, i)
  PROVE  Reclaims
<1> DEFINE T == astray' \ astray
<1>1. T \in SUBSET Items
  OBVIOUS
<1>2. \A i \in S : StatusOf[i] = "RUNNING" /\ HoldersOf[i] = {}
  BY DEF StatusOf, HoldersOf
<1>3. \A i \in T : StatusOf[i] \in {"QUEUED", "RUNNING"}
  BY DEF StatusOf
<1>4. StatusOf' = [i \in Items |-> IF i \in T THEN "ASTRAY"
                                   ELSE IF i \in S THEN "QUEUED" ELSE StatusOf[i]]
  BY DEF StatusOf
<1>5. AttemptOf' = [i \in Items |-> IF i \in T THEN 0 ELSE AttemptOf[i]]
  BY DEF AttemptOf
<1>6. HoldersOf' = [i \in Items |-> IF i \in T THEN {} ELSE HoldersOf[i]]
  <2>1. \A i \in Items \ astray' :
            {c \in Contexts : Executing(c, i)'} = {c \in Contexts : Executing(c, i)}
    OBVIOUS
  <2>2. \A i \in Items : HoldersOf'[i] = IF i \in T THEN {} ELSE HoldersOf[i]
    BY <2>1 DEF HoldersOf
  <2> QED BY <2>2 DEF HoldersOf
<1> HIDE DEF T
<1>7. ReclaimsAt(S, T)
  BY <1>2, <1>3, <1>4, <1>5, <1>6, Zenon DEF ReclaimsAt
<1> QED BY <1>1, <1>7 DEF Reclaims

LEMMA ReclaimsPromised == Reclaims => Promise!PNext
<1> SUFFICES ASSUME NEW S \in SUBSET Items, NEW T \in SUBSET Items, ReclaimsAt(S, T)
             PROVE  Promise!PNext
  BY DEF Reclaims
<1>1. \E V, U \in SUBSET Items : Promise!Reclaim(V, U)
  BY ZenonT(60) DEF ReclaimsAt, StatusOf, AttemptOf, HoldersOf, Promise!Reclaim
<1> QED BY <1>1 DEF Promise!PNext

\* A step that breaks leases, or none, and otherwise moves neither a status, nor
\* an attempt, nor who executes what.
LEMMA StepStrays ==
  ASSUME astray \subseteq astray', astray' \subseteq Items,
         \A i \in astray' \ astray : row[i].status \in {"QUEUED", "RUNNING"},
         \A i \in Items \ astray' :
             /\ row'[i].status = row[i].status
             /\ row'[i].attempt = row[i].attempt
             /\ \A c \in Contexts : Executing(c, i)' <=> Executing(c, i)
  PROVE  Reclaims
<1> DEFINE S == {}
<1>1. S \in SUBSET Items /\ \A i \in S : FALSE
  OBVIOUS
<1>2. \A i \in S : /\ i \notin astray /\ row[i].status = "RUNNING"
                   /\ \A c \in Contexts : ~Executing(c, i)
  BY <1>1
<1>3. \A i \in Items \ astray' :
          /\ row'[i].status = IF i \in S THEN "QUEUED" ELSE row[i].status
          /\ row'[i].attempt = row[i].attempt
          /\ \A c \in Contexts : Executing(c, i)' <=> Executing(c, i)
  BY <1>1
<1> HIDE DEF S
<1> QED BY <1>1, <1>2, <1>3, StepReclaims

\* A claim takes an item nobody holds, or one that is astray or goes astray.
LEMMA ClaimTakes ==
  ASSUME TypeOK, LeaseInv, NEW c \in Contexts, ClaimCommit(c)
  PROVE  (\E i \in Items : Promise!Take(c, i)) \/ Reclaims
<1>0. PICK i \in Items :
          /\ i \in Lockable(c)
          /\ row' = [row EXCEPT ![i] = ClaimedRow(row[i], actor[c])]
          /\ job' = [job EXCEPT ![c] = i]
          /\ astray' = astray \cup ClaimsDisowned(c, i)
  BY DEF TypeOK, ClaimCommit, Lockable
<1>1. /\ row[i].status = "QUEUED"
      /\ i \notin astray => \A d \in Contexts : ~Executing(d, i)
  BY <1>0 DEF Lockable, LeaseInv, HolderIsRecorded, Kept
<1>2. \A d \in Contexts : \A j \in Items :
          Executing(d, j)' <=> (Executing(d, j) \/ (d = c /\ j = i))
  BY <1>0 DEF TypeOK, Executing, ClaimCommit
<1>3. \A j \in Items : j # i => row'[j] = row[j]
  BY <1>0 DEF TypeOK
<1>4. row'[i].status = "RUNNING" /\ row'[i].attempt = row[i].attempt
  BY <1>0 DEF TypeOK, ClaimedRow
<1>5. astray' = astray \/ astray' = astray \cup {i}
  BY <1>0 DEF ClaimsDisowned
<1>6. CASE i \in astray'
  <2>1. \A j \in Items \ astray' :
            /\ row'[j] = row[j]
            /\ \A d \in Contexts : Executing(d, j)' <=> Executing(d, j)
    BY <1>2, <1>3, <1>6
  <2>2. astray' \subseteq Items /\ \A j \in astray' \ astray : j = i
    BY <1>5 DEF TypeOK
  <2> QED BY <1>1, <1>5, <2>1, <2>2, StepStrays
<1>7. CASE i \notin astray'
  <2>1. astray' = astray /\ i \notin astray
    BY <1>5, <1>7
  <2>2. StatusOf' = [StatusOf EXCEPT ![i] = "RUNNING"]
    BY <1>3, <1>4, <2>1 DEF StatusOf
  <2>3. AttemptOf' = AttemptOf
    BY <1>3, <1>4, <2>1 DEF AttemptOf
  <2>4. HoldersOf' = [HoldersOf EXCEPT ![i] = {c}]
    <3>1. {d \in Contexts : Executing(d, i)'} = {c}
      BY <1>1, <1>2, <2>1
    <3>2. \A j \in Items : j # i =>
              {d \in Contexts : Executing(d, j)'} = {d \in Contexts : Executing(d, j)}
      BY <1>2
    <3> QED BY <2>1, <3>1, <3>2 DEF HoldersOf
  <2>5. StatusOf[i] = "QUEUED" /\ HoldersOf[i] = {}
    BY <1>1, <2>1 DEF StatusOf, HoldersOf
  <2>6. Promise!Take(c, i)
    BY <2>2, <2>3, <2>4, <2>5 DEF Promise!Take, StatusOf, AttemptOf, HoldersOf
  <2> QED BY <2>6
<1> QED BY <1>6, <1>7

\* Letting go of an item whose lease was not broken empties the set of its
\* holders, which was {c}.
LEMMA DropHolders ==
  ASSUME TypeOK, LeaseInv, NEW c \in Contexts, NEW next \in {"idle", "off"},
         Drop(c, next), NEW i \in Items, Executing(c, i), i \notin astray,
         astray' = astray
  PROVE  HoldersOf[i] = {c} /\ HoldersOf' = [HoldersOf EXCEPT ![i] = {}]
<1>1. HoldersOf[i] = {c}
  BY DEF HoldersOf, LeaseInv, ExclusiveExecution, Kept
<1>2. \A d \in Contexts : \A j \in Items :
          Executing(d, j)' <=> (Executing(d, j) /\ d # c)
  BY DEF TypeOK, Drop, Executing
<1>3. \A j \in Items : Executing(c, j) => j = i
  BY DEF Executing
<1>4. HoldersOf' = [HoldersOf EXCEPT ![i] = {}]
  <2>1. {d \in Contexts : Executing(d, i)'} = {}
    BY <1>2 DEF LeaseInv, ExclusiveExecution, Kept
  <2>2. \A j \in Items : j # i =>
            {d \in Contexts : Executing(d, j)'} = {d \in Contexts : Executing(d, j)}
    BY <1>2, <1>3
  <2> QED BY <2>1, <2>2 DEF HoldersOf
<1> QED BY <1>1, <1>4

\* A context that lets go of an item that is astray, or of none, is a stutter.
LEMMA DropStrays ==
  ASSUME TypeOK, NEW c \in Contexts, NEW next \in {"idle", "off"}, Drop(c, next),
         astray' = astray, \A i \in Items \ astray : row'[i] = row[i] /\ ~Executing(c, i)
  PROVE  Reclaims
<1>1. \A d \in Contexts : \A j \in Items :
          Executing(d, j)' <=> (Executing(d, j) /\ d # c)
  BY DEF TypeOK, Drop, Executing
<1>2. \A j \in Items \ astray' : \A d \in Contexts : Executing(d, j)' <=> Executing(d, j)
  BY <1>1
<1>3. astray' \subseteq Items
  BY DEF TypeOK
<1> QED BY <1>2, <1>3, StepStrays

\* A report decides the item or retries it, unless it is astray.
LEMMA ReportDecides ==
  ASSUME TypeOK, LeaseInv, NEW c \in Contexts, Reports(c)
  PROVE  (\E i \in Items : Promise!Decide(c, i) \/ Promise!Retry(c, i)) \/ Reclaims
<1> DEFINE i == job[c]
<1>1. /\ i \in Items /\ Executing(c, i)
      /\ \A j \in Items : j # i => row'[j] = row[j]
      /\ Drop(c, Resting(c)) /\ Resting(c) \in {"idle", "off"}
      /\ astray' = astray
  BY ReportsOneRow
<1>2. CASE i \in astray
  <2>1. \A j \in Items \ astray : row'[j] = row[j] /\ ~Executing(c, j)
    BY <1>1, <1>2 DEF Executing
  <2> QED BY <1>1, <2>1, DropStrays
<1>3. CASE i \notin astray
  <2>0. Decided(i) \/ (Retried(i) /\ row[i].attempt + 1 < MaxAttempts)
    BY <1>3, ReportStep
  <2>1. HoldersOf[i] = {c} /\ HoldersOf' = [HoldersOf EXCEPT ![i] = {}]
    BY <1>1, <1>3, DropHolders
  <2>2. StatusOf[i] = row[i].status /\ AttemptOf[i] = row[i].attempt
    BY <1>1, <1>3 DEF StatusOf, AttemptOf
  <2>3. CASE Decided(i)
    <3>1. PICK v \in {"DONE", "SKIPPED", "FAILED"} : v = row'[i].status
      BY <2>3 DEF Decided, Verdicts
    <3>2. StatusOf' = [StatusOf EXCEPT ![i] = v]
      BY <1>1, <1>3, <3>1 DEF StatusOf
    <3>3. AttemptOf' = AttemptOf
      BY <1>1, <1>3, <2>3 DEF AttemptOf, Decided
    <3>4. StatusOf[i] = "RUNNING"
      BY <2>2, <2>3 DEF Decided
    <3>5. Promise!Decide(c, i)
      BY <2>1, <3>2, <3>3, <3>4 DEF Promise!Decide, StatusOf, AttemptOf, HoldersOf
    <3> QED BY <1>1, <3>5 DEF Promise!Decide
  <2>4. CASE Retried(i) /\ row[i].attempt + 1 < MaxAttempts
    <3>1. StatusOf' = [StatusOf EXCEPT ![i] = "QUEUED"]
      BY <1>1, <1>3, <2>4 DEF StatusOf, Retried
    <3>2. AttemptOf' = [AttemptOf EXCEPT ![i] = AttemptOf[i] + 1]
      BY <1>1, <1>3, <2>4 DEF AttemptOf, Retried
    <3>3. StatusOf[i] = "RUNNING" /\ AttemptOf[i] + 1 < MaxAttempts
      BY <2>2, <2>4 DEF Retried
    <3>4. Promise!Retry(c, i)
      BY <2>1, <3>1, <3>2, <3>3 DEF Promise!Retry, StatusOf, AttemptOf, HoldersOf
    <3> QED BY <1>1, <3>4 DEF Promise!Retry
  <2> QED BY <2>0, <2>3, <2>4
<1> QED BY <1>2, <1>3

\* A context that dies, or whose report fails, abandons what it executes.
LEMMA DropAbandons ==
  ASSUME TypeOK, LeaseInv, NEW c \in Contexts, NEW next \in {"idle", "off"},
         Drop(c, next), row' = row, astray' = astray
  PROVE  (\E i \in Items : Promise!Abandon(c, i)) \/ Reclaims
<1>1. CASE \E i \in Items \ astray : Executing(c, i)
  <2>1. PICK i \in Items : i \notin astray /\ Executing(c, i)
    BY <1>1
  <2>2. HoldersOf[i] = {c} /\ HoldersOf' = [HoldersOf EXCEPT ![i] = {}]
    BY <2>1, DropHolders
  <2>3. UNCHANGED <<StatusOf, AttemptOf>>
    BY DEF StatusOf, AttemptOf
  <2>4. Promise!Abandon(c, i)
    BY <2>2, <2>3 DEF Promise!Abandon, StatusOf, AttemptOf, HoldersOf
  <2> QED BY <2>4
<1>2. CASE ~\E i \in Items \ astray : Executing(c, i)
  BY <1>2, DropStrays
<1> QED BY <1>1, <1>2

\* A reclaimer puts back, in one commit, items that nobody holds; those another
\* reclaimer has selected go astray.
LEMMA CommitReclaims ==
  ASSUME TypeOK, LeaseInv, NEW r \in Reclaimers, CommitTick(r)
  PROVE  Reclaims
<1> DEFINE S == held[r] \ astray
<1>0. /\ astray' = astray \cup CommitOvertaken(r)
      /\ row' = [i \in Items |-> IF i \in held[r] THEN RequeuedRow(row[i]) ELSE row[i]]
      /\ UNCHANGED <<pc, job>>
  BY DEF CommitTick, ctxVars
<1>1. held[r] \subseteq Items /\ astray' \subseteq Items
  BY <1>0 DEF TypeOK, CommitOvertaken
<1>2. \A i \in S : row[i].status = "RUNNING" /\ \A c \in Contexts : ~Executing(c, i)
  BY <1>1 DEF LeaseInv, ReclaimsOnlyAbandoned
<1>3. \A i \in astray' \ astray : i \in S
  BY <1>0 DEF CommitOvertaken
<1>4. \A i \in Items \ astray' :
          /\ row'[i].status = IF i \in S THEN "QUEUED" ELSE row[i].status
          /\ row'[i].attempt = row[i].attempt
          /\ \A c \in Contexts : Executing(c, i)' <=> Executing(c, i)
  BY <1>0 DEF RequeuedRow, Executing
<1>5. S \in SUBSET Items /\ astray \subseteq astray'
  BY <1>0, <1>1
<1> HIDE DEF S
<1>6. \A i \in S : i \notin astray
  BY DEF S
<1> QED BY <1>1, <1>2, <1>3, <1>4, <1>5, <1>6, StepReclaims

\* A step that leaves the rows but for their leases, and the executions, alone:
\* what it breaks was being executed.
LEMMA BreakReclaims ==
  ASSUME TypeOK, LeaseInv, UNCHANGED job,
         astray \subseteq astray', astray' \subseteq Items,
         \A i \in astray' \ astray : \E c \in Contexts : Executing(c, i),
         \A i \in Items : row'[i].status = row[i].status /\ row'[i].attempt = row[i].attempt,
         \A c \in Contexts : pc'[c] \in {"claimed", "running"} <=> pc[c] \in {"claimed", "running"}
  PROVE  Reclaims
<1>1. \A i \in Items : \A c \in Contexts : Executing(c, i)' <=> Executing(c, i)
  BY DEF Executing
<1>2. \A i \in astray' \ astray : row[i].status = "RUNNING"
  BY DEF LeaseInv, HolderIsRecorded, Kept
<1> QED BY <1>1, <1>2, StepStrays

\* Every step of the protocol is a step of the promise.
LEMMA StepRefines ==
  ASSUME TypeOK, LeaseInv, [Next]_vars
  PROVE  Promise!PNext
<1>0. Reclaims => Promise!PNext
  BY ReclaimsPromised
<1>1. ASSUME NEW a \in Agents, StartWorker(a) PROVE Reclaims
  <2>1. pc[a] = "off" /\ UNCHANGED <<row, job>> /\ pc' = [pc EXCEPT ![a] = "idle"]
    BY <1>1 DEF StartWorker, LeaseInv, ActorIsActive
  <2>2. \A c \in Contexts : pc'[c] \in {"claimed", "running"} <=> pc[c] \in {"claimed", "running"}
    BY <2>1 DEF TypeOK
  <2>3. /\ astray \subseteq astray' /\ astray' \subseteq Items
        /\ \A i \in astray' \ astray : \E c \in Contexts : Executing(c, i)
    BY <1>1 DEF StartWorker, StartDisowns, TypeOK
  <2> QED BY <2>1, <2>2, <2>3, BreakReclaims
<1>2. ASSUME NEW c \in Contexts, ContextStep(c) PROVE Promise!PNext
  <2>1. CASE ClaimSelect(c) \/ Load(c)
    <3>1. \A d \in Contexts : pc'[d] \in {"claimed", "running"} <=> pc[d] \in {"claimed", "running"}
      BY <2>1 DEF ClaimSelect, Load, TypeOK
    <3>2. UNCHANGED <<row, job, astray>> /\ astray \subseteq Items
      BY <2>1 DEF ClaimSelect, Load, rowVars, TypeOK
    <3> QED BY <1>0, <3>1, <3>2, BreakReclaims
  <2>2. CASE ClaimNothing(c)
    <3>1. /\ pc[c] \in {"idle", "selecting"} /\ row' = row /\ astray' = astray
          /\ Drop(c, Resting(c)) /\ Resting(c) \in {"idle", "off"}
      BY <2>2 DEF ClaimNothing, rowVars, Resting
    <3>2. \A i \in Items : ~Executing(c, i)
      BY <3>1 DEF Executing
    <3> QED BY <1>0, <3>1, <3>2, DropStrays
  <2>3. CASE ClaimCommit(c)
    BY <1>0, <2>3, ClaimTakes DEF Promise!PNext
  <2>4. CASE Reports(c)
    BY <1>0, <2>4, ReportDecides DEF Promise!PNext
  <2> QED BY <1>2, <2>1, <2>2, <2>3, <2>4 DEF ContextStep
<1>3. ASSUME NEW c \in Contexts, KeepaliveStep(c) PROVE Reclaims
  <2>1. /\ UNCHANGED <<pc, job, astray>> /\ astray \subseteq Items
        /\ \A i \in Items : row'[i] = [row[i] EXCEPT !.lease = row'[i].lease]
    BY <1>3, KeepaliveRewrites DEF TypeOK
  <2>2. \A i \in Items : row[i] \in Row
    BY DEF TypeOK
  <2>3. \A i \in Items : row'[i].status = row[i].status /\ row'[i].attempt = row[i].attempt
    <3> SUFFICES ASSUME NEW i \in Items
                 PROVE  row'[i].status = row[i].status /\ row'[i].attempt = row[i].attempt
      OBVIOUS
    <3> DEFINE l == row'[i].lease
    <3>1. row'[i] = [row[i] EXCEPT !.lease = l]
      BY <2>1
    <3> HIDE DEF l
    <3> QED BY <2>2, <3>1 DEF Row
  <2> QED BY <2>1, <2>3, BreakReclaims
<1>4. ASSUME NEW i \in Items, Expire(i) PROVE Reclaims
  <2>1. UNCHANGED <<pc, job>>
    BY <1>4 DEF Expire, ctxVars
  <2>2. \A j \in Items : row'[j].status = row[j].status /\ row'[j].attempt = row[j].attempt
    BY <1>4 DEF Expire, TypeOK, Row
  <2>3. /\ astray \subseteq astray' /\ astray' \subseteq Items
        /\ \A j \in astray' \ astray : \E c \in Contexts : Executing(c, j)
    BY <1>4 DEF Expire, ExpiresHeld, TypeOK
  <2> QED BY <2>1, <2>2, <2>3, BreakReclaims
<1>5. ASSUME NEW r \in Reclaimers, TickStep(r) PROVE Reclaims
  <2>1. CASE ScanExpired(r) \/ SweepExpired(r) \/ SweepOrphaned(r)
    <3>1. UNCHANGED <<row, pc, job, astray>> /\ astray \subseteq Items
      BY <2>1 DEF ScanExpired, SweepExpired, SweepOrphaned, rowVars, ctxVars, TypeOK
    <3> QED BY <3>1, BreakReclaims
  <2>2. CASE Nudge(r)
    <3>1. /\ pc[r] = "off" /\ pc' = [pc EXCEPT ![r] = "idle"]
          /\ UNCHANGED <<row, job, astray>> /\ astray \subseteq Items
      BY <2>2 DEF Nudge, LeaseInv, TickPhases, rowVars, TypeOK
    <3>2. \A d \in Contexts : pc'[d] \in {"claimed", "running"} <=> pc[d] \in {"claimed", "running"}
      BY <3>1 DEF TypeOK
    <3> QED BY <3>1, <3>2, BreakReclaims
  <2>3. CASE CommitTick(r)
    BY <2>3, CommitReclaims
  <2> QED BY <1>5, <2>1, <2>2, <2>3 DEF TickStep
<1>6. ASSUME Faults PROVE Promise!PNext
  <2>1. ASSUME NEW c \in Contexts, NEW next \in {"idle", "off"}, Drop(c, next),
               row' = row, astray' = astray
        PROVE  Promise!PNext
    BY <1>0, <2>1, DropAbandons DEF Promise!PNext
  <2>2. ASSUME NEW c \in Contexts, AbortReport(c) PROVE Promise!PNext
    BY <2>1, <2>2 DEF AbortReport, Resting, rowVars
  <2>3. ASSUME NEW a \in Agents, CrashWorker(a) PROVE Promise!PNext
    BY <2>1, <2>3 DEF CrashWorker, rowVars, Contexts
  <2>4. ASSUME NEW r \in Reclaimers, CrashTick(r) PROVE Promise!PNext
    BY <2>1, <2>4 DEF CrashTick, rowVars, Contexts
  <2>5. ASSUME NEW c \in Contexts, KeepaliveLapse(c) PROVE Promise!PNext
    <3>1. UNCHANGED <<row, pc, job, astray>> /\ astray \subseteq Items
      BY <2>5 DEF KeepaliveLapse, rowVars, TypeOK
    <3> QED BY <1>0, <3>1, BreakReclaims
  <2> QED BY <1>0, <1>4, <1>6, <2>2, <2>3, <2>4, <2>5 DEF Faults, LeaseOverruns
<1>7. ASSUME UNCHANGED vars PROVE Reclaims
  <2>1. UNCHANGED <<row, pc, job, astray>> /\ astray \subseteq Items
    BY <1>7 DEF vars, TypeOK
  <2> QED BY <2>1, BreakReclaims
<1> QED BY <1>0, <1>1, <1>2, <1>3, <1>4, <1>5, <1>6, <1>7 DEF Next, LeaseExpires

\* The lease protocol implements the promise of the Worker Lease Model, with
\* any number of ticks and orchestrator loops reclaiming side by side: until its
\* lease is broken an item has one holder at a time, final verdicts by the
\* holder, retries that cost an attempt, requeues when it is abandoned only; and
\* an item with a verdict is never broken.
THEOREM PromiseKept == Spec => KeepsThePromise
<1>1. Init => Promise!PInit
  BY DEF Init, Promise!PInit, FreshRow, Executing
<1>2. TypeOK /\ LeaseInv /\ [Next]_vars => [Promise!PNext]_(Promise!pvars)
  BY StepRefines DEF Promise!pvars
<1> QED BY <1>1, <1>2, TypeCorrect, LeaseInvariant, PTL
        DEF Spec, KeepsThePromise, Promise!PSpec

=============================================================================
