------------------------ MODULE RunScheduler_proofs ------------------------
(***************************************************************************)
(* The scheduler's tick keeps a concluded run's status, and what it        *)
(* concludes for the failure of an item has that item; a tick that nobody  *)
(* overlaps completes nothing unfinished.  For every graph of work items   *)
(* and every setting.                                                      *)
(***************************************************************************)
EXTENDS RunSchedulerProps, TLAPS

USE ConstantsAssumption

-----------------------------------------------------------------------------
(* Types.                                                                  *)

LEMMA TickTypes == IdleTick \in Tick
  BY DEF IdleTick, Tick, Places, Stalls

\* A report writes a row.
LEMMA ReportTypes ==
  ASSUME TypeOK, NEW i \in Items, NEW newRow \in ItemRow, Report(i, newRow)
  PROVE  TypeOK'
<1>1. item' \in [Items -> ItemRow]
  BY DEF TypeOK, Report
<1>2. tick' \in Tick
  BY DEF TypeOK, Report, Disturb, Tick
<1> QED
  BY <1>1, <1>2 DEF TypeOK, Report

\* A tick that commits leaves rows, and starts again.
LEMMA CommitTypes ==
  ASSUME TypeOK, NEW newRun \in RunRow, Commit(newRun)
  PROVE  TypeOK'
<1>1. ASSUME NEW i \in Items
      PROVE  [item[i] EXCEPT !.superseded = @ \/ i \in tick.superseding,
                             !.status = IF i \in tick.doomed THEN "CANCELED" ELSE @] \in ItemRow
  <2>1. item[i] \in ItemRow /\ (item[i].superseded \/ i \in tick.superseding) \in BOOLEAN
    BY DEF TypeOK, ItemRow
  <2>2. (IF i \in tick.doomed THEN "CANCELED" ELSE item[i].status)
           \in {"QUEUED", "RUNNING", "DONE", "FAILED", "CANCELED"}
    BY <2>1 DEF ItemRow
  <2> DEFINE sup == item[i].superseded \/ i \in tick.superseding
             st == IF i \in tick.doomed THEN "CANCELED" ELSE item[i].status
  <2>3. [item[i] EXCEPT !.superseded = sup, !.status = st] \in ItemRow
    <3> HIDE DEF sup, st
    <3>1. sup \in BOOLEAN /\ st \in {"QUEUED", "RUNNING", "DONE", "FAILED", "CANCELED"}
      BY <2>1, <2>2 DEF sup, st
    <3> QED
      BY <2>1, <3>1 DEF ItemRow
  <2> QED
    BY <2>3
<1>2. item' \in [Items -> ItemRow]
  BY <1>1 DEF Commit
<1> QED
  BY <1>2, TickTypes DEF TypeOK, Commit

\* The runs a decision may write are rows.
LEMMA RunTypes ==
  ASSUME TypeOK
  PROVE  /\ run \in RunRow /\ Completed \in RunRow
         /\ \A why \in Pauses : Paused(why) \in RunRow
         /\ StallPaused \in RunRow
         /\ \A why \in Causes : Failed(why) \in RunRow /\ Degraded(why) \in RunRow
                                /\ Lost(why) \in RunRow
         /\ \A r \in RunRow : Guarded(r) \in RunRow
<1>1. run \in RunRow
  BY DEF TypeOK
<1>2. Completed \in RunRow
  <2>1. "COMPLETED" \in Open \cup Terminal \cup {"PAUSED"}
    BY DEF Terminal
  <2> QED
    BY <1>1, <2>1 DEF RunRow, Completed
<1>3. ASSUME NEW why \in Pauses PROVE Paused(why) \in RunRow
  <2>1. why \in {"-"} \cup Pauses \cup Causes /\ "PAUSED" \in Open \cup Terminal \cup {"PAUSED"}
    BY <1>3
  <2> QED
    BY <1>1, <2>1 DEF RunRow, Paused
<1>4. ASSUME NEW why \in Causes
      PROVE  Failed(why) \in RunRow /\ Degraded(why) \in RunRow
  <2>1. /\ why \in {"-"} \cup Pauses \cup Causes
        /\ "FAILED" \in Open \cup Terminal \cup {"PAUSED"}
        /\ "COMPLETED" \in Open \cup Terminal \cup {"PAUSED"}
    BY <1>4 DEF Terminal
  <2>2. Failed(why) \in RunRow
    BY <1>1, <2>1 DEF RunRow, Failed
  <2>3. Degraded(why) \in RunRow
    BY <1>1, <2>1 DEF RunRow, Degraded
  <2> QED
    BY <2>2, <2>3
<1>5. ASSUME NEW why \in Causes PROVE Lost(why) \in RunRow
  BY <1>4 DEF Lost
<1>6. ASSUME NEW r \in RunRow PROVE Guarded(r) \in RunRow
  BY <1>1 DEF RunRow, Guarded, Terminal
<1>7. StallPaused \in RunRow
  <2>1. Paused("stall") \in RunRow
    BY <1>3 DEF Pauses
  <2> QED
    BY <2>1 DEF StallPaused, RunRow
<1> QED
  BY <1>1, <1>2, <1>3, <1>4, <1>5, <1>6, <1>7

LEMMA ReadsTypes == TypeOK /\ Reads => TypeOK'
<1> SUFFICES ASSUME TypeOK, Reads PROVE TypeOK'
  OBVIOUS
<1>1. tick \in Tick /\ UNCHANGED <<run, item, busy, quiet, workers, faults>>
  BY DEF TypeOK, Reads, LoadRun, ReadReviews, SupersedeStaleRecoveries, ReadFailed,
     ReadPendingRecovery, ReadActive, ReadQueued, ReadRunnable, Read
<1>2. tick' \in Tick
  <2>1. CASE LoadRun
    BY <1>1, <2>1, TickTypes DEF LoadRun, Read, Tick, Places
  <2>2. CASE ReadReviews
    BY <1>1, <2>2 DEF ReadReviews, Read, Tick, Places
  <2>3. CASE SupersedeStaleRecoveries
    BY <1>1, <2>3 DEF SupersedeStaleRecoveries, Read, Tick, Places, PassedAll, Superseded, WithStatus
  <2>4. CASE ReadFailed
    BY <1>1, <2>4 DEF ReadFailed, Read, Tick, Places, WithStatus
  <2>5. CASE ReadPendingRecovery
    BY <1>1, <2>5 DEF ReadPendingRecovery, Read, Tick, Places, PendingRecovery
  <2>6. CASE ReadActive
    BY <1>1, <2>6 DEF ReadActive, Read, Tick, Places
  <2>7. CASE ReadQueued
    BY <1>1, <2>7 DEF ReadQueued, Read, Tick, Places
  <2>8. CASE ReadRunnable
    BY <1>1, <2>8 DEF ReadRunnable, Read, Tick, Places
  <2> QED
    BY <2>1, <2>2, <2>3, <2>4, <2>5, <2>6, <2>7, <2>8 DEF Reads
<1> QED
  BY <1>1, <1>2 DEF TypeOK

LEMMA DecisionsTypes == TypeOK /\ Decisions => TypeOK'
<1> SUFFICES ASSUME TypeOK, Decisions PROVE TypeOK'
  OBVIOUS
<1>1. ASSUME NEW next \in {"cancel", "starved_again", "conclude"}, SelectDoomed(next)
      PROVE  TypeOK'
  BY <1>1 DEF SelectDoomed, Read, TypeOK, Tick, Places, WithStatus
<1>2. CASE AutoResume
  <2>1. [run EXCEPT !.status = "QUEUED", !.resumes = @ + 1] \in RunRow
    <3>1. run.resumes + 1 \in 0 .. MaxResumes
      BY <1>2 DEF AutoResume, TypeOK, RunRow
    <3> QED
      BY <3>1 DEF TypeOK, RunRow, Open
  <2> QED
    BY <1>2, <2>1, CommitTypes DEF AutoResume
<1>3. CASE Reject
  BY <1>3, RunTypes, CommitTypes DEF Reject, Causes
<1>4. CASE SelectStarved
  BY <1>4, <1>1 DEF SelectStarved
<1>5. CASE CancelStarved
  BY <1>5, RunTypes, CommitTypes DEF CancelStarved
<1>6. CASE SelectStarvedAgain
  BY <1>6, <1>1, RunTypes, CommitTypes DEF SelectStarvedAgain
<1>7. CASE PauseStalledWork
  BY <1>7, RunTypes, CommitTypes DEF PauseStalledWork, Pauses
<1>8. CASE ForgetStalls
  <2>1. [run EXCEPT !.stalls = 0] \in RunRow
    BY DEF TypeOK, RunRow
  <2> QED
    BY <1>8, <2>1, CommitTypes DEF ForgetStalls
<1>9. CASE WaitForRecovery
  BY <1>9, RunTypes, CommitTypes DEF WaitForRecovery
<1>10. CASE StallAgain
  <2>1. [run EXCEPT !.stalls = @ + 1] \in RunRow
    BY <1>10 DEF StallAgain, TypeOK, RunRow
  <2> QED
    BY <1>10, <2>1, CommitTypes DEF StallAgain
<1>11. CASE GiveUp
  <2> DEFINE cause == IF workers THEN "no_progress" ELSE "no_workers"
  <2>1. cause \in Stalls /\ cause \in Causes
    BY DEF Causes, Stalls
  <2>2. CASE NeverFail
    BY <1>11, <2>1, <2>2, RunTypes, CommitTypes DEF GiveUp
  <2>3. CASE ~NeverFail
    <3>1. Read([tick EXCEPT !.pc = "give_up", !.cause = cause])
      BY <1>11, <2>3 DEF GiveUp
    <3> HIDE DEF cause
    <3>2. tick' \in Tick
      BY <2>1, <3>1 DEF Read, TypeOK, Tick, Places
    <3> QED
      BY <3>1, <3>2 DEF Read, TypeOK
  <2> QED
    BY <2>2, <2>3
<1>12. CASE SelectGivenUp
  BY <1>12, <1>1 DEF SelectGivenUp
<1>13. CASE FailGivenUp
  <2>1. Failed(tick.cause) \in RunRow
    BY DEF TypeOK, Tick, RunRow, Failed, Terminal, Causes, Stalls
  <2> QED
    BY <1>13, <2>1, RunTypes, CommitTypes DEF FailGivenUp
<1>14. CASE Unresolvable
  BY <1>14, RunTypes, CommitTypes DEF Unresolvable, Unresolved, Pauses, Causes
<1>15. CASE Complete
  BY <1>15, RunTypes, CommitTypes DEF Complete
<1>16. CASE Wait
  BY <1>16, RunTypes, CommitTypes DEF Wait
<1> QED
  BY <1>2, <1>3, <1>4, <1>5, <1>6, <1>7, <1>8, <1>9, <1>10, <1>11, <1>12, <1>13, <1>14,
     <1>15, <1>16 DEF Decisions

LEMMA WorkerTypes == TypeOK /\ (\E i \in Items : WorkerStep(i)) => TypeOK'
<1> SUFFICES ASSUME TypeOK, NEW i \in Items, WorkerStep(i) PROVE TypeOK'
  OBVIOUS
<1>1. item[i] \in ItemRow
  BY DEF TypeOK
<1>2. CASE Claim(i)
  <2>1. [item[i] EXCEPT !.status = "RUNNING"] \in ItemRow
    BY <1>1 DEF ItemRow
  <2>2. tick' \in Tick
    BY <1>2 DEF Claim, Disturb, TypeOK, Tick
  <2> QED
    BY <1>2, <2>1, <2>2 DEF Claim, TypeOK
<1>3. CASE Reclaim(i)
  <2>1. [item[i] EXCEPT !.status = "QUEUED"] \in ItemRow
    BY <1>1 DEF ItemRow
  <2>2. tick' \in Tick
    BY <1>3 DEF Reclaim, Disturb, TypeOK, Tick
  <2> QED
    BY <1>3, <2>1, <2>2 DEF Reclaim, TypeOK
<1>4. CASE ReportDone(i)
  BY <1>1, <1>4, ReportTypes DEF ReportDone, ItemRow
<1>5. CASE ReportFailed(i)
  BY <1>1, <1>5, ReportTypes DEF ReportFailed, ItemRow
<1>6. CASE ReportRetry(i)
  <2>1. item[i].attempt + 1 \in 0 .. MaxAttempts - 1 /\ "retry" \in Rules
    BY <1>1, <1>6 DEF ReportRetry, RetriesLeft, ItemRow
  <2>2. [item[i] EXCEPT !.status = "QUEUED", !.attempt = @ + 1, !.rule = "retry"] \in ItemRow
    BY <1>1, <2>1 DEF ItemRow
  <2> QED
    BY <1>6, <2>2, ReportTypes DEF ReportRetry
<1> QED
  BY <1>2, <1>3, <1>4, <1>5, <1>6 DEF WorkerStep, Reports

LEMMA TypeStep == TypeOK /\ [Next]_vars => TypeOK'
<1> SUFFICES ASSUME TypeOK, [Next]_vars PROVE TypeOK'
  OBVIOUS
<1>1. CASE TickStep
  BY <1>1, ReadsTypes, DecisionsTypes DEF TickStep
<1>2. CASE PauseForSpend
  BY <1>2, RunTypes, CommitTypes DEF PauseForSpend, Pauses
<1>3. CASE \E i \in Items : WorkerStep(i)
  BY <1>3, WorkerTypes
<1>4. CASE \E i \in busy : Abandon(i)
  BY <1>4 DEF Abandon, TypeOK
<1>5. CASE WorkersLeave \/ WorkersReturn \/ GoQuiet
  <2>1. faults' \in 0 .. MaxFaults
    BY <1>5 DEF WorkersLeave, WorkersReturn, GoQuiet, TypeOK
  <2>2. quiet' \in BOOLEAN /\ workers' \in BOOLEAN
    BY <1>5, Zenon DEF WorkersLeave, WorkersReturn, GoQuiet, TypeOK
  <2> QED
    BY <1>5, <2>1, <2>2 DEF WorkersLeave, WorkersReturn, GoQuiet, TypeOK
<1>6. CASE Cancel
  BY <1>6 DEF Cancel, TypeOK, RunRow, Terminal
<1>7. CASE AbortTick
  BY <1>7, TickTypes DEF AbortTick, TypeOK
<1>8. CASE UNCHANGED vars
  BY <1>8 DEF vars, TypeOK
<1> QED
  BY <1>1, <1>2, <1>3, <1>4, <1>5, <1>6, <1>7, <1>8 DEF Next

LEMMA TypeInit == Init => TypeOK
<1> SUFFICES ASSUME Init PROVE TypeOK
  OBVIOUS
<1>1. run \in RunRow
  BY DEF Init, RunRow, Open
<1>2. item \in [Items -> ItemRow]
  BY DEF Init, ItemRow
<1>3. faults \in 0 .. MaxFaults
  BY DEF Init
<1> QED
  BY <1>1, <1>2, <1>3, TickTypes, Zenon DEF Init, TypeOK

\* Every reachable state is of its type: in particular no retry reaches
\* max_attempts, and no automatic resume its limit.
THEOREM TypeCorrect == Spec => []TypeOK
  BY TypeInit, TypeStep, PTL DEF Spec

-----------------------------------------------------------------------------
(* A concluded run stays concluded.                                        *)

\* A terminal run keeps its status: every write of the tick is guarded by the
\* status the row has at that moment, and nobody else writes a concluded run.
THEOREM TerminalStays == Spec => TerminalIsFinal
<1>1. ASSUME TypeOK, [Next]_vars, run.status \in Terminal
      PROVE  run'.status = run.status
  <2>0. run \in RunRow /\ run.status \notin Open /\ run.status # "PAUSED"
    BY <1>1 DEF Terminal, Open, TypeOK
  <2> USE <2>0
  <2>1. CASE Reads
    BY <2>1 DEF Reads, LoadRun, ReadReviews, SupersedeStaleRecoveries, ReadFailed,
       ReadPendingRecovery, ReadActive, ReadQueued, ReadRunnable, Read
  <2>2. CASE Decisions
    <3>1. CASE AutoResume \/ Reject \/ PauseStalledWork \/ FailGivenUp \/ Unresolvable \/ Complete
      BY <3>1 DEF AutoResume, Reject, PauseStalledWork, FailGivenUp, Unresolvable, Complete,
         Commit, Guarded
    <3>2. CASE SelectStarved \/ CancelStarved \/ SelectStarvedAgain \/ SelectGivenUp \/ GiveUp
      BY <3>2 DEF SelectStarved, CancelStarved, SelectStarvedAgain, SelectGivenUp, GiveUp,
         SelectDoomed, Read, Commit, Guarded
    <3>3. CASE ForgetStalls \/ WaitForRecovery \/ StallAgain \/ Wait
      BY <3>3 DEF ForgetStalls, WaitForRecovery, StallAgain, Wait, Commit, RunRow
    <3> QED
      BY <2>2, <3>1, <3>2, <3>3 DEF Decisions
  <2>3. CASE PauseForSpend \/ Cancel
    BY <2>3 DEF PauseForSpend, Cancel
  <2>4. CASE \E i \in Items : WorkerStep(i)
    BY <2>4 DEF WorkerStep, Claim, Reports, ReportDone, ReportFailed, ReportRetry, Report, Reclaim
  <2>5. CASE (\E i \in busy : Abandon(i)) \/ WorkersLeave \/ WorkersReturn \/ GoQuiet \/ AbortTick
    BY <2>5 DEF Abandon, WorkersLeave, WorkersReturn, GoQuiet, AbortTick
  <2>6. CASE UNCHANGED vars
    BY <2>6 DEF vars
  <2> QED
    BY <1>1, <2>1, <2>2, <2>3, <2>4, <2>5, <2>6 DEF Next, TickStep
<1>2. TypeOK /\ [Next]_vars => [run.status \in Terminal => run'.status = run.status]_vars
  BY <1>1
<1> QED
  BY <1>2, TypeCorrect, PTL DEF Spec, TerminalIsFinal

-----------------------------------------------------------------------------
(* A loss has its cause.                                                   *)

\* Steps that leave the tick's reads and the run alone, and no failed or
\* selected row, keep the invariant.
LEMMA WorkersKeepDecisions ==
  ASSUME TypeOK, DecisionInv, NEW i \in Items, WorkerStep(i)
  PROVE  DecisionInv'
<1>1. run' = run
  BY DEF WorkerStep, Claim, Reports, ReportDone, ReportFailed, ReportRetry, Report, Reclaim
<1>2. /\ tick'.pc = tick.pc /\ tick'.failed = tick.failed /\ tick'.doomed = tick.doomed
  BY DEF WorkerStep, Claim, Reports, ReportDone, ReportFailed, ReportRetry, Report, Reclaim,
     Disturb, TypeOK, Tick
<1>3. item[i].status # "FAILED"
  BY DEF WorkerStep, Claim, Reports, Reclaim, Runnable, WithStatus, DecisionInv, FailuresStay
<1>4. item \in [Items -> ItemRow] /\ \A j \in Items : j # i => item'[j] = item[j]
  BY DEF WorkerStep, Claim, Reports, ReportDone, ReportFailed, ReportRetry, Report, Reclaim, TypeOK
<1>5. \A j \in busy' : item'[j].status \in {"RUNNING", "CANCELED"}
  <2>1. CASE Claim(i)
    BY <1>4, <2>1 DEF Claim, DecisionInv, FailuresStay, TypeOK, ItemRow
  <2>2. CASE Reclaim(i)
    BY <1>4, <2>2 DEF Reclaim, DecisionInv, FailuresStay, TypeOK
  <2>3. CASE Reports(i)
    BY <1>4, <2>3 DEF Reports, ReportDone, ReportFailed, ReportRetry, Report, DecisionInv,
       FailuresStay, TypeOK
  <2> QED
    BY <2>1, <2>2, <2>3 DEF WorkerStep
<1>6. FailuresStay'
  <2>1. \A j \in tick.failed : j \in Items /\ j # i
    BY <1>3 DEF TypeOK, Tick, DecisionInv, FailuresStay
  <2> QED
    BY <1>2, <1>4, <1>5, <2>1 DEF DecisionInv, FailuresStay
<1>7. RejectedReview'
  BY <1>2, <1>3, <1>4, ConstantsAssumption DEF DecisionInv, RejectedReview
<1>8. LossHasItsCause'
  <2>1. \A j \in Items : item[j].status = "FAILED" => item'[j] = item[j]
    BY <1>3, <1>4
  <2> QED
    BY <1>1, <2>1, ConstantsAssumption DEF DecisionInv, LossHasItsCause
<1> QED
  BY <1>1, <1>2, <1>6, <1>7, <1>8 DEF DecisionInv, NothingDoomedYet, NothingAfterLoss

\* A commit keeps it when a loss it writes is a conclusion and has its cause
\* in the rows it leaves.
LEMMA CommitKeepsDecisions ==
  ASSUME TypeOK, DecisionInv, NEW newRun, Commit(newRun),
         newRun.why \in Losses => newRun.status \in Terminal,
         newRun.why = "review_rejected" => \E i \in Reviews : item'[i].status = "FAILED",
         newRun.why = "unresolvable" =>
            \E i \in Critical : item'[i].status = "FAILED" /\ ~item'[i].superseded
  PROVE  DecisionInv'
<1>1. run' = newRun /\ busy' = busy
      /\ tick'.pc = "idle" /\ tick'.failed = {} /\ tick'.doomed = {}
  BY DEF Commit, IdleTick
<1>2. \A i \in busy : item'[i].status \in {"RUNNING", "CANCELED"}
  <2> SUFFICES ASSUME NEW i \in busy PROVE item'[i].status \in {"RUNNING", "CANCELED"}
    OBVIOUS
  <2>1. i \in Items /\ item[i] \in ItemRow
    BY DEF TypeOK
  <2>2. item'[i].status = IF i \in tick.doomed THEN "CANCELED" ELSE item[i].status
    BY <2>1 DEF Commit, ItemRow
  <2> QED
    BY <2>2 DEF DecisionInv, FailuresStay
<1> QED
  BY <1>1, <1>2 DEF DecisionInv, FailuresStay, NothingDoomedYet, RejectedReview,
     NothingAfterLoss, LossHasItsCause

\* In the middle of a tick nothing is lost yet, and a commit that writes no loss
\* keeps the invariant.
LEMMA NoLossYet ==
  ASSUME DecisionInv, tick.pc # "idle" \/ run.status \in Open \cup {"PAUSED"}
  PROVE  run.why \notin Losses
  BY DEF DecisionInv, NothingAfterLoss, Open, Terminal

LEMMA HarmlessCommit ==
  ASSUME TypeOK, DecisionInv, NEW newRun, Commit(newRun), newRun.why \notin Losses
  PROVE  DecisionInv'
  BY CommitKeepsDecisions DEF Losses

\* The rows that a commit leaves.
LEMMA CommittedRow ==
  ASSUME TypeOK, NEW newRun, Commit(newRun), NEW i \in Items, i \notin tick.doomed
  PROVE  /\ item'[i].status = item[i].status
         /\ item'[i].superseded = (item[i].superseded \/ i \in tick.superseding)
<1>1. item[i] \in ItemRow
  BY DEF TypeOK
<1> QED
  BY <1>1 DEF Commit, ItemRow

LEMMA ReadsKeepDecisions == TypeOK /\ DecisionInv /\ Reads => DecisionInv'
<1> SUFFICES ASSUME TypeOK, DecisionInv, Reads PROVE DecisionInv'
  OBVIOUS
<1>1. UNCHANGED <<run, item, busy>>
  BY DEF Reads, LoadRun, ReadReviews, SupersedeStaleRecoveries, ReadFailed,
     ReadPendingRecovery, ReadActive, ReadQueued, ReadRunnable, Read
<1>2. run.why \notin Losses
  BY NoLossYet DEF Reads, LoadRun, ReadReviews, SupersedeStaleRecoveries, ReadFailed,
     ReadPendingRecovery, ReadActive, ReadQueued, ReadRunnable
<1>3. tick \in Tick
  BY DEF TypeOK
<1>4. FailuresStay' /\ NothingDoomedYet' /\ RejectedReview'
  <2>1. CASE LoadRun
    BY <1>1, <2>1 DEF LoadRun, Read, IdleTick, DecisionInv, FailuresStay, NothingDoomedYet,
       RejectedReview
  <2>2. CASE ReadReviews
    BY <1>1, <1>3, <2>2 DEF ReadReviews, Read, Tick, DecisionInv, FailuresStay,
       NothingDoomedYet, RejectedReview, WithStatus
  <2>3. CASE SupersedeStaleRecoveries
    BY <1>1, <1>3, <2>3 DEF SupersedeStaleRecoveries, Read, Tick, DecisionInv, FailuresStay,
       NothingDoomedYet, RejectedReview
  <2>4. CASE ReadFailed
    <3> DEFINE failed == WithStatus({"FAILED"})
    <3>1. /\ tick.pc = "failed" /\ tick'.pc = "pending" /\ tick'.failed = failed
          /\ tick'.doomed = tick.doomed
      BY <1>3, <2>4 DEF ReadFailed, Read, Tick
    <3>2. /\ \A i \in busy : item[i].status \in {"RUNNING", "CANCELED"}
          /\ tick.doomed = {}
      BY <3>1 DEF DecisionInv, FailuresStay, NothingDoomedYet
    <3>3. \A i \in failed : item[i].status = "FAILED"
      BY DEF WithStatus
    <3> HIDE DEF failed
    <3>4. FailuresStay'
      BY <1>1, <3>1, <3>2, <3>3 DEF FailuresStay
    <3>5. NothingDoomedYet' /\ RejectedReview'
      BY <3>1 DEF NothingDoomedYet, RejectedReview
    <3> QED
      BY <3>4, <3>5
  <2>5. CASE ReadPendingRecovery \/ ReadActive \/ ReadQueued \/ ReadRunnable
    <3>1. /\ tick.pc \in {"pending", "active", "queued", "runnable"}
          /\ tick'.pc \in {"active", "queued", "runnable", "decide"}
          /\ tick'.failed = tick.failed /\ tick'.doomed = tick.doomed
      <4>1. CASE ReadPendingRecovery
        BY <1>3, <4>1 DEF ReadPendingRecovery, Read, Tick
      <4>2. CASE ReadActive
        BY <1>3, <4>2 DEF ReadActive, Read, Tick
      <4>3. CASE ReadQueued
        BY <1>3, <4>3 DEF ReadQueued, Read, Tick
      <4>4. CASE ReadRunnable
        BY <1>3, <4>4 DEF ReadRunnable, Read, Tick
      <4> QED
        BY <2>5, <4>1, <4>2, <4>3, <4>4
    <3>2. NothingDoomedYet' /\ RejectedReview'
      BY <3>1 DEF DecisionInv, NothingDoomedYet, RejectedReview
    <3>3. FailuresStay'
      BY <1>1, <3>1 DEF DecisionInv, FailuresStay
    <3> QED
      BY <3>2, <3>3
  <2> QED
    BY <2>1, <2>2, <2>3, <2>4, <2>5 DEF Reads
<1> QED
  BY <1>1, <1>2, <1>4 DEF DecisionInv, NothingAfterLoss, LossHasItsCause, Losses

LEMMA DecisionsKeepDecisions == TypeOK /\ DecisionInv /\ Decisions => DecisionInv'
<1> SUFFICES ASSUME TypeOK, DecisionInv, Decisions PROVE DecisionInv'
  OBVIOUS
<1>0. run \in RunRow /\ tick \in Tick
  BY DEF TypeOK
<1>1. run.why \notin Losses
  BY NoLossYet DEF Decisions, AutoResume, Reject, SelectStarved, CancelStarved,
     SelectStarvedAgain, PauseStalledWork, ForgetStalls, WaitForRecovery, StallAgain, GiveUp,
     Watched, SelectGivenUp, FailGivenUp, Unresolvable, Complete, Wait
<1>2. ASSUME NEW next \in {"cancel", "starved_again", "conclude"}, SelectDoomed(next)
      PROVE  DecisionInv'
  <2>1. UNCHANGED <<run, item, busy>>
    BY <1>2 DEF SelectDoomed, Read
  <2>2. tick'.pc = next /\ tick'.failed = tick.failed /\ tick'.doomed = WithStatus({"QUEUED"})
    BY <1>0, <1>2 DEF SelectDoomed, Read, Tick
  <2>3. \A i \in tick.failed : i \notin WithStatus({"QUEUED"})
    BY DEF DecisionInv, FailuresStay, WithStatus
  <2> QED
    BY <1>1, <2>1, <2>2, <2>3 DEF DecisionInv, FailuresStay, NothingDoomedYet, RejectedReview,
       NothingAfterLoss, LossHasItsCause, Losses
<1>3. CASE AutoResume
  <2>1. [run EXCEPT !.status = "QUEUED", !.resumes = @ + 1].why \notin Losses
    BY <1>0, <1>1 DEF RunRow
  <2> QED
    BY <1>3, <2>1, HarmlessCommit DEF AutoResume
<1>4. CASE Reject
  <2> DEFINE r == Guarded(Lost("review_rejected"))
  <2>1. Commit(r) /\ tick.doomed = {}
    BY <1>4 DEF Reject, DecisionInv, NothingDoomedYet
  <2>2. PICK i \in Reviews : item[i].status = "FAILED"
    BY <1>4 DEF Reject, DecisionInv, RejectedReview
  <2>3. item'[i].status = "FAILED"
    BY <2>1, <2>2, CommittedRow, ConstantsAssumption
  <2>4. r.why \in Losses => r.status \in Terminal /\ r.why = "review_rejected"
    BY <1>0, <1>1 DEF Guarded, Lost, Failed, Degraded, RunRow, Terminal
  <2> HIDE DEF r
  <2> QED
    BY <2>1, <2>3, <2>4, CommitKeepsDecisions DEF Losses
<1>5. CASE SelectStarved
  BY <1>2, <1>5 DEF SelectStarved
<1>6. CASE CancelStarved \/ WaitForRecovery \/ Wait
  BY <1>1, <1>6, HarmlessCommit DEF CancelStarved, WaitForRecovery, Wait
<1>7. CASE SelectStarvedAgain
  BY <1>1, <1>2, <1>7, HarmlessCommit DEF SelectStarvedAgain
<1>8. CASE PauseStalledWork
  <2>1. Guarded(StallPaused).why \notin Losses
    BY <1>0, <1>1 DEF Guarded, StallPaused, Paused, RunRow, Losses
  <2> QED
    BY <1>8, <2>1, HarmlessCommit DEF PauseStalledWork
<1>9. CASE ForgetStalls \/ StallAgain
  <2>1. /\ [run EXCEPT !.stalls = 0].why \notin Losses
        /\ [run EXCEPT !.stalls = @ + 1].why \notin Losses
    BY <1>0, <1>1 DEF RunRow
  <2> QED
    BY <1>9, <2>1, HarmlessCommit DEF ForgetStalls, StallAgain
<1>10. CASE GiveUp
  <2> DEFINE cause == IF workers THEN "no_progress" ELSE "no_workers"
  <2>1. CASE NeverFail
    <3>1. Guarded(Degraded(cause)).why \notin Losses
      BY <1>0, <1>1 DEF Guarded, Degraded, RunRow, Losses
    <3> QED
      BY <1>10, <2>1, <3>1, HarmlessCommit DEF GiveUp
  <2>2. CASE ~NeverFail
    <3>1. Read([tick EXCEPT !.pc = "give_up", !.cause = cause])
      BY <1>10, <2>2 DEF GiveUp
    <3>2. /\ tick'.pc = "give_up" /\ tick'.failed = tick.failed /\ tick'.doomed = tick.doomed
          /\ UNCHANGED <<run, item, busy>>
      BY <1>0, <3>1 DEF Read, Tick
    <3> QED
      BY <1>1, <3>2 DEF DecisionInv, FailuresStay, NothingDoomedYet, RejectedReview,
         NothingAfterLoss, LossHasItsCause, Losses
  <2> QED
    BY <2>1, <2>2
<1>11. CASE SelectGivenUp
  BY <1>2, <1>11 DEF SelectGivenUp
<1>12. CASE FailGivenUp
  <2>1. Guarded(Failed(tick.cause)).why \notin Losses
    BY <1>0, <1>1 DEF Guarded, Failed, RunRow, Tick, Stalls, Losses
  <2> QED
    BY <1>12, <2>1, HarmlessCommit DEF FailGivenUp
<1>13. CASE Unresolvable
  <2> DEFINE r == Guarded(Unresolved)
  <2>1. Commit(r)
    BY <1>13 DEF Unresolvable
  <2>2. PICK i \in Blocking : TRUE
    BY <1>13 DEF Unresolvable
  <2>3. /\ i \in Critical /\ i \in Items /\ i \notin tick.doomed /\ i \notin tick.superseding
        /\ item[i].status = "FAILED" /\ ~item[i].superseded
    BY <2>2, ConstantsAssumption DEF Blocking, BlockingFailure, BlocksDependents, DecisionInv, FailuresStay
  <2>4. item'[i].status = "FAILED" /\ ~item'[i].superseded
    BY <2>1, <2>3, CommittedRow
  <2>5. r.why \in Losses => r.status \in Terminal /\ r.why = "unresolvable"
    BY <1>0, <1>1 DEF Unresolved, Guarded, Lost, Failed, Degraded, Paused, RunRow, Terminal, Losses
  <2> HIDE DEF r
  <2> QED
    BY <2>1, <2>3, <2>4, <2>5, CommitKeepsDecisions DEF Losses
<1>14. CASE Complete
  <2>1. Guarded(Completed).why \notin Losses
    BY <1>0, <1>1 DEF Guarded, Completed, RunRow
  <2> QED
    BY <1>14, <2>1, HarmlessCommit DEF Complete
<1> QED
  BY <1>3, <1>4, <1>5, <1>6, <1>7, <1>8, <1>9, <1>10, <1>11, <1>12, <1>13, <1>14 DEF Decisions

LEMMA DecisionStep == TypeOK /\ DecisionInv /\ [Next]_vars => DecisionInv'
<1> SUFFICES ASSUME TypeOK, DecisionInv, [Next]_vars PROVE DecisionInv'
  OBVIOUS
<1> USE DEF DecisionInv, FailuresStay, NothingDoomedYet, RejectedReview, NothingAfterLoss,
            LossHasItsCause, Losses
<1>1. CASE TickStep
  BY <1>1, ReadsKeepDecisions, DecisionsKeepDecisions DEF TickStep
<1>2. CASE PauseForSpend
  <2>1. Paused("spend").why \notin Losses
    BY DEF Paused, TypeOK, RunRow
  <2> QED
    BY <1>2, <2>1, HarmlessCommit DEF PauseForSpend
<1>3. CASE \E i \in Items : WorkerStep(i)
  BY <1>3, WorkersKeepDecisions
<1>4. CASE \E i \in busy : Abandon(i)
  BY <1>4 DEF Abandon
<1>5. CASE WorkersLeave \/ WorkersReturn \/ GoQuiet
  BY <1>5 DEF WorkersLeave, WorkersReturn, GoQuiet
<1>6. CASE Cancel
  <2>1. run.why \notin Losses /\ run'.why = run.why
    BY <1>6, NoLossYet DEF Cancel, TypeOK, RunRow
  <2> QED
    BY <1>6, <2>1 DEF Cancel
<1>7. CASE AbortTick
  <2>1. run.why \notin Losses
    BY <1>7, NoLossYet DEF AbortTick
  <2> QED
    BY <1>7, <2>1 DEF AbortTick, IdleTick
<1>8. CASE UNCHANGED vars
  BY <1>8 DEF vars
<1> QED
  BY <1>1, <1>2, <1>3, <1>4, <1>5, <1>6, <1>7, <1>8 DEF Next

LEMMA DecisionInit == Init => DecisionInv
  BY DEF Init, IdleTick, DecisionInv, FailuresStay, NothingDoomedYet, RejectedReview,
     NothingAfterLoss, LossHasItsCause, Losses

\* Whatever the graph: a run failed or degraded for a rejected review has a failed
\* review, and one concluded as unresolvable has a critical failure that is not
\* superseded, although items change while the tick makes up its mind.
THEOREM LossesAreJustified == Spec => []LossHasItsCause
<1>1. DecisionInv => LossHasItsCause
  BY DEF DecisionInv
<1> QED
  BY <1>1, TypeInit, TypeStep, DecisionInit, DecisionStep, PTL DEF Spec

-----------------------------------------------------------------------------
(* What is superseded was validated.                                       *)

LEMMA ValidationStep ==
  TypeOK /\ DecisionInv /\ ValidationsStay /\ [Next]_vars => ValidationsStay'
<1> SUFFICES ASSUME TypeOK, DecisionInv, ValidationsStay, [Next]_vars PROVE ValidationsStay'
  OBVIOUS
<1>0. tick \in Tick /\ item \in [Items -> ItemRow] /\ Validations \subseteq Items
  BY ConstantsAssumption DEF TypeOK
<1>1. ASSUME NEW newRun, Commit(newRun)
      PROVE  ValidationsStay'
  <2>1. tick'.superseding = {} /\ tick'.doomed = {}
    BY <1>1 DEF Commit, IdleTick
  <2>2. \A i \in Items : item'[i].superseded = (item[i].superseded \/ i \in tick.superseding)
    BY <1>0, <1>1 DEF Commit, ItemRow
  <2>3. \A i \in Items : i \notin tick.doomed => item'[i].status = item[i].status
    BY <1>0, <1>1 DEF Commit, ItemRow
  <2> QED
    BY <1>0, <2>1, <2>2, <2>3 DEF ValidationsStay
<1>2. ASSUME UNCHANGED item, tick'.superseding = tick.superseding,
             tick'.doomed \in {tick.doomed, {}, WithStatus({"QUEUED"})}
      PROVE  ValidationsStay'
  BY <1>0, <1>2 DEF ValidationsStay, WithStatus
<1>3. ASSUME UNCHANGED item, tick'.superseding = {}, tick'.doomed = {}
      PROVE  ValidationsStay'
  BY <1>0, <1>3 DEF ValidationsStay
<1>4. CASE Reads
  <2>1. CASE LoadRun
    BY <1>3, <2>1 DEF LoadRun, Read, IdleTick
  <2>2. CASE SupersedeStaleRecoveries
    <3>1. UNCHANGED item /\ tick'.superseding = PassedAll /\ tick'.doomed = {}
      BY <1>0, <2>2 DEF SupersedeStaleRecoveries, Read, Tick, DecisionInv, NothingDoomedYet
    <3>2. PassedAll # {} => \A v \in Validations : item[v].superseded \/ item[v].status = "DONE"
      BY DEF PassedAll, LiveValidations, WithStatus
    <3> QED
      BY <1>0, <3>1, <3>2 DEF ValidationsStay
  <2>3. CASE ReadReviews \/ ReadFailed \/ ReadPendingRecovery \/ ReadActive \/ ReadQueued
             \/ ReadRunnable
    BY <1>0, <1>2, <2>3 DEF ReadReviews, ReadFailed, ReadPendingRecovery, ReadActive,
       ReadQueued, ReadRunnable, Read, Tick
  <2> QED
    BY <1>4, <2>1, <2>2, <2>3 DEF Reads
<1>5. CASE Decisions
  <2>1. ASSUME NEW next, SelectDoomed(next)
        PROVE  ValidationsStay'
    BY <1>0, <1>2, <2>1 DEF SelectDoomed, Read, Tick
  <2>2. CASE AutoResume \/ Reject \/ CancelStarved \/ PauseStalledWork \/ ForgetStalls
             \/ WaitForRecovery \/ StallAgain \/ FailGivenUp \/ Unresolvable \/ Complete \/ Wait
    BY <1>1, <2>2 DEF AutoResume, Reject, CancelStarved, PauseStalledWork, ForgetStalls,
       WaitForRecovery, StallAgain, FailGivenUp, Unresolvable, Complete, Wait
  <2>3. CASE SelectStarved \/ SelectGivenUp \/ SelectStarvedAgain
    BY <1>1, <2>1, <2>3 DEF SelectStarved, SelectGivenUp, SelectStarvedAgain
  <2>4. CASE GiveUp
    <3> DEFINE cause == IF workers THEN "no_progress" ELSE "no_workers"
    <3>1. CASE NeverFail
      BY <1>1, <2>4, <3>1 DEF GiveUp
    <3>2. CASE ~NeverFail
      <4>1. Read([tick EXCEPT !.pc = "give_up", !.cause = cause])
        BY <2>4, <3>2 DEF GiveUp
      <4> HIDE DEF cause
      <4> QED
        BY <1>0, <1>2, <4>1 DEF Read, Tick
    <3> QED
      BY <3>1, <3>2
  <2> QED
    BY <1>5, <2>2, <2>3, <2>4 DEF Decisions
<1>6. CASE PauseForSpend
  BY <1>1, <1>6 DEF PauseForSpend
<1>7. CASE \E i \in Items : WorkerStep(i)
  <2> PICK i \in Items : WorkerStep(i)
    BY <1>7
  <2>1. tick'.superseding = tick.superseding /\ tick'.doomed = tick.doomed
    BY <1>0 DEF WorkerStep, Claim, Reports, ReportDone, ReportFailed, ReportRetry, Report,
       Reclaim, Disturb, Tick
  <2>2. item[i].status # "DONE"
    BY DEF WorkerStep, Claim, Reports, Reclaim, Runnable, WithStatus, DecisionInv, FailuresStay
  <2>3. /\ item'[i].superseded = item[i].superseded
        /\ \A j \in Items : j # i => item'[j] = item[j]
    <3>1. item[i] \in ItemRow
      BY <1>0
    <3>2. CASE Claim(i) \/ Reclaim(i)
      BY <1>0, <3>1, <3>2 DEF Claim, Reclaim, ItemRow
    <3>3. CASE Reports(i)
      <4>1. ASSUME NEW row, item' = [item EXCEPT ![i] = row], row.superseded = item[i].superseded
            PROVE  /\ item'[i].superseded = item[i].superseded
                   /\ \A j \in Items : j # i => item'[j] = item[j]
        BY <1>0, <4>1
      <4>2. CASE ReportDone(i)
        BY <3>1, <4>1, <4>2 DEF ReportDone, Report, ItemRow
      <4>3. CASE ReportFailed(i)
        BY <3>1, <4>1, <4>3 DEF ReportFailed, Report, ItemRow
      <4>4. CASE ReportRetry(i)
        BY <3>1, <4>1, <4>4 DEF ReportRetry, Report, ItemRow
      <4> QED
        BY <3>3, <4>2, <4>3, <4>4 DEF Reports
    <3> QED
      BY <3>2, <3>3 DEF WorkerStep
  <2> QED
    BY <1>0, <2>1, <2>2, <2>3 DEF ValidationsStay
<1>8. CASE (\E i \in busy : Abandon(i)) \/ WorkersLeave \/ WorkersReturn \/ GoQuiet \/ Cancel
  BY <1>2, <1>8 DEF Abandon, WorkersLeave, WorkersReturn, GoQuiet, Cancel
<1>9. CASE AbortTick
  BY <1>3, <1>9 DEF AbortTick, IdleTick
<1>10. CASE UNCHANGED vars
  BY <1>2, <1>10 DEF vars
<1> QED
  BY <1>4, <1>5, <1>6, <1>7, <1>8, <1>9, <1>10 DEF Next, TickStep

\* No failure is superseded while a validation item of the run has still to pass,
\* in whatever order the tick's reads and the workers' reports happen.
THEOREM SupersededIsValidated == Spec => []SupersededWasValidated
<1>1. Init => ValidationsStay
  BY DEF Init, IdleTick, ValidationsStay
<1>2. ValidationsStay => SupersededWasValidated
  BY DEF ValidationsStay, SupersededWasValidated
<1> QED
  BY <1>1, <1>2, TypeInit, TypeStep, DecisionInit, DecisionStep, ValidationStep, PTL DEF Spec

-----------------------------------------------------------------------------
(* A tick that nobody overlaps decides on what is so.                      *)

LEMMA CalmInit == Init => CalmReads
  BY DEF Init, IdleTick, CalmReads

\* A commit starts the tick again, with nothing read; a read of the tick adds to
\* what it knows; anybody else's write disturbs it.
LEMMA CalmStep == TypeOK /\ CalmReads /\ [Next]_vars => CalmReads'
<1> SUFFICES ASSUME TypeOK, CalmReads, [Next]_vars PROVE CalmReads'
  OBVIOUS
<1>0. tick \in Tick
  BY DEF TypeOK
<1>1. ASSUME tick'.pc \in {"idle", "review", "rejected", "supersede", "failed", "cancel",
                           "starved_again", "give_up", "conclude"}
      PROVE  CalmReads'
  BY <1>1 DEF CalmReads
<1>2. ASSUME ~tick'.undisturbed
      PROVE  CalmReads'
  BY <1>2 DEF CalmReads
<1>3. ASSUME UNCHANGED <<item, tick>>
      PROVE  CalmReads'
  BY <1>3 DEF CalmReads, WithStatus
<1>4. ASSUME NEW newRun, Commit(newRun)
      PROVE  CalmReads'
  BY <1>1, <1>4 DEF Commit, IdleTick
<1>5. ASSUME NEW next \in {"cancel", "starved_again", "conclude"}, SelectDoomed(next)
      PROVE  CalmReads'
  BY <1>0, <1>1, <1>5 DEF SelectDoomed, Read, Tick
<1>6. CASE Reads
  <2>0. UNCHANGED item
    BY <1>6 DEF Reads, LoadRun, ReadReviews, SupersedeStaleRecoveries, ReadFailed,
       ReadPendingRecovery, ReadActive, ReadQueued, ReadRunnable, Read
  <2>1. CASE LoadRun \/ ReadReviews \/ SupersedeStaleRecoveries
    BY <1>0, <1>1, <2>1 DEF LoadRun, ReadReviews, SupersedeStaleRecoveries, Read, IdleTick, Tick
  <2>2. CASE ReadFailed
    BY <1>0, <2>0, <2>2 DEF ReadFailed, Read, Tick, CalmReads, WithStatus
  <2>3. CASE ReadPendingRecovery
    BY <1>0, <2>0, <2>3 DEF ReadPendingRecovery, Read, Tick, CalmReads, WithStatus
  <2>4. CASE ReadActive
    BY <1>0, <2>0, <2>4 DEF ReadActive, Read, Tick, CalmReads, WithStatus
  <2>5. CASE ReadQueued
    BY <1>0, <2>0, <2>5 DEF ReadQueued, Read, Tick, CalmReads, WithStatus
  <2>6. CASE ReadRunnable
    BY <1>0, <2>0, <2>6 DEF ReadRunnable, Read, Tick, CalmReads, WithStatus
  <2> QED
    BY <1>6, <2>1, <2>2, <2>3, <2>4, <2>5, <2>6 DEF Reads
<1>7. CASE Decisions
  <2>1. CASE AutoResume \/ Reject \/ CancelStarved \/ PauseStalledWork \/ ForgetStalls
             \/ WaitForRecovery \/ StallAgain \/ FailGivenUp \/ Unresolvable \/ Complete \/ Wait
    BY <1>4, <2>1 DEF AutoResume, Reject, CancelStarved, PauseStalledWork, ForgetStalls,
       WaitForRecovery, StallAgain, FailGivenUp, Unresolvable, Complete, Wait
  <2>2. CASE SelectStarved \/ SelectGivenUp \/ SelectStarvedAgain
    BY <1>4, <1>5, <2>2 DEF SelectStarved, SelectGivenUp, SelectStarvedAgain
  <2>3. CASE GiveUp
    <3> DEFINE cause == IF workers THEN "no_progress" ELSE "no_workers"
    <3>1. CASE NeverFail
      BY <1>4, <2>3, <3>1 DEF GiveUp
    <3>2. CASE ~NeverFail
      <4>1. Read([tick EXCEPT !.pc = "give_up", !.cause = cause])
        BY <2>3, <3>2 DEF GiveUp
      <4> HIDE DEF cause
      <4> QED
        BY <1>0, <1>1, <4>1 DEF Read, Tick
    <3> QED
      BY <3>1, <3>2
  <2> QED
    BY <1>7, <2>1, <2>2, <2>3 DEF Decisions
<1>8. CASE PauseForSpend
  BY <1>4, <1>8 DEF PauseForSpend
<1>9. CASE \E i \in Items : WorkerStep(i)
  BY <1>0, <1>2, <1>9 DEF WorkerStep, Claim, Reports, ReportDone, ReportFailed, ReportRetry,
     Report, Reclaim, Disturb, Tick
<1>10. CASE (\E i \in busy : Abandon(i)) \/ WorkersLeave \/ WorkersReturn \/ GoQuiet \/ Cancel
  BY <1>3, <1>10 DEF Abandon, WorkersLeave, WorkersReturn, GoQuiet, Cancel
<1>11. CASE AbortTick
  BY <1>1, <1>11 DEF AbortTick, IdleTick
<1>12. CASE UNCHANGED vars
  BY <1>3, <1>12 DEF vars
<1> QED
  BY <1>6, <1>7, <1>8, <1>9, <1>10, <1>11, <1>12 DEF Next, TickStep

\* Only Complete writes COMPLETED without giving the run up: the other commits
\* leave the status, or write another one, or mark the run degraded.
LEMMA OnlyComplete ==
  ASSUME TypeOK, [Next]_vars, run.status # "COMPLETED", run'.status = "COMPLETED", ~run'.degraded
  PROVE  Complete
<1>0. run \in RunRow
  BY DEF TypeOK
<1>1. CASE Reads
  BY <1>1 DEF Reads, LoadRun, ReadReviews, SupersedeStaleRecoveries, ReadFailed,
     ReadPendingRecovery, ReadActive, ReadQueued, ReadRunnable, Read
<1>2. CASE Decisions
  <2>1. ~(SelectStarved \/ CancelStarved \/ SelectStarvedAgain \/ SelectGivenUp
          \/ WaitForRecovery \/ Wait)
    BY DEF SelectStarved, CancelStarved, SelectStarvedAgain, SelectGivenUp, WaitForRecovery,
       Wait, SelectDoomed, Read, Commit
  <2>2. ~(ForgetStalls \/ StallAgain \/ AutoResume)
    BY <1>0 DEF ForgetStalls, StallAgain, AutoResume, Commit, RunRow
  <2>3. ~(Reject \/ PauseStalledWork \/ FailGivenUp \/ Unresolvable)
    BY <1>0 DEF Reject, PauseStalledWork, FailGivenUp, Unresolvable, Unresolved, Guarded, Lost,
       StallPaused, Paused, Failed, Degraded, Commit, RunRow
  <2>4. ~GiveUp
    <3>1. \A cause : ~Commit(Guarded(Degraded(cause)))
      BY <1>0 DEF Guarded, Degraded, Commit, RunRow
    <3>2. \A next : ~Read(next)
      BY DEF Read
    <3> QED
      BY <3>1, <3>2 DEF GiveUp
  <2> QED
    BY <1>2, <2>1, <2>2, <2>3, <2>4 DEF Decisions
<1>3. ~(PauseForSpend \/ Cancel)
  BY <1>0 DEF PauseForSpend, Cancel, Paused, Commit, RunRow
<1>4. ~(\E i \in Items : WorkerStep(i))
  BY DEF WorkerStep, Claim, Reports, ReportDone, ReportFailed, ReportRetry, Report, Reclaim
<1>5. ~((\E i \in busy : Abandon(i)) \/ WorkersLeave \/ WorkersReturn \/ GoQuiet \/ AbortTick)
  BY DEF Abandon, WorkersLeave, WorkersReturn, GoQuiet, AbortTick
<1>6. ~UNCHANGED vars
  BY DEF vars
<1> QED
  BY <1>1, <1>2, <1>3, <1>4, <1>5, <1>6 DEF Next, TickStep

\* When a tick that nobody overlaps completes the run, what it counted is what
\* there is; the failures it does not supersede in that commit do not block.
LEMMA CalmComplete ==
  ASSUME TypeOK, CalmReads, Complete, tick.undisturbed
  PROVE  \A i \in Items :
            item[i].status \notin {"QUEUED", "RUNNING"} /\ ~BlockingFailure(i)'
<1> SUFFICES ASSUME NEW i \in Items
             PROVE  item[i].status \notin {"QUEUED", "RUNNING"} /\ ~BlockingFailure(i)'
  OBVIOUS
<1>1. /\ tick.failed = WithStatus({"FAILED"})
      /\ WithStatus({"RUNNING"}) = {} /\ WithStatus({"QUEUED"}) = {} /\ Blocking = {}
  BY DEF CalmReads, Complete, Finished
<1>2. item[i].status \notin {"QUEUED", "RUNNING"}
  BY <1>1 DEF WithStatus
<1>3. ~BlockingFailure(i)'
  <2> SUFFICES ASSUME BlockingFailure(i)' PROVE FALSE
    OBVIOUS
  <2>1. item[i] \in ItemRow
    BY DEF TypeOK
  <2>2. item'[i] = [item[i] EXCEPT !.superseded = @ \/ i \in tick.superseding,
                                   !.status = IF i \in tick.doomed THEN "CANCELED" ELSE @]
    BY DEF Complete, Commit
  <2>3. /\ item'[i].status = (IF i \in tick.doomed THEN "CANCELED" ELSE item[i].status)
        /\ item'[i].superseded = (item[i].superseded \/ i \in tick.superseding)
        /\ item'[i].rule = item[i].rule
    BY <2>1, <2>2 DEF ItemRow
  <2>4. /\ item'[i].status = "FAILED" /\ i \in Critical /\ ~item'[i].superseded
        /\ item'[i].rule \notin {"budget", "budget_text"}
    BY DEF BlockingFailure, BlocksDependents
  <2>5. item[i].status = "FAILED" /\ ~item[i].superseded /\ i \notin tick.superseding
    BY <2>3, <2>4
  <2>6. i \in Blocking
    BY <1>1, <2>3, <2>4, <2>5 DEF Blocking, BlockingFailure, BlocksDependents, WithStatus
  <2> QED
    BY <1>1, <2>6
<1> QED
  BY <1>2, <1>3

\* For every graph: a tick that no claim, report or reclaim overlaps completes
\* the run only when no item is queued or running and no failure blocks it.
THEOREM CalmCompletions == Spec => CalmCompletionIsRight
<1>1. ASSUME TypeOK, CalmReads, [Next]_vars, tick.undisturbed, run.status # "COMPLETED",
             run'.status = "COMPLETED", ~run'.degraded
      PROVE  \A i \in Items :
                item[i].status \notin {"QUEUED", "RUNNING"} /\ ~BlockingFailure(i)'
  BY <1>1, OnlyComplete, CalmComplete
<1>2. TypeOK /\ CalmReads /\ [Next]_vars =>
        [(tick.undisturbed /\ run.status # "COMPLETED" /\ run'.status = "COMPLETED"
            /\ ~run'.degraded)
         => \A i \in Items :
               /\ item[i].status \notin {"QUEUED", "RUNNING"}
               /\ ~BlockingFailure(i)']_vars
  BY <1>1
<1> QED
  BY <1>2, TypeInit, TypeStep, CalmInit, CalmStep, PTL DEF Spec, CalmCompletionIsRight
=============================================================================
