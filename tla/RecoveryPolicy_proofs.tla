------------------------- MODULE RecoveryPolicy_proofs -------------------------
(***************************************************************************)
(* However many workers report at once, on whatever graph: the attempts of *)
(* an item stay within its budget, and those of a run and of a failure     *)
(* type exceed theirs by less than one for each worker; what waited for an *)
(* item waits for the row that now stands for it; no repair is paid for in *)
(* vain; the graph is worked off in its order; and every step uses up      *)
(* something of what the budgets allow.                                    *)
(***************************************************************************)
EXTENDS RecoveryPolicyProps, FiniteSetTheorems, WellFoundedInduction, TLAPS

LEMMA LeastOf ==
  ASSUME NEW R, NEW T, IsWellFoundedOn(R, Nat), T \subseteq Nat, T # {}
  PROVE  \E x \in T : \A y \in T : <<y, x>> \notin R
<1>1. \A S : IsWellFoundedOn(R, S) /\ T \subseteq S => \E x \in T : \A y \in T : ~(<<y, x>> \in R)
  BY WFMin
<1> QED
  BY <1>1

USE ConstantsAssumption

-----------------------------------------------------------------------------
(* Rows.                                                                   *)

LEMMA RowsGrow ==
  ASSUME NEW n \in Nat, NEW m \in Nat, n <= m
  PROVE  ItemRow(n) \subseteq ItemRow(m) /\ WorkerRow(n) \subseteq WorkerRow(m)
<1>1. 0 .. n \subseteq 0 .. m
  OBVIOUS
<1> QED
  BY <1>1 DEF ItemRow, WorkerRow

LEMMA SequencesGrow ==
  ASSUME NEW S, NEW T, S \subseteq T, NEW s \in Seq(S)
  PROVE  s \in Seq(T)
<1>1. s \in [1 .. Len(s) -> S] /\ Len(s) \in Nat
  OBVIOUS
<1>2. s \in [1 .. Len(s) -> T]
  BY <1>1
<1> QED
  BY <1>1, <1>2

LEMMA RowFields ==
  ASSUME TypeOK, NEW i \in Ids
  PROVE  item[i] \in ItemRow(Len(item)) /\ i \in 1 .. Len(item) /\ Len(item) \in Nat
  BY DEF TypeOK, Ids

\* What every step does to the rows: none goes, and none changes its type.
RowsFollow ==
  /\ item' \in Seq(ItemRow(Len(item')))
  /\ Len(item) <= Len(item')
  /\ \A i \in Ids : item'[i].type = item[i].type

IsOpen(r) == r.status \in {"QUEUED", "RUNNING"}

LEMMA Change ==
  ASSUME TypeOK, OpenIsUnrepeated,
         NEW i \in Ids, NEW r \in ItemRow(Len(item)),
         r.type = item[i].type, IsOpen(r) => r.same < MaxSameSignature,
         item' = [item EXCEPT ![i] = r]
  PROVE  RowsFollow /\ Len(item') = Len(item) /\ OpenIsUnrepeated'
<1>1. Len(item') = Len(item) /\ item' \in Seq(ItemRow(Len(item)))
  BY DEF TypeOK, Ids
<1>2. \A j \in Ids : item'[j] = IF j = i THEN r ELSE item[j]
  BY DEF TypeOK, Ids
<1> QED
  BY <1>1, <1>2 DEF RowsFollow, OpenIsUnrepeated, Ids, IsOpen

LEMMA Extension ==
  ASSUME TypeOK, OpenIsUnrepeated,
         NEW s \in Seq(ItemRow(Len(item) + 1)), Len(s) = Len(item),
         \A i \in Ids : s[i].type = item[i].type,
         \A i \in Ids : IsOpen(s[i]) => s[i].same < MaxSameSignature,
         NEW r \in ItemRow(Len(item) + 1), r.same = -1,
         item' = Append(s, r)
  PROVE  RowsFollow /\ Len(item') = Len(item) + 1 /\ OpenIsUnrepeated'
<1>1. Len(item) \in Nat
  BY DEF TypeOK
<1>2. Len(item') = Len(item) + 1 /\ item' \in Seq(ItemRow(Len(item) + 1))
  BY <1>1
<1>3. \A i \in Ids : item'[i] = s[i]
  BY <1>1 DEF Ids
<1>4. item'[Len(item) + 1] = r
  BY <1>1
<1>5. RowsFollow
  <2>1. item' \in Seq(ItemRow(Len(item')))
    BY <1>2
  <2>2. \A i \in Ids : item'[i].type = item[i].type
    BY <1>3
  <2>3. Len(item) <= Len(item')
    BY <1>1, <1>2
  <2> QED
    BY <2>1, <2>2, <2>3, Zenon DEF RowsFollow
<1>6. OpenIsUnrepeated'
  <2> SUFFICES ASSUME NEW i \in 1 .. Len(item'), item'[i].status \in {"QUEUED", "RUNNING"}
               PROVE  item'[i].same < MaxSameSignature
    BY DEF OpenIsUnrepeated, Ids
  <2>1. CASE i = Len(item) + 1
    BY <2>1, <1>4 DEF MaxSameSignature
  <2>2. CASE i # Len(item) + 1
    <3>1. i \in Ids
      BY <2>2, <1>1, <1>2 DEF Ids
    <3> QED
      BY <3>1, <1>3 DEF IsOpen
  <2> QED
    BY <2>1, <2>2
<1> QED
  BY <1>2, <1>5, <1>6

LEMMA WorkerFields ==
  ASSUME TypeOK, NEW w \in Workers
  PROVE  worker[w] \in WorkerRow(Len(item))
  BY DEF TypeOK

LEMMA FailureTypeIs == ASSUME NEW class PROVE FailureType(class) \in FailureTypes
  BY DEF FailureType, FailureTypes

LEMMA FixTypeIs == ASSUME NEW class PROVE FixType(class) \in CountedFixes \cup {"GENESIS_FOUNDATION"}
  BY DEF FixType, CountedFixes, RetryingFixes

-----------------------------------------------------------------------------
(* One worker for each item that runs.                                     *)

\* A step that gives nobody an item, and takes from nobody one that he keeps.
LEMMA Follows ==
  ASSUME JobInv, RowsFollow, OpenIsUnrepeated',
         edges' \subseteq Ids' \X Ids',
         tries' \in Seq([item : Ids', type : FailureTypes]),
         worker' \in [Workers -> WorkerRow(Len(item'))],
         overdue' \in BOOLEAN, faults' \in 0 .. MaxFaults,
         \A v \in Workers :
            worker'[v].pc # "idle" =>
               /\ worker[v].pc # "idle"
               /\ worker'[v].job = worker[v].job
               /\ item'[worker[v].job].status = item[worker[v].job].status,
         \A v \in Workers : worker'[v].pc = "sized" => worker'[v].allowed
  PROVE  JobInv'
<1>1. TypeOK'
  BY DEF TypeOK, RowsFollow
<1>2. JobIsRunning'
  <2> SUFFICES ASSUME NEW v \in Workers, worker'[v].pc # "idle"
               PROVE  worker'[v].job \in Ids' /\ item'[worker'[v].job].status = "RUNNING"
    BY DEF JobIsRunning, Busy
  <2>1. worker[v].job \in Ids /\ item[worker[v].job].status = "RUNNING"
    BY DEF JobInv, JobIsRunning, Busy
  <2>2. Ids \subseteq Ids'
    BY DEF RowsFollow, Ids, JobInv, TypeOK
  <2> QED
    BY <2>1, <2>2
<1>3. OneWorkerEach'
  BY DEF JobInv, OneWorkerEach, Busy
<1>4. SizedIsAdmitted'
  BY DEF SizedIsAdmitted
<1> QED
  BY <1>1, <1>2, <1>3, <1>4 DEF JobInv

\* The attempts that a report may add.
Adds(i) == tries' = tries \/ \E type \in FailureTypes : tries' = Try(i, type)

LEMMA TriesFollow ==
  ASSUME TypeOK, RowsFollow, NEW i \in Ids, Adds(i)
  PROVE  tries' \in Seq([item : Ids', type : FailureTypes])
<1>1. Ids \subseteq Ids'
  BY DEF RowsFollow, Ids, TypeOK
<1>2. tries \in Seq([item : Ids', type : FailureTypes])
  <2>1. [item : Ids, type : FailureTypes] \subseteq [item : Ids', type : FailureTypes]
    BY <1>1
  <2> QED
    BY <2>1, SequencesGrow DEF TypeOK
<1>3. ASSUME NEW type \in FailureTypes, tries' = Try(i, type)
      PROVE  tries' \in Seq([item : Ids', type : FailureTypes])
  <2>1. [item |-> i, type |-> type] \in [item : Ids', type : FailureTypes]
    BY <1>1
  <2> QED
    BY <1>2, <1>3, <2>1 DEF Try
<1> QED
  BY <1>2, <1>3 DEF Adds

LEMMA Idles ==
  ASSUME TypeOK, RowsFollow, NEW w \in Workers, Done(w)
  PROVE  /\ worker' \in [Workers -> WorkerRow(Len(item'))]
         /\ worker'[w].pc = "idle"
         /\ \A v \in Workers \ {w} : worker'[v] = worker[v]
<1>1. Len(item) \in Nat /\ Len(item') \in Nat
  BY DEF TypeOK, RowsFollow
<1>2. WorkerRow(Len(item)) \subseteq WorkerRow(Len(item'))
  BY <1>1, RowsGrow DEF RowsFollow
<1>3. IdleWorker \in WorkerRow(Len(item')) /\ IdleWorker.pc = "idle"
  BY <1>1 DEF IdleWorker, WorkerRow, NoId, MaxSameSignature
<1> QED
  BY <1>2, <1>3 DEF TypeOK, Done

\* A worker ends its report, and leaves the rows of items that run as they are.
LEMMA ReportEnds ==
  ASSUME JobInv, NEW w \in Workers, Busy(w), Done(w), Adds(worker[w].job),
         RowsFollow, OpenIsUnrepeated',
         \A i \in Ids : i # worker[w].job => item'[i].status = item[i].status,
         edges' \subseteq Ids' \X Ids', UNCHANGED <<overdue, faults>>
  PROVE  JobInv'
<1>1. TypeOK /\ worker[w].job \in Ids
  BY DEF JobInv, JobIsRunning
<1>2. /\ worker' \in [Workers -> WorkerRow(Len(item'))]
      /\ worker'[w].pc = "idle"
      /\ \A v \in Workers \ {w} : worker'[v] = worker[v]
  BY <1>1, Idles
<1>3. tries' \in Seq([item : Ids', type : FailureTypes])
  BY <1>1, TriesFollow
<1>4. ASSUME NEW v \in Workers, worker'[v].pc # "idle"
      PROVE  /\ worker[v].pc # "idle"
             /\ worker'[v].job = worker[v].job
             /\ item'[worker[v].job].status = item[worker[v].job].status
  <2>1. v # w /\ worker'[v] = worker[v]
    BY <1>2, <1>4
  <2>2. worker[v].job \in Ids /\ worker[v].job # worker[w].job
    BY <1>4, <2>1 DEF JobInv, JobIsRunning, OneWorkerEach, Busy
  <2> QED
    BY <1>4, <2>1, <2>2
<1>5. \A v \in Workers : worker'[v].pc = "sized" => worker'[v].allowed
  BY <1>2 DEF JobInv, SizedIsAdmitted
<1>6. overdue' \in BOOLEAN /\ faults' \in 0 .. MaxFaults
  BY <1>1 DEF TypeOK
<1> QED
  BY <1>2, <1>3, <1>4, <1>5, <1>6, Follows

\* ... changing only the row of its item.
LEMMA ReportChanges ==
  ASSUME JobInv, NEW w \in Workers, Busy(w), Done(w), Adds(worker[w].job),
         NEW r \in ItemRow(Len(item)), item' = [item EXCEPT ![worker[w].job] = r],
         r.type = item[worker[w].job].type, IsOpen(r) => r.same < MaxSameSignature,
         UNCHANGED <<edges, overdue, faults>>
  PROVE  JobInv' /\ RowsFollow
<1>1. TypeOK /\ OpenIsUnrepeated /\ worker[w].job \in Ids
  BY DEF JobInv, JobIsRunning
<1>2. RowsFollow /\ Len(item') = Len(item) /\ OpenIsUnrepeated'
  BY <1>1, Change
<1>3. \A i \in Ids : i # worker[w].job => item'[i].status = item[i].status
  BY <1>1 DEF TypeOK, Ids
<1>4. edges' \subseteq Ids' \X Ids'
  BY <1>1, <1>2 DEF TypeOK, Ids
<1> QED
  BY <1>2, <1>3, <1>4, ReportEnds

\* ... or with a new row behind them.
LEMMA ReportExtends ==
  ASSUME JobInv, NEW w \in Workers, Busy(w), Done(w), Adds(worker[w].job),
         NEW s \in Seq(ItemRow(Len(item) + 1)), Len(s) = Len(item),
         \A i \in Ids : s[i].type = item[i].type,
         \A i \in Ids : i # worker[w].job => s[i].status = item[i].status,
         \A i \in Ids : IsOpen(s[i]) => s[i].same < MaxSameSignature,
         NEW r \in ItemRow(Len(item) + 1), r.same = -1,
         item' = Append(s, r),
         edges' \subseteq (1 .. Len(item) + 1) \X (1 .. Len(item) + 1),
         UNCHANGED <<overdue, faults>>
  PROVE  JobInv' /\ RowsFollow
<1>1. TypeOK /\ OpenIsUnrepeated /\ Len(item) \in Nat
  BY DEF JobInv, TypeOK
<1>2. RowsFollow /\ Len(item') = Len(item) + 1 /\ OpenIsUnrepeated'
  BY <1>1, Extension
<1>3. \A i \in Ids : item'[i] = s[i]
  BY <1>1 DEF Ids
<1>4. \A i \in Ids : i # worker[w].job => item'[i].status = item[i].status
  BY <1>3
<1>5. edges' \subseteq Ids' \X Ids'
  BY <1>2 DEF Ids
<1> QED
  BY <1>2, <1>4, <1>5, ReportEnds

-----------------------------------------------------------------------------
(* Each step keeps that.                                                   *)

\* A row with another status, and with another result.
At(r, status) == [r EXCEPT !.status = status]
With(r, status, text, same) == [r EXCEPT !.status = status, !.text = text, !.same = same]

LEMMA RowAt ==
  ASSUME NEW n, NEW r \in ItemRow(n), NEW status \in {"QUEUED", "RUNNING", "DONE", "FAILED"}
  PROVE  /\ At(r, status) \in ItemRow(n) /\ At(r, status).type = r.type
         /\ At(r, status).same = r.same /\ At(r, status).status = status
  BY DEF ItemRow, At

\* What a report may write.
Writable(status, text, same) ==
  /\ status \in {"QUEUED", "RUNNING", "DONE", "FAILED"}
  /\ text \in Texts \cup {{}}
  /\ same \in -1 .. MaxSameSignature

LEMMA RowWith ==
  ASSUME NEW n, NEW r \in ItemRow(n), NEW status, NEW text, NEW same,
         Writable(status, text, same)
  PROVE  /\ With(r, status, text, same) \in ItemRow(n)
         /\ With(r, status, text, same).type = r.type
         /\ With(r, status, text, same).attempt = r.attempt
         /\ With(r, status, text, same).status = status
         /\ With(r, status, text, same).same = same
  BY DEF ItemRow, With, Writable

LEMMA ReportedIs ==
  ASSUME TypeOK, NEW i \in Ids, NEW status, NEW text, NEW same, Writable(status, text, same)
  PROVE  /\ Reported(i, status, text, same) \in ItemRow(Len(item))
         /\ Reported(i, status, text, same).type = item[i].type
         /\ Reported(i, status, text, same).attempt = item[i].attempt
         /\ Reported(i, status, text, same).status = status
         /\ Reported(i, status, text, same).same = same
<1>1. item[i] \in ItemRow(Len(item))
  BY RowFields
<1>2. Reported(i, status, text, same) = With(item[i], status, text, same)
  BY DEF Reported, With
<1> QED
  BY <1>1, <1>2, RowWith

LEMMA NewItemIs ==
  ASSUME NEW n \in Nat,
         NEW type \in {Graph[i] : i \in DOMAIN Graph} \cup CountedFixes \cup {"GENESIS_FOUNDATION"}
  PROVE  NewItem(type) \in ItemRow(n) /\ NewItem(type).same = -1
  BY DEF NewItem, ItemRow, NoId, MaxSameSignature

LEMMA StandsForIs ==
  ASSUME NEW n \in Nat, NEW r \in ItemRow(n), r.same = -1, NEW W \in SUBSET DOMAIN Graph
  PROVE  [r EXCEPT !.of = W] \in ItemRow(n) /\ [r EXCEPT !.of = W].same = -1
  BY DEF ItemRow

LEMMA FailedRowIs ==
  ASSUME JobInv, NEW w \in Workers, Busy(w)
  PROVE  /\ worker[w].job \in Ids /\ worker[w].same \in -1 .. MaxSameSignature - 1
         /\ FailedRow(w) \in ItemRow(Len(item))
         /\ FailedRow(w).type = item[worker[w].job].type
         /\ FailedRow(w).status = "FAILED" /\ ~IsOpen(FailedRow(w))
         /\ FailedRow(w).same = worker[w].same
         /\ FailedRow(w).attempt = item[worker[w].job].attempt
<1>1. TypeOK /\ worker[w].job \in Ids
  BY DEF JobInv, JobIsRunning
<1>2. worker[w].text \in Texts \cup {{}} /\ worker[w].same \in -1 .. MaxSameSignature - 1
  BY <1>1, WorkerFields DEF WorkerRow
<1>3. worker[w].same \in -1 .. MaxSameSignature
  BY <1>2 DEF MaxSameSignature
<1>4. /\ FailedRow(w) \in ItemRow(Len(item))
      /\ FailedRow(w).type = item[worker[w].job].type
      /\ FailedRow(w).status = "FAILED"
      /\ FailedRow(w).same = worker[w].same
      /\ FailedRow(w).attempt = item[worker[w].job].attempt
  <2> DEFINE i == worker[w].job
             text == worker[w].text
             same == worker[w].same
  <2>1. i \in Ids /\ Writable("FAILED", text, same)
    BY <1>1, <1>2, <1>3 DEF Writable
  <2>2. FailedRow(w) = Reported(i, "FAILED", text, same)
    BY DEF FailedRow
  <2> HIDE DEF i, text, same
  <2>4. /\ Reported(i, "FAILED", text, same) \in ItemRow(Len(item))
        /\ Reported(i, "FAILED", text, same).type = item[i].type
        /\ Reported(i, "FAILED", text, same).attempt = item[i].attempt
        /\ Reported(i, "FAILED", text, same).status = "FAILED"
        /\ Reported(i, "FAILED", text, same).same = same
    BY <1>1, <2>1, ReportedIs
  <2> QED
    BY <2>2, <2>4 DEF i, same
<1> QED
  BY <1>1, <1>2, <1>4 DEF IsOpen

LEMMA AttemptAdds ==
  ASSUME NEW w \in Workers, Attempted(w)
  PROVE  Adds(worker[w].job)
  BY FailureTypeIs DEF Attempted, Adds

LEMMA ClaimKeeps ==
  ASSUME JobInv, NEW w \in Workers, NEW i \in Ids, Claim(w, i)
  PROVE  JobInv' /\ RowsFollow
<1> DEFINE r == [item[i] EXCEPT !.status = "RUNNING"]
<1>1. TypeOK /\ OpenIsUnrepeated
  BY DEF JobInv
<1>2. item[i].status = "QUEUED" /\ item' = [item EXCEPT ![i] = r]
  BY DEF Claim, Runnable
<1>3. r \in ItemRow(Len(item)) /\ r.type = item[i].type /\ r.same = item[i].same
      /\ r.status = "RUNNING"
  <2>1. r = At(item[i], "RUNNING")
    BY DEF At
  <2> HIDE DEF r
  <2> QED
    BY <1>1, <2>1, RowFields, RowAt
<1>4. item[i].same < MaxSameSignature
  BY <1>1, <1>2 DEF OpenIsUnrepeated
<1>5. RowsFollow /\ Len(item') = Len(item) /\ OpenIsUnrepeated'
  <2> HIDE DEF r
  <2> QED
    BY <1>1, <1>2, <1>3, <1>4, Change
<1>6. Ids' = Ids
  BY <1>5 DEF Ids
<1>7. worker' = [worker EXCEPT ![w] = [IdleWorker EXCEPT !.pc = "executing", !.job = i]]
  BY DEF Claim
<1>8. [IdleWorker EXCEPT !.pc = "executing", !.job = i] \in WorkerRow(Len(item))
  <2>1. i \in 0 .. Len(item) /\ Len(item) \in Nat
    BY <1>1, RowFields
  <2>2. IdleWorker \in WorkerRow(Len(item))
    BY <2>1 DEF IdleWorker, WorkerRow, NoId, MaxSameSignature
  <2> QED
    BY <2>1, <2>2 DEF WorkerRow
<1>9. TypeOK'
  BY <1>1, <1>5, <1>6, <1>7, <1>8 DEF TypeOK, RowsFollow, Claim
<1>10. /\ worker'[w].pc = "executing" /\ worker'[w].job = i
       /\ \A v \in Workers \ {w} : worker'[v] = worker[v]
  BY <1>1, <1>7 DEF TypeOK, IdleWorker
<1>11. item'[i].status = "RUNNING" /\ \A j \in Ids : j # i => item'[j] = item[j]
  <2> HIDE DEF r
  <2> QED
    BY <1>1, <1>2, <1>3 DEF TypeOK, Ids
<1>12. \A v \in Workers \ {w} : Busy(v) => worker[v].job # i
  BY <1>2 DEF JobInv, JobIsRunning
<1>13. JobIsRunning'
  BY <1>6, <1>10, <1>11 DEF JobInv, JobIsRunning, Busy
<1>14. OneWorkerEach'
  BY <1>10, <1>12 DEF JobInv, OneWorkerEach, Busy
<1>15. SizedIsAdmitted'
  BY <1>10 DEF JobInv, SizedIsAdmitted
<1> QED
  BY <1>5, <1>9, <1>13, <1>14, <1>15 DEF JobInv

LEMMA SameRows ==
  ASSUME JobInv, UNCHANGED item
  PROVE  RowsFollow /\ OpenIsUnrepeated' /\ Ids' = Ids
  BY DEF JobInv, TypeOK, RowsFollow, OpenIsUnrepeated, Ids

LEMMA AbandonKeeps ==
  ASSUME JobInv, NEW w \in Workers, Abandon(w)
  PROVE  JobInv' /\ RowsFollow
<1>1. TypeOK /\ UNCHANGED <<item, edges, tries, overdue>> /\ Done(w)
      /\ faults' \in 0 .. MaxFaults
  BY DEF JobInv, TypeOK, Abandon, Done
<1>2. RowsFollow /\ OpenIsUnrepeated' /\ Ids' = Ids
  BY <1>1, SameRows
<1>3. /\ worker' \in [Workers -> WorkerRow(Len(item'))]
      /\ worker'[w].pc = "idle"
      /\ \A v \in Workers \ {w} : worker'[v] = worker[v]
  BY <1>1, <1>2, Idles
<1>4. edges' \subseteq Ids' \X Ids' /\ tries' \in Seq([item : Ids', type : FailureTypes])
      /\ overdue' \in BOOLEAN
  BY <1>1, <1>2 DEF TypeOK
<1>5. \A v \in Workers :
         worker'[v].pc # "idle" =>
            /\ worker[v].pc # "idle"
            /\ worker'[v].job = worker[v].job
            /\ item'[worker[v].job].status = item[worker[v].job].status
  BY <1>1, <1>3
<1>6. \A v \in Workers : worker'[v].pc = "sized" => worker'[v].allowed
  BY <1>3 DEF JobInv, SizedIsAdmitted
<1> QED
  BY <1>1, <1>2, <1>3, <1>4, <1>5, <1>6, Follows

LEMMA ReclaimKeeps ==
  ASSUME JobInv, NEW i \in Ids, Reclaim(i)
  PROVE  JobInv' /\ RowsFollow
<1> DEFINE r == [item[i] EXCEPT !.status = "QUEUED"]
<1>1. TypeOK /\ OpenIsUnrepeated
  BY DEF JobInv
<1>2. item[i].status = "RUNNING" /\ item' = [item EXCEPT ![i] = r]
  BY DEF Reclaim, Leased
<1>3. r \in ItemRow(Len(item)) /\ r.type = item[i].type /\ r.same = item[i].same
  <2>1. r = At(item[i], "QUEUED")
    BY DEF At
  <2> HIDE DEF r
  <2> QED
    BY <1>1, <2>1, RowFields, RowAt
<1>4. item[i].same < MaxSameSignature
  BY <1>1, <1>2 DEF OpenIsUnrepeated
<1>5. RowsFollow /\ Len(item') = Len(item) /\ OpenIsUnrepeated'
  <2> HIDE DEF r
  <2> QED
    BY <1>1, <1>2, <1>3, <1>4, Change
<1>6. Ids' = Ids
  BY <1>5 DEF Ids
<1>7. UNCHANGED <<edges, tries, worker, overdue, faults>> /\ \A v \in Workers : worker[v].job # i
  BY DEF Reclaim
<1>8. \A j \in Ids : j # i => item'[j] = item[j]
  BY <1>1, <1>2 DEF TypeOK, Ids
<1>9. /\ edges' \subseteq Ids' \X Ids' /\ tries' \in Seq([item : Ids', type : FailureTypes])
      /\ overdue' \in BOOLEAN /\ faults' \in 0 .. MaxFaults
      /\ worker' \in [Workers -> WorkerRow(Len(item'))]
  BY <1>1, <1>5, <1>6, <1>7 DEF TypeOK
<1>10. \A v \in Workers :
         worker'[v].pc # "idle" =>
            /\ worker[v].pc # "idle"
            /\ worker'[v].job = worker[v].job
            /\ item'[worker[v].job].status = item[worker[v].job].status
  BY <1>7, <1>8 DEF JobInv, JobIsRunning, Busy
<1>11. \A v \in Workers : worker'[v].pc = "sized" => worker'[v].allowed
  BY <1>7 DEF JobInv, SizedIsAdmitted
<1> QED
  BY <1>5, <1>9, <1>10, <1>11, Follows

LEMMA LimitKeeps ==
  ASSUME JobInv, \/ PassLimit
                 \/ UNCHANGED vars
  PROVE  JobInv' /\ RowsFollow
<1>1. UNCHANGED <<item, edges, tries, worker, faults>> /\ (overdue' = TRUE \/ overdue' = overdue)
  BY DEF PassLimit, vars
<1>2. RowsFollow /\ OpenIsUnrepeated' /\ Ids' = Ids
  BY <1>1, SameRows
<1>3. TypeOK'
  BY <1>1, <1>2 DEF JobInv, TypeOK
<1> QED
  BY <1>1, <1>2, <1>3 DEF JobInv, JobIsRunning, OneWorkerEach, SizedIsAdmitted, Busy

\* A worker goes on with its report.
LEMMA WorkerGoesOn ==
  ASSUME JobInv, NEW w \in Workers, Busy(w), NEW k \in WorkerRow(Len(item)),
         k.job = worker[w].job, k.pc = "sized" => k.allowed,
         worker' = [worker EXCEPT ![w] = k], UNCHANGED <<item, edges, tries, overdue, faults>>
  PROVE  JobInv' /\ RowsFollow
<1>1. RowsFollow /\ OpenIsUnrepeated' /\ Ids' = Ids
  BY SameRows
<1>2. worker'[w] = k /\ \A v \in Workers \ {w} : worker'[v] = worker[v]
  BY DEF JobInv, TypeOK
<1>3. TypeOK'
  BY <1>1 DEF JobInv, TypeOK
<1>4. JobIsRunning' /\ OneWorkerEach'
  BY <1>1, <1>2 DEF JobInv, JobIsRunning, OneWorkerEach, Busy
<1>5. SizedIsAdmitted'
  BY <1>2 DEF JobInv, SizedIsAdmitted
<1> QED
  BY <1>1, <1>3, <1>4, <1>5 DEF JobInv

LEMMA CheckBudgetKeeps ==
  ASSUME JobInv, NEW w \in Workers, NEW text \in Texts, NEW raised \in BOOLEAN,
         CheckBudget(w, text, raised)
  PROVE  JobInv' /\ RowsFollow
<1> DEFINE i == worker[w].job
           same == NextSame(i, raised)
           allowed == WithinBudget(i, FailureType(Class(i, text)))
           k == [worker[w] EXCEPT !.pc = "counted", !.text = text, !.same = same,
                                  !.allowed = allowed]
<1>1. TypeOK /\ Busy(w) /\ i \in Ids
  BY DEF CheckBudget, Busy, JobInv, JobIsRunning
<1>2. same \in -1 .. MaxSameSignature - 1
  <2>1. item[i].same \in -1 .. MaxSameSignature
    BY <1>1, RowFields DEF ItemRow
  <2>2. same < MaxSameSignature
    BY DEF CheckBudget
  <2> HIDE DEF i
  <2> QED
    BY <2>1, <2>2 DEF NextSame, MaxSameSignature
<1>3. allowed \in BOOLEAN
  BY DEF WithinBudget
<1>4. worker[w] \in WorkerRow(Len(item))
  BY <1>1, WorkerFields
<1>5. worker' = [worker EXCEPT ![w] = k] /\ UNCHANGED <<item, edges, tries, overdue, faults>>
  BY DEF CheckBudget
<1>6. k \in WorkerRow(Len(item)) /\ k.job = worker[w].job /\ k.pc = "counted"
  <2> HIDE DEF i, same, allowed
  <2> QED
    BY <1>2, <1>3, <1>4 DEF WorkerRow
<1> HIDE DEF k
<1> QED
  BY <1>1, <1>5, <1>6, WorkerGoesOn

LEMMA CountFixesKeeps ==
  ASSUME JobInv, NEW w \in Workers, CountFixes(w)
  PROVE  JobInv' /\ RowsFollow
<1> DEFINE room == RoomForFix
           k == [worker[w] EXCEPT !.pc = "sized", !.room = room]
<1>1. TypeOK /\ Busy(w) /\ worker[w].allowed = TRUE
  BY WorkerFields DEF CountFixes, Busy, JobInv, WorkerRow
<1>2. room \in BOOLEAN
  BY DEF RoomForFix
<1>3. worker[w] \in WorkerRow(Len(item))
  BY <1>1, WorkerFields
<1>4. worker' = [worker EXCEPT ![w] = k] /\ UNCHANGED <<item, edges, tries, overdue, faults>>
  BY DEF CountFixes
<1>5. k \in WorkerRow(Len(item)) /\ k.job = worker[w].job /\ k.allowed = TRUE
  <2> HIDE DEF room
  <2> QED
    BY <1>1, <1>2, <1>3 DEF WorkerRow
<1> HIDE DEF k
<1> QED
  BY <1>1, <1>4, <1>5, WorkerGoesOn

LEMMA FailUnrecoveredKeeps ==
  ASSUME JobInv, NEW w \in Workers, NEW text \in Texts, NEW raised \in BOOLEAN,
         FailUnrecovered(w, text, raised)
  PROVE  JobInv' /\ RowsFollow
<1> DEFINE i == worker[w].job
           next == NextSame(i, raised)
           same == IF Rule(i, text) # "none" THEN next ELSE IF raised THEN item[i].same ELSE -1
           r == Reported(i, "FAILED", text, same)
<1>1. TypeOK /\ Busy(w) /\ i \in Ids
  BY DEF FailUnrecovered, Busy, JobInv, JobIsRunning
<1>2. item[i].status = "RUNNING" /\ item[i].same < MaxSameSignature
  BY <1>1 DEF JobInv, JobIsRunning, OpenIsUnrepeated
<1>3. same \in -1 .. MaxSameSignature
  BY <1>1, <1>2, RowFields DEF NextSame, ItemRow, MaxSameSignature
<1>4. Writable("FAILED", text, same)
  BY <1>3 DEF Writable
<1>5. item' = [item EXCEPT ![i] = r] /\ Done(w) /\ UNCHANGED <<edges, tries, overdue, faults>>
  <2>1. item' = [item EXCEPT ![i] = Reported(i, "FAILED", text,
                    IF Rule(i, text) # "none" THEN next
                    ELSE IF raised THEN item[i].same ELSE -1)]
    BY <1>1 DEF FailUnrecovered, TypeOK, Ids
  <2> QED
    BY <2>1 DEF FailUnrecovered
<1>6. r \in ItemRow(Len(item)) /\ r.type = item[i].type /\ r.status = "FAILED"
  <2> HIDE DEF i, same
  <2> QED
    BY <1>1, <1>4, ReportedIs
<1>7. Adds(i)
  BY <1>5 DEF Adds
<1> HIDE DEF r
<1> QED
  BY <1>1, <1>5, <1>6, <1>7, ReportChanges DEF IsOpen

LEMMA EscalateKeeps ==
  ASSUME JobInv, NEW w \in Workers, Escalate(w) \/ CommitBlock(w)
  PROVE  JobInv' /\ RowsFollow
<1>1. Busy(w) /\ Done(w) /\ item' = [item EXCEPT ![worker[w].job] = FailedRow(w)]
      /\ UNCHANGED <<edges, overdue, faults>>
  BY DEF Escalate, CommitBlock, Busy
<1>2. Adds(worker[w].job)
  BY AttemptAdds DEF Escalate, CommitBlock, Adds
<1>3. /\ FailedRow(w) \in ItemRow(Len(item))
      /\ FailedRow(w).type = item[worker[w].job].type
      /\ ~IsOpen(FailedRow(w))
  BY <1>1, FailedRowIs
<1> QED
  BY <1>1, <1>2, <1>3, ReportChanges

LEMMA CommitRetryKeeps ==
  ASSUME JobInv, NEW w \in Workers, CommitRetry(w)
  PROVE  JobInv' /\ RowsFollow
<1> DEFINE i == worker[w].job
           row == FailedRow(w)
           queued == [row EXCEPT !.status = "QUEUED", !.attempt = @ + 1, !.action = "retry"]
           r == IF RetriesLeft(i) THEN queued ELSE row
<1>1. TypeOK /\ Busy(w) /\ i \in Ids
  BY DEF CommitRetry, Busy, JobInv, JobIsRunning
<1>2. Done(w) /\ item' = [item EXCEPT ![i] = r] /\ UNCHANGED <<edges, overdue, faults>>
  BY DEF CommitRetry
<1>3. Adds(i)
  BY AttemptAdds DEF CommitRetry
<1>4. /\ row \in ItemRow(Len(item)) /\ row.type = item[i].type
      /\ ~IsOpen(row) /\ row.same \in -1 .. MaxSameSignature - 1
      /\ row.attempt = item[i].attempt
  BY <1>1, FailedRowIs
<1>5. ASSUME RetriesLeft(i)
      PROVE  queued \in ItemRow(Len(item)) /\ queued.type = item[i].type /\ queued.same < MaxSameSignature
  <2>1. item[i].attempt \in 0 .. MaxAttempts - 1
    BY <1>1, RowFields DEF ItemRow
  <2>2. item[i].attempt + 1 < MaxAttempts
    BY <1>5 DEF RetriesLeft
  <2> DEFINE attempt == row.attempt + 1
  <2>3. attempt \in 0 .. MaxAttempts - 1
    BY <1>4, <2>1, <2>2
  <2>4. queued = [row EXCEPT !.status = "QUEUED", !.attempt = attempt, !.action = "retry"]
    OBVIOUS
  <2> HIDE DEF row, i, attempt, queued
  <2>5. queued \in ItemRow(Len(item))
    BY <1>4, <2>3, <2>4 DEF ItemRow
  <2>6. queued.type = item[i].type /\ queued.same = row.same
    BY <1>4, <2>4 DEF ItemRow
  <2> QED
    BY <1>4, <2>5, <2>6 DEF MaxSameSignature
<1>6. r \in ItemRow(Len(item)) /\ r.type = item[i].type /\ (IsOpen(r) => r.same < MaxSameSignature)
  BY <1>4, <1>5
<1> HIDE DEF r
<1> QED
  BY <1>1, <1>2, <1>3, <1>6, ReportChanges

LEMMA DoneKeeps ==
  ASSUME JobInv, NEW w \in Workers, Busy(w), NEW same \in -1 .. 0,
         item' = [item EXCEPT ![worker[w].job] = Reported(worker[w].job, "DONE", {}, same)],
         Done(w), Adds(worker[w].job), UNCHANGED <<edges, overdue, faults>>
  PROVE  JobInv' /\ RowsFollow
<1> DEFINE i == worker[w].job
           r == Reported(i, "DONE", {}, same)
<1>1. TypeOK /\ i \in Ids
  BY DEF JobInv, JobIsRunning
<1>2. Writable("DONE", {}, same)
  BY DEF MaxSameSignature, Writable
<1>3. r \in ItemRow(Len(item)) /\ r.type = item[i].type /\ r.status = "DONE"
  <2> HIDE DEF i
  <2> QED
    BY <1>1, <1>2, ReportedIs
<1> HIDE DEF r
<1>4. item' = [item EXCEPT ![i] = r]
  BY DEF r
<1> QED
  BY <1>3, <1>4, ReportChanges DEF IsOpen

LEMMA CommitFixKeeps ==
  ASSUME JobInv, NEW w \in Workers, CommitFix(w)
  PROVE  JobInv' /\ RowsFollow
<1> DEFINE i == worker[w].job
           row == FailedRow(w)
           failed == [item EXCEPT ![i] = row]
           fix == Fix(w)
           n == Len(item)
<1>1. TypeOK /\ Busy(w) /\ i \in Ids /\ n \in Nat /\ i \in 1 .. n
  BY DEF CommitFix, Busy, JobInv, JobIsRunning, TypeOK, Ids
<1>2. Done(w) /\ Adds(i) /\ UNCHANGED <<edges, overdue, faults>>
  BY AttemptAdds DEF CommitFix
<1>3. row \in ItemRow(n) /\ row.type = item[i].type /\ ~IsOpen(row)
  BY <1>1, FailedRowIs
<1>4. CASE ~worker[w].room
  <2>1. item' = [item EXCEPT ![i] = row]
    BY <1>4 DEF CommitFix
  <2> HIDE DEF row
  <2> QED
    BY <1>1, <1>2, <1>3, <2>1, ReportChanges
<1>5. CASE worker[w].room
  <2>1. item' = Append(failed, fix)
    BY <1>5 DEF CommitFix
  <2>2. failed \in Seq(ItemRow(n)) /\ Len(failed) = n
        /\ \A j \in Ids : failed[j] = IF j = i THEN row ELSE item[j]
    <3> HIDE DEF row, i
    <3> QED
      BY <1>1, <1>3 DEF TypeOK, Ids
  <2>3. ItemRow(n) \subseteq ItemRow(n + 1)
    BY <1>1, RowsGrow
  <2>4. failed \in Seq(ItemRow(n + 1))
    <3> HIDE DEF failed
    <3> QED
      BY <2>2, <2>3, SequencesGrow
  <2>5. fix \in ItemRow(n + 1) /\ fix.same = -1
    <3> DEFINE new == NewItem(FixType(Class(i, worker[w].text)))
    <3>1. new \in ItemRow(n + 1) /\ new.same = -1
      <4> DEFINE type == FixType(Class(i, worker[w].text))
      <4>1. type \in {Graph[j] : j \in DOMAIN Graph} \cup CountedFixes \cup {"GENESIS_FOUNDATION"}
        BY FixTypeIs
      <4>2. n + 1 \in Nat
        BY <1>1
      <4> HIDE DEF type
      <4>3. NewItem(type) \in ItemRow(n + 1) /\ NewItem(type).same = -1
        BY <4>1, <4>2, NewItemIs
      <4> QED
        BY <4>3 DEF type
    <3>2. fix = [new EXCEPT !.failed = i, !.action = "spawn_fix_node"]
      BY DEF Fix
    <3>3. i \in 0 .. n + 1
      BY <1>1
    <3> HIDE DEF new, fix, i
    <3> QED
      BY <3>1, <3>2, <3>3 DEF ItemRow
  <2>6. /\ \A j \in Ids : failed[j].type = item[j].type
        /\ \A j \in Ids : j # i => failed[j].status = item[j].status
        /\ \A j \in Ids : IsOpen(failed[j]) => failed[j].same < MaxSameSignature
    BY <1>3, <2>2 DEF JobInv, OpenIsUnrepeated, IsOpen
  <2>7. edges' \subseteq (1 .. n + 1) \X (1 .. n + 1)
    BY <1>1, <1>2 DEF TypeOK, Ids
  <2> HIDE DEF failed, fix
  <2> QED
    BY <1>1, <1>2, <2>1, <2>2, <2>4, <2>5, <2>6, <2>7, ReportExtends
<1> QED
  BY <1>4, <1>5

LEMMA ReportDoneKeeps ==
  ASSUME JobInv, NEW w \in Workers, ReportDone(w) \/ ReportFixEscalated(w)
  PROVE  JobInv' /\ RowsFollow
<1>1. Busy(w) /\ Done(w) /\ Adds(worker[w].job) /\ UNCHANGED <<edges, overdue, faults>>
  BY DEF ReportDone, ReportFixEscalated, Busy, Adds
<1>2. PICK same \in -1 .. 0 :
         item' = [item EXCEPT ![worker[w].job] = Reported(worker[w].job, "DONE", {}, same)]
  <2>1. -1 \in -1 .. 0 /\ 0 \in -1 .. 0
    OBVIOUS
  <2> QED
    BY <2>1 DEF ReportDone, ReportFixEscalated, Finish
<1> QED
  BY <1>1, <1>2, DoneKeeps

LEMMA Largest ==
  ASSUME NEW n \in Nat, NEW S, S \subseteq 1 .. n, S # {}
  PROVE  \E i \in S : \A j \in S : j <= i
<1> DEFINE Less == {p \in Nat \X Nat : p[1] < p[2]}
           Behind == {n - i : i \in S}
<1>1. IsWellFoundedOn(Less, Nat)
  BY NatLessThanWellFounded DEF OpToRel
<1>2. Behind \subseteq Nat /\ Behind # {}
  <2>1. \A i \in S : n - i \in Nat
    OBVIOUS
  <2> QED
    BY <2>1
<1>3. PICK b \in Behind : \A a \in Behind : ~(<<a, b>> \in Less)
  <2> HIDE DEF Less, Behind
  <2> QED
    BY <1>1, <1>2, LeastOf
<1>4. PICK i \in S : b = n - i
  OBVIOUS
<1>5. \A j \in S : ~(n - j < n - i)
  BY <1>2, <1>3, <1>4
<1>6. \A j \in S : j \in Nat /\ i \in Nat
  OBVIOUS
<1> QED
  BY <1>5, <1>6

LEMMA DoneRowIs ==
  ASSUME TypeOK, NEW i \in Ids
  PROVE  LET done == Reported(i, "DONE", {}, 0)
         IN  done \in ItemRow(Len(item)) /\ done.type = item[i].type /\ done.status = "DONE"
<1>1. Writable("DONE", {}, 0)
  BY DEF MaxSameSignature, Writable
<1> QED
  BY <1>1, ReportedIs

LEMMA SpawnKeeps ==
  ASSUME JobInv, NEW w \in Workers, Busy(w), Done(w), Adds(worker[w].job),
         NEW old, old \subseteq Ids, NEW retry \in ItemRow(Len(item) + 1), retry.same = -1,
         SpawnRetry(w, old, retry), UNCHANGED <<overdue, faults>>
  PROVE  JobInv' /\ RowsFollow
<1> DEFINE fix == worker[w].job
           n == Len(item)
           done == Reported(fix, "DONE", {}, 0)
           row(j) == IF j = fix THEN done
                     ELSE IF j \in old THEN [item[j] EXCEPT !.by = n + 1] ELSE item[j]
           s == [j \in Ids |-> row(j)]
           works == UNION {item[j].of : j \in old}
<1>1. TypeOK /\ fix \in Ids /\ n \in Nat /\ fix \in 1 .. n /\ Ids = 1 .. n
  BY DEF JobInv, JobIsRunning, TypeOK, Ids
<1>2. item' = Append(s, [retry EXCEPT !.of = works])
  BY DEF SpawnRetry
<1>8. works \subseteq DOMAIN Graph
  <2> SUFFICES ASSUME NEW j \in old PROVE item[j].of \subseteq DOMAIN Graph
    BY DEF works
  <2> QED
    BY <1>1, RowFields DEF ItemRow
<1>9. [retry EXCEPT !.of = works] \in ItemRow(n + 1) /\ [retry EXCEPT !.of = works].same = -1
  <2> HIDE DEF works, n
  <2>1. n + 1 \in Nat
    BY <1>1
  <2> QED
    BY <1>8, <2>1, StandsForIs DEF n
<1>3. ItemRow(n) \subseteq ItemRow(n + 1)
  BY <1>1, RowsGrow
<1>4. done \in ItemRow(n) /\ done.type = item[fix].type /\ done.status = "DONE"
  BY <1>1, DoneRowIs
<1>5. ASSUME NEW j \in Ids
      PROVE  /\ row(j) \in ItemRow(n + 1) /\ row(j).type = item[j].type
             /\ j # fix => row(j).status = item[j].status
             /\ IsOpen(row(j)) => row(j).same < MaxSameSignature
  <2>1. item[j] \in ItemRow(n) /\ item[j] \in ItemRow(n + 1)
    BY <1>1, <1>3, RowFields
  <2>2. IsOpen(item[j]) => item[j].same < MaxSameSignature
    BY DEF JobInv, OpenIsUnrepeated, IsOpen
  <2>3. CASE j = fix
    <3>1. row(j) = done
      BY <2>3
    <3> HIDE DEF row, done
    <3> QED
      BY <1>3, <1>4, <2>3, <3>1 DEF IsOpen
  <2>4. CASE j # fix /\ j \in old
    <3> DEFINE r == [item[j] EXCEPT !.by = n + 1]
    <3>1. r \in ItemRow(n + 1) /\ r.type = item[j].type /\ r.status = item[j].status
          /\ r.same = item[j].same
      <4> DEFINE q == item[j]
                 new == n + 1
      <4>1. q \in ItemRow(n + 1) /\ new \in 0 .. n + 1 /\ r = [q EXCEPT !.by = new]
        BY <1>1, <2>1
      <4> HIDE DEF q, new, r
      <4>2. r \in ItemRow(n + 1) /\ r.type = q.type /\ r.status = q.status /\ r.same = q.same
        BY <4>1 DEF ItemRow
      <4> QED
        BY <4>2 DEF q
    <3>2. row(j) = r
      BY <2>4
    <3> HIDE DEF row, r
    <3> QED
      BY <2>2, <3>1, <3>2 DEF IsOpen
  <2>5. CASE j # fix /\ j \notin old
    <3>1. row(j) = item[j]
      BY <2>5
    <3> HIDE DEF row
    <3> QED
      BY <2>1, <2>2, <3>1 DEF IsOpen
  <2> QED
    BY <2>3, <2>4, <2>5
<1> HIDE DEF row
<1>6. s \in Seq(ItemRow(n + 1)) /\ Len(s) = n /\ \A j \in Ids : s[j] = row(j)
  BY <1>1, <1>5
<1>7. edges' \subseteq (1 .. n + 1) \X (1 .. n + 1)
  <2>1. edges' = Repoint(old, n + 1) \cup {<<fix, n + 1>>}
    BY DEF SpawnRetry
  <2>2. edges \subseteq (1 .. n + 1) \X (1 .. n + 1)
    BY <1>1 DEF TypeOK
  <2> QED
    BY <1>1, <2>1, <2>2 DEF Repoint, Waiting
<1>10. PICK new : new = [retry EXCEPT !.of = works]
  OBVIOUS
<1>11. new \in ItemRow(n + 1) /\ new.same = -1 /\ item' = Append(s, new)
  BY <1>2, <1>9, <1>10
<1>12. /\ \A j \in Ids : s[j].type = item[j].type
       /\ \A j \in Ids : j # fix => s[j].status = item[j].status
       /\ \A j \in Ids : IsOpen(s[j]) => s[j].same < MaxSameSignature
  <2> HIDE DEF s
  <2> QED
    BY <1>5, <1>6
<1> HIDE DEF s, works
<1> QED
  BY <1>6, <1>7, <1>11, <1>12, ReportExtends

\* A new row that is a retry.
AsRetry(r, fix, failed, signature) ==
  [r EXCEPT !.source = fix, !.action = "spawn_retry_node", !.failed = failed, !.signature = signature]
Retriable(n, fix, failed, signature) ==
  fix \in 0 .. n /\ failed \in 0 .. n /\ signature \in Texts \cup {{}}

LEMMA RowAsRetry ==
  ASSUME NEW n, NEW r \in ItemRow(n), NEW fix, NEW failed, NEW signature,
         Retriable(n, fix, failed, signature)
  PROVE  /\ AsRetry(r, fix, failed, signature) \in ItemRow(n)
         /\ AsRetry(r, fix, failed, signature).same = r.same
  BY DEF ItemRow, AsRetry, Retriable

LEMMA RetryOfIs ==
  ASSUME TypeOK, NEW i \in Ids, NEW fix \in Ids
  PROVE  RetryOf(i, fix) \in ItemRow(Len(item) + 1) /\ RetryOf(i, fix).same = -1
<1> DEFINE n == Len(item)
           type == item[i].type
           new == NewItem(type)
           failed == item[i].failed
           signature == item[i].signature
<1>1. n \in Nat /\ n + 1 \in Nat /\ fix \in 0 .. n + 1 /\ item[i] \in ItemRow(n)
  BY RowFields
<1>2. type \in {Graph[j] : j \in DOMAIN Graph} \cup CountedFixes \cup {"GENESIS_FOUNDATION"}
      /\ failed \in 0 .. n + 1 /\ signature \in Texts \cup {{}}
  BY <1>1 DEF ItemRow
<1>3. new \in ItemRow(n + 1) /\ new.same = -1
  <2> HIDE DEF type, n
  <2> QED
    BY <1>1, <1>2, NewItemIs
<1>4. RetryOf(i, fix) = AsRetry(new, fix, failed, signature)
  BY DEF RetryOf, AsRetry
<1> HIDE DEF type, new, failed, signature
<1>5. Retriable(n + 1, fix, failed, signature)
  BY <1>1, <1>2 DEF Retriable
<1> HIDE DEF n
<1>6. RetryOf(i, fix) \in ItemRow(n + 1) /\ RetryOf(i, fix).same = -1
  BY <1>3, <1>4, <1>5, RowAsRetry
<1> QED
  BY <1>6 DEF n

LEMMA ReportFixKeeps ==
  ASSUME JobInv, NEW w \in Workers, ReportFix(w)
  PROVE  JobInv' /\ RowsFollow
<1> DEFINE fix == worker[w].job
           n == Len(item)
           failed == item[fix].failed
           type == IF failed = NoId THEN "RUN_TESTS" ELSE item[failed].type
           latest == Latest(FailedTests)
           ofTests == [RetryOf(latest, fix) EXCEPT !.signature = item[latest].text]
           ofOne == [RetryOf(failed, fix) EXCEPT !.failed = failed]
<1>1. TypeOK /\ Busy(w) /\ fix \in Ids /\ n \in Nat /\ Ids = 1 .. n
  BY DEF ReportFix, Busy, JobInv, JobIsRunning, TypeOK, Ids
<1>2. Done(w) /\ Adds(fix) /\ UNCHANGED <<overdue, faults>>
  BY FailureTypeIs DEF ReportFix, Adds
<1>3. failed \in 0 .. n
  BY <1>1, RowFields DEF ItemRow
<1>4. CASE MayRetryTests /\ SpawnRetry(w, FailedTests, ofTests)
  <2>1. FailedTests \subseteq Ids /\ FailedTests # {}
    BY <1>4 DEF FailedTests, MayRetryTests
  <2>2. \E i \in FailedTests : \A j \in FailedTests : j <= i
    BY <1>1, <2>1, Largest
  <2>3. latest \in Ids
    BY <2>1, <2>2 DEF Latest
  <2>4. ofTests \in ItemRow(n + 1) /\ ofTests.same = -1
    <3> DEFINE retry == RetryOf(latest, fix)
               text == item[latest].text
    <3>1. text \in Texts \cup {{}}
      BY <1>1, <2>3, RowFields DEF ItemRow
    <3>2. retry \in ItemRow(n + 1) /\ retry.same = -1
      <4> HIDE DEF latest, fix
      <4> QED
        BY <1>1, <2>3, RetryOfIs
    <3>3. ofTests = [retry EXCEPT !.signature = text]
      OBVIOUS
    <3> HIDE DEF retry, text, ofTests
    <3> QED
      BY <3>1, <3>2, <3>3 DEF ItemRow
  <2> HIDE DEF ofTests
  <2> QED
    BY <1>1, <1>2, <1>4, <2>1, <2>4, SpawnKeeps
<1>5. CASE failed \in Ids /\ SpawnRetry(w, {failed}, ofOne)
  <2>1. ofOne \in ItemRow(n + 1) /\ ofOne.same = -1
    <3> DEFINE retry == RetryOf(failed, fix)
    <3>1. retry \in ItemRow(n + 1) /\ retry.same = -1
      <4> HIDE DEF failed, fix
      <4> QED
        BY <1>1, <1>5, RetryOfIs
    <3>2. failed \in 0 .. n + 1
      BY <1>1, <1>3
    <3>3. ofOne = [retry EXCEPT !.failed = failed]
      OBVIOUS
    <3> HIDE DEF retry, failed, ofOne
    <3> QED
      BY <3>1, <3>2, <3>3 DEF ItemRow
  <2> DEFINE old == {failed}
  <2>2. old \subseteq Ids /\ SpawnRetry(w, old, ofOne)
    BY <1>5
  <2> HIDE DEF ofOne, old
  <2> QED
    BY <1>1, <1>2, <2>1, <2>2, SpawnKeeps
<1>6. CASE item' = [item EXCEPT ![fix] = Reported(fix, "DONE", {}, 0)] /\ UNCHANGED edges
  <2>1. PICK same \in -1 .. 0 : item' = [item EXCEPT ![fix] = Reported(fix, "DONE", {}, same)]
    <3>1. 0 \in -1 .. 0
      OBVIOUS
    <3> QED
      BY <1>6, <3>1
  <2> QED
    BY <1>1, <1>2, <1>6, <2>1, DoneKeeps
<1>7. type \in {"FRAMEWORK_VALIDATE", "CODE_FRONTEND"} => failed \in Ids
  BY <1>1, <1>3 DEF NoId
<1>8. \/ MayRetryTests /\ SpawnRetry(w, FailedTests, ofTests)
      \/ type \in {"FRAMEWORK_VALIDATE", "CODE_FRONTEND"} /\ SpawnRetry(w, {failed}, ofOne)
      \/ item' = [item EXCEPT ![fix] = Reported(fix, "DONE", {}, 0)] /\ UNCHANGED edges
  <2> HIDE DEF type
  <2>1. CASE type \notin {"FRAMEWORK_VALIDATE", "CODE_FRONTEND"} /\ MayRetryTests
    BY <2>1 DEF ReportFix, type
  <2>2. CASE type \in {"FRAMEWORK_VALIDATE", "CODE_FRONTEND"} /\ MayRetry(failed, fix)
    BY <2>2 DEF ReportFix, type
  <2>3. CASE /\ ~(type \notin {"FRAMEWORK_VALIDATE", "CODE_FRONTEND"} /\ MayRetryTests)
             /\ ~(type \in {"FRAMEWORK_VALIDATE", "CODE_FRONTEND"} /\ MayRetry(failed, fix))
    BY <2>3 DEF ReportFix, type
  <2> QED
    BY <2>1, <2>2, <2>3
<1> QED
  BY <1>4, <1>5, <1>6, <1>7, <1>8

LEMMA InitIsTyped == Init => JobInv
<1> SUFFICES ASSUME Init PROVE JobInv
  OBVIOUS
<1> DEFINE n == Len(Graph)
           first(i) == [NewItem(Graph[i]) EXCEPT !.of = {i}]
<1>1. n \in Nat /\ \A i \in 1 .. n : Graph[i] \in {Graph[j] : j \in DOMAIN Graph}
  OBVIOUS
<1>2. item = [i \in 1 .. n |-> first(i)] /\ Len(item) = n
  BY <1>1 DEF Init
<1>3. \A i \in 1 .. n : first(i) \in ItemRow(n) /\ first(i).same = -1
  <2> TAKE i \in 1 .. n
  <2> DEFINE type == Graph[i]
             new == NewItem(type)
             works == {i}
  <2>1. type \in {Graph[j] : j \in DOMAIN Graph} \cup CountedFixes \cup {"GENESIS_FOUNDATION"}
    BY <1>1
  <2>2. works \in SUBSET DOMAIN Graph /\ first(i) = [new EXCEPT !.of = works]
    OBVIOUS
  <2> HIDE DEF type, n, first
  <2>3. new \in ItemRow(n) /\ new.same = -1
    BY <1>1, <2>1, NewItemIs
  <2> HIDE DEF new, works
  <2>4. n \in Nat
    BY <1>1
  <2>5. [new EXCEPT !.of = works] \in ItemRow(n) /\ [new EXCEPT !.of = works].same = -1
    BY <2>2, <2>3, <2>4, StandsForIs
  <2> QED
    BY <2>2, <2>5
<1> HIDE DEF first
<1>4. item \in Seq(ItemRow(Len(item)))
  <2> HIDE DEF n
  <2>1. item \in [1 .. n -> ItemRow(n)]
    BY <1>2, <1>3
  <2>2. item \in Seq(ItemRow(n))
    BY <1>1, <2>1
  <2> QED
    BY <1>2, <2>2
<1>5. \A w \in Workers : worker[w] = IdleWorker
  BY DEF Init
<1>6. IdleWorker \in WorkerRow(Len(item)) /\ IdleWorker.pc = "idle"
  BY <1>1, <1>2 DEF IdleWorker, WorkerRow, NoId, MaxSameSignature
<1>7. worker \in [Workers -> WorkerRow(Len(item))]
  BY <1>6 DEF Init
<1>8. edges \subseteq Ids \X Ids
  BY <1>2 DEF Init, Ids
<1>9. TypeOK
  <2>1. tries = <<>> /\ overdue = FALSE /\ faults = 0
    BY Zenon DEF Init
  <2>2. tries \in Seq([item : Ids, type : FailureTypes])
    BY <2>1
  <2>3. overdue \in BOOLEAN
    BY <2>1, Zenon
  <2>4. faults \in 0 .. MaxFaults
    BY <2>1
  <2> QED
    BY <1>4, <1>7, <1>8, <2>2, <2>3, <2>4, Zenon DEF TypeOK
<1>10. OpenIsUnrepeated
  BY <1>2, <1>3 DEF OpenIsUnrepeated, Ids, MaxSameSignature
<1> QED
  BY <1>5, <1>6, <1>9, <1>10 DEF JobInv, JobIsRunning, OneWorkerEach, SizedIsAdmitted, Busy

LEMMA StepKeeps ==
  ASSUME JobInv, [Next]_vars
  PROVE  JobInv' /\ RowsFollow
<1>1. CASE \E w \in Workers, i \in Ids : Claim(w, i)
  BY <1>1, ClaimKeeps
<1>2. CASE \E w \in Workers : Abandon(w)
  BY <1>2, AbandonKeeps
<1>3. CASE \E i \in Ids : Reclaim(i)
  BY <1>3, ReclaimKeeps
<1>4. CASE PassLimit \/ UNCHANGED vars
  BY <1>4, LimitKeeps
<1>5. ASSUME NEW w \in Workers, Report(w)
      PROVE  JobInv' /\ RowsFollow
  <2>1. CASE \E text \in Texts, raised \in BOOLEAN : FailUnrecovered(w, text, raised)
    BY <2>1, FailUnrecoveredKeeps
  <2>2. CASE \E text \in Texts, raised \in BOOLEAN : CheckBudget(w, text, raised)
    BY <2>2, CheckBudgetKeeps
  <2>3. CASE CountFixes(w)
    BY <2>3, CountFixesKeeps
  <2>4. CASE Escalate(w) \/ CommitBlock(w)
    BY <2>4, EscalateKeeps
  <2>5. CASE CommitRetry(w)
    BY <2>5, CommitRetryKeeps
  <2>6. CASE CommitFix(w)
    BY <2>6, CommitFixKeeps
  <2>7. CASE ReportDone(w) \/ ReportFixEscalated(w)
    BY <2>7, ReportDoneKeeps
  <2>8. CASE ReportFix(w)
    BY <2>8, ReportFixKeeps
  <2> QED
    BY <1>5, <2>1, <2>2, <2>3, <2>4, <2>5, <2>6, <2>7, <2>8 DEF Report, ReportFailed
<1> QED
  BY <1>1, <1>2, <1>3, <1>4, <1>5 DEF Next

\* Whatever an execution prints and however reports follow one another, the rows,
\* the attempts and the workers stay what their columns and the code allow.
THEOREM TypeCorrect == Spec => []TypeOK
<1>1. JobInv /\ [Next]_vars => JobInv'
  BY StepKeeps
<1>2. JobInv => TypeOK
  BY DEF JobInv
<1> QED
  BY InitIsTyped, <1>1, <1>2, PTL DEF Spec

-----------------------------------------------------------------------------
(* Counting.                                                               *)

\* How many elements of s are in A.
Count(s, A) == Cardinality({n \in DOMAIN s : s[n] \in A})

LEMMA CountAppend ==
  ASSUME NEW T, NEW s \in Seq(T), NEW r \in T, NEW A
  PROVE  /\ Count(s, A) \in Nat
         /\ Count(Append(s, r), A) = IF r \in A THEN Count(s, A) + 1 ELSE Count(s, A)
<1> DEFINE old == {n \in DOMAIN s : s[n] \in A}
           new == {n \in DOMAIN Append(s, r) : Append(s, r)[n] \in A}
           last == Len(s) + 1
<1>1. Len(s) \in Nat /\ DOMAIN s = 1 .. Len(s) /\ DOMAIN Append(s, r) = 1 .. last
  OBVIOUS
<1>2. \A n \in 1 .. last : Append(s, r)[n] = IF n = last THEN r ELSE s[n]
  OBVIOUS
<1>3. IsFiniteSet(old) /\ Cardinality(old) \in Nat
  <2>1. IsFiniteSet(1 .. Len(s))
    BY <1>1, FS_Interval
  <2>2. IsFiniteSet(old)
    BY <1>1, <2>1, FS_Subset
  <2> QED
    BY <2>2, FS_CardinalityType
<1>4. last \notin old
  BY <1>1
<1>5. new = IF r \in A THEN old \cup {last} ELSE old
  BY <1>1, <1>2
<1> HIDE DEF old, new, last
<1>6. Cardinality(old \cup {last}) = Cardinality(old) + 1
  BY <1>3, <1>4, FS_AddElement
<1>7. Cardinality(new) = IF r \in A THEN Cardinality(old) + 1 ELSE Cardinality(old)
  BY <1>5, <1>6
<1> QED
  BY <1>3, <1>7 DEF old, new, Count

LEMMA TriesAreCounted ==
  ASSUME TypeOK
  PROVE  /\ Len(tries) \in Nat
         /\ \A i : TriesOf(i) \in Nat
         /\ \A type : TriesAt(type) \in Nat
         /\ \A i : i \notin Ids => TriesOf(i) = 0
<1>1. Len(tries) \in Nat /\ DOMAIN tries = 1 .. Len(tries)
      /\ \A n \in DOMAIN tries : tries[n].item \in Ids
  <2> DEFINE T == [item : Ids, type : FailureTypes]
  <2>1. tries \in Seq(T)
    BY DEF TypeOK
  <2>2. \A q \in T : q.item \in Ids
    OBVIOUS
  <2> HIDE DEF T
  <2> QED
    BY <2>1, <2>2
<1>2. IsFiniteSet(DOMAIN tries)
  BY <1>1, FS_Interval
<1>3. \A S \in SUBSET DOMAIN tries : Cardinality(S) \in Nat
  <2> DEFINE D == DOMAIN tries
  <2>1. ASSUME NEW S \in SUBSET D
        PROVE  Cardinality(S) \in Nat
    <3> HIDE DEF D
    <3>1. IsFiniteSet(S)
      BY <1>2, FS_Subset DEF D
    <3> QED
      BY <3>1, FS_CardinalityType
  <2> QED
    BY <2>1
<1>4. \A i : TriesOf(i) \in Nat
  BY <1>3 DEF TriesOf
<1>5. \A type : TriesAt(type) \in Nat
  BY <1>3 DEF TriesAt
<1>6. ASSUME NEW i, i \notin Ids
      PROVE  TriesOf(i) = 0
  <2>1. {n \in DOMAIN tries : tries[n].item = i} = {}
    BY <1>1, <1>6
  <2> QED
    BY <2>1, FS_EmptySet DEF TriesOf
<1> QED
  BY <1>1, <1>4, <1>5, <1>6

LEMMA Spent ==
  ASSUME TypeOK, NEW i \in Ids, NEW type \in FailureTypes, tries' = Try(i, type)
  PROVE  /\ Len(tries') = Len(tries) + 1
         /\ \A j : TriesOf(j)' = IF j = i THEN TriesOf(j) + 1 ELSE TriesOf(j)
         /\ \A t : TriesAt(t)' = IF t = type THEN TriesAt(t) + 1 ELSE TriesAt(t)
<1> DEFINE T == [item : Ids, type : FailureTypes]
           r == [item |-> i, type |-> type]
           s == tries
<1>1. s \in Seq(T) /\ r \in T /\ tries' = Append(s, r)
  BY DEF TypeOK, Try
<1>2. r.item = i /\ r.type = type
  OBVIOUS
<1>3. /\ \A n \in DOMAIN s : s[n] \in T
      /\ \A n \in DOMAIN Append(s, r) : Append(s, r)[n] \in T
  <2> HIDE DEF T, r, s
  <2> QED
    BY <1>1
<1>4. ASSUME NEW j
      PROVE  TriesOf(j)' = IF j = i THEN TriesOf(j) + 1 ELSE TriesOf(j)
  <2> DEFINE A == {q \in T : q.item = j}
  <2>1. Count(s, A) = TriesOf(j) /\ Count(Append(s, r), A) = TriesOf(j)'
    <3>1. /\ {n \in DOMAIN s : s[n] \in A} = {n \in DOMAIN tries : tries[n].item = j}
          /\ {n \in DOMAIN Append(s, r) : Append(s, r)[n] \in A}
                = {n \in DOMAIN tries' : tries'[n].item = j}
      <4> HIDE DEF T, r
      <4> QED
        BY <1>1, <1>3
    <3> QED
      BY <3>1 DEF Count, TriesOf
  <2>2. r \in A <=> j = i
    BY <1>1, <1>2
  <2> HIDE DEF A, T, r, s
  <2>3. Count(Append(s, r), A) = IF r \in A THEN Count(s, A) + 1 ELSE Count(s, A)
    BY <1>1, CountAppend
  <2> QED
    BY <2>1, <2>2, <2>3
<1>5. ASSUME NEW t
      PROVE  TriesAt(t)' = IF t = type THEN TriesAt(t) + 1 ELSE TriesAt(t)
  <2> DEFINE A == {q \in T : q.type = t}
  <2>1. Count(s, A) = TriesAt(t) /\ Count(Append(s, r), A) = TriesAt(t)'
    <3>1. /\ {n \in DOMAIN s : s[n] \in A} = {n \in DOMAIN tries : tries[n].type = t}
          /\ {n \in DOMAIN Append(s, r) : Append(s, r)[n] \in A}
                = {n \in DOMAIN tries' : tries'[n].type = t}
      <4> HIDE DEF T, r
      <4> QED
        BY <1>1, <1>3
    <3> QED
      BY <3>1 DEF Count, TriesAt
  <2>2. r \in A <=> t = type
    BY <1>1, <1>2
  <2> HIDE DEF A, T, r, s
  <2>3. Count(Append(s, r), A) = IF r \in A THEN Count(s, A) + 1 ELSE Count(s, A)
    BY <1>1, CountAppend
  <2> QED
    BY <2>1, <2>2, <2>3
<1>6. Len(tries') = Len(tries) + 1
  <2> HIDE DEF T, r
  <2> QED
    BY <1>1
<1> QED
  BY <1>4, <1>5, <1>6

LEMMA Crew ==
  /\ Overrun \in Nat /\ Cardinality(Workers) = Overrun + 1
  /\ \A A \in SUBSET Workers : Cardinality(A) \in Nat /\ Cardinality(A) <= Overrun + 1
  /\ \A A \in SUBSET Workers, w \in Workers :
        /\ w \notin A => Cardinality(A) <= Overrun
        /\ w \in A => Cardinality(A \ {w}) = Cardinality(A) - 1
  /\ \A A \in SUBSET Workers : \A B \in SUBSET A : Cardinality(B) <= Cardinality(A)
<1>1. IsFiniteSet(Workers) /\ Cardinality(Workers) \in Nat
  BY FS_CardinalityType DEF ConstantsAssumption
<1>2. \A A \in SUBSET Workers : IsFiniteSet(A) /\ Cardinality(A) \in Nat
                                /\ Cardinality(A) <= Cardinality(Workers)
  BY <1>1, FS_Subset, FS_CardinalityType
<1>3. \A A \in SUBSET Workers, w \in Workers : w \in A => Cardinality(A \ {w}) = Cardinality(A) - 1
  BY <1>2, FS_RemoveElement
<1>4. PICK u \in Workers : TRUE
  BY DEF ConstantsAssumption
<1>5. Cardinality(Workers \ {u}) \in Nat /\ Cardinality(Workers \ {u}) = Cardinality(Workers) - 1
  BY <1>2, <1>3, <1>4
<1>6. Overrun \in Nat /\ Cardinality(Workers) = Overrun + 1
  BY <1>1, <1>5 DEF Overrun
<1>7. ASSUME NEW A \in SUBSET Workers, NEW B \in SUBSET A
      PROVE  Cardinality(B) <= Cardinality(A)
  BY <1>2, <1>7, FS_Subset
<1>8. ASSUME NEW A \in SUBSET Workers, NEW w \in Workers, w \notin A
      PROVE  Cardinality(A) <= Overrun
  <2>1. A \in SUBSET (Workers \ {w}) /\ Workers \ {w} \in SUBSET Workers
    BY <1>8
  <2>2. Cardinality(A) <= Cardinality(Workers \ {w})
    BY <1>7, <2>1
  <2>3. Cardinality(Workers \ {w}) = Cardinality(Workers) - 1
    BY <1>3
  <2> QED
    BY <1>6, <2>2, <2>3
<1> QED
  BY <1>2, <1>3, <1>6, <1>7, <1>8

-----------------------------------------------------------------------------
(* The budgets.                                                            *)

AdmittedIn(v) == worker[v].pc \in {"counted", "sized"} /\ worker[v].allowed
Remains(v) == AdmittedIn(v) /\ worker'[v].job = worker[v].job /\ worker'[v].text = worker[v].text

LEMMA Untouched ==
  ASSUME JobInv, RowsFollow, NEW v \in Workers, Remains(v)
  PROVE  worker[v].job \in Ids /\ Spends(v)' = Spends(v)
<1>1. worker[v].job \in Ids
  BY DEF Remains, AdmittedIn, JobInv, JobIsRunning, Busy
<1>2. item'[worker'[v].job].type = item[worker[v].job].type /\ worker'[v].text = worker[v].text
  BY <1>1 DEF RowsFollow, Remains
<1> QED
  BY <1>1, <1>2 DEF Spends, Class

\* Nobody is admitted, nothing is spent.
LEMMA NothingSpent ==
  ASSUME BudgetInv, JobInv', RowsFollow, UNCHANGED tries,
         \A v \in Workers : AdmittedIn(v)' => Remains(v)
  PROVE  BudgetInv'
<1>1. TypeOK /\ JobInv
  BY DEF BudgetInv, JobInv
<1>2. /\ Admitted \in SUBSET Workers /\ Admitted' \in SUBSET Admitted
      /\ \A v \in Admitted' : Remains(v)
  BY DEF Admitted, Remains, AdmittedIn
<1>3. ASSUME NEW type
      PROVE  AdmittedAt(type) \in SUBSET Workers /\ AdmittedAt(type)' \in SUBSET AdmittedAt(type)
  <2>1. \A v \in Admitted' : v \in Workers /\ Spends(v)' = Spends(v)
    BY <1>1, <1>2, Untouched
  <2> QED
    BY <1>2, <2>1 DEF AdmittedAt
<1>4. Len(tries) \in Nat /\ \A type : TriesAt(type) \in Nat
  BY <1>1, TriesAreCounted
<1>5. /\ \A i : TriesOf(i)' = TriesOf(i)
      /\ \A type : TriesAt(type)' = TriesAt(type)
  BY DEF TriesOf, TriesAt
<1>6. RunBudget'
  <2>1. Cardinality(Admitted') <= Cardinality(Admitted)
        /\ Cardinality(Admitted) \in Nat /\ Cardinality(Admitted') \in Nat
    BY <1>2, Crew
  <2> QED
    BY <1>4, <2>1, Crew DEF BudgetInv, RunBudget
<1>7. TypeBudget'
  <2> SUFFICES ASSUME NEW type \in FailureTypes
               PROVE  TriesAt(type)' + Cardinality(AdmittedAt(type)') <= MaxType + Overrun
    BY DEF TypeBudget, Overrun
  <2>1. Cardinality(AdmittedAt(type)') <= Cardinality(AdmittedAt(type))
        /\ Cardinality(AdmittedAt(type)) \in Nat /\ Cardinality(AdmittedAt(type)') \in Nat
    BY <1>3, Crew
  <2>2. TriesAt(type) + Cardinality(AdmittedAt(type)) <= MaxType + Overrun
    BY DEF BudgetInv, TypeBudget
  <2> QED
    BY <1>4, <1>5, <2>1, <2>2, Crew
<1>8. ItemBudget'
  <2>1. ASSUME NEW i \in Ids'
        PROVE  TriesOf(i)' <= MaxItem
    <3>1. TriesOf(i) <= MaxItem
      BY <1>1, TriesAreCounted DEF BudgetInv, ItemBudget
    <3> QED
      BY <1>5, <3>1
  <2>2. ASSUME NEW w \in Admitted'
        PROVE  (TriesOf(worker[w].job) < MaxItem)'
    <3>1. w \in Admitted /\ worker'[w].job = worker[w].job
      BY <1>2 DEF Remains
    <3>2. TriesOf(worker[w].job) < MaxItem
      BY <3>1 DEF BudgetInv, ItemBudget
    <3> QED
      BY <3>1, <3>2 DEF TriesOf
  <2> QED
    BY <2>1, <2>2 DEF ItemBudget
<1> QED
  BY <1>6, <1>7, <1>8 DEF BudgetInv

\* A report spends what it was admitted for, or is the first to ask and to spend.
LEMMA OneSpends ==
  ASSUME BudgetInv, JobInv', RowsFollow, NEW w \in Workers, Busy(w), Done(w),
         NEW type \in FailureTypes, tries' = Try(worker[w].job, type),
         \/ w \in Admitted /\ Spends(w) = type
         \/ w \notin Admitted /\ WithinBudget(worker[w].job, type)
  PROVE  BudgetInv'
<1> DEFINE i == worker[w].job
<1>1. TypeOK /\ JobInv /\ i \in Ids
  BY DEF BudgetInv, JobInv, JobIsRunning
<1>2. /\ worker'[w].pc = "idle"
      /\ \A v \in Workers \ {w} : worker'[v] = worker[v]
  BY <1>1, Idles
<1>3. /\ Admitted \in SUBSET Workers /\ Admitted' \in SUBSET (Admitted \ {w})
      /\ \A v \in Admitted' : v \in Workers \ {w} /\ Remains(v)
  BY <1>2 DEF Admitted, Remains, AdmittedIn
<1>4. ASSUME NEW t
      PROVE  /\ AdmittedAt(t) \in SUBSET Workers
             /\ AdmittedAt(t)' \in SUBSET (AdmittedAt(t) \ {w})
  <2>1. \A v \in Admitted' : v \in Workers \ {w} /\ Spends(v)' = Spends(v)
    BY <1>1, <1>3, Untouched
  <2> QED
    BY <1>3, <2>1 DEF AdmittedAt
<1>5. Len(tries) \in Nat /\ (\A j : TriesOf(j) \in Nat) /\ (\A t : TriesAt(t) \in Nat)
      /\ \A j : j \notin Ids => TriesOf(j) = 0
  BY <1>1, TriesAreCounted
<1>6. /\ Len(tries') = Len(tries) + 1
      /\ \A j : TriesOf(j)' = IF j = i THEN TriesOf(j) + 1 ELSE TriesOf(j)
      /\ \A t : TriesAt(t)' = IF t = type THEN TriesAt(t) + 1 ELSE TriesAt(t)
  <2> HIDE DEF i
  <2>1. tries' = Try(i, type)
    BY DEF i
  <2> QED
    BY <1>1, <2>1, Spent
<1>7. Overrun \in Nat
  BY Crew
<1>8. Len(tries') + Cardinality(Admitted') <= MaxRun + Overrun
  <2>1. Admitted' \in SUBSET Workers /\ w \notin Admitted'
        /\ Admitted \ {w} \in SUBSET Workers /\ Admitted' \in SUBSET (Admitted \ {w})
    BY <1>3
  <2>2. Cardinality(Admitted) \in Nat /\ Cardinality(Admitted') \in Nat
    BY <1>3, <2>1, Crew
  <2>3. CASE w \in Admitted
    <3>1. Cardinality(Admitted') <= Cardinality(Admitted) - 1
      <4>1. Cardinality(Admitted \ {w}) = Cardinality(Admitted) - 1
        BY <1>3, <2>3, Crew
      <4>2. Cardinality(Admitted') <= Cardinality(Admitted \ {w})
        BY <2>1, Crew
      <4> QED
        BY <4>1, <4>2
    <3>2. Len(tries) + Cardinality(Admitted) <= MaxRun + Overrun
      BY DEF BudgetInv, RunBudget
    <3> QED
      BY <1>5, <1>6, <1>7, <2>2, <3>1, <3>2
  <2>4. CASE w \notin Admitted
    <3>1. Cardinality(Admitted') <= Overrun
      BY <2>1, Crew
    <3>2. Len(tries) < MaxRun
      BY <2>4 DEF WithinBudget
    <3> QED
      BY <1>5, <1>6, <1>7, <2>2, <3>1, <3>2
  <2> QED
    BY <2>3, <2>4
<1>9. ASSUME NEW t \in FailureTypes
      PROVE  TriesAt(t)' + Cardinality(AdmittedAt(t)') <= MaxType + Overrun
  <2> DEFINE A == AdmittedAt(t)
             B == AdmittedAt(t)'
  <2>1. A \in SUBSET Workers /\ B \in SUBSET Workers /\ w \notin B
        /\ A \ {w} \in SUBSET Workers /\ B \in SUBSET (A \ {w}) /\ B \in SUBSET A
    BY <1>4
  <2> HIDE DEF A, B
  <2>2. Cardinality(A) \in Nat /\ Cardinality(B) \in Nat /\ Cardinality(B) <= Cardinality(A)
    BY <2>1, Crew
  <2>3. TriesAt(t) + Cardinality(A) <= MaxType + Overrun
    BY DEF BudgetInv, TypeBudget, A
  <2>4. TriesAt(t) \in Nat
    BY <1>5
  <2>5. CASE t # type
    BY <1>6, <1>7, <2>2, <2>3, <2>4, <2>5 DEF B
  <2>6. CASE t = type /\ w \in Admitted /\ Spends(w) = type
    <3>1. w \in A
      BY <2>6 DEF A, AdmittedAt
    <3>2. Cardinality(B) <= Cardinality(A) - 1
      <4>1. Cardinality(A \ {w}) = Cardinality(A) - 1
        BY <2>1, <3>1, Crew
      <4>2. Cardinality(B) <= Cardinality(A \ {w})
        BY <2>1, Crew
      <4> QED
        BY <4>1, <4>2
    <3>3. TriesAt(t)' = TriesAt(t) + 1
      BY <1>6, <2>6
    <3> QED
      BY <1>7, <2>2, <2>3, <2>4, <3>2, <3>3 DEF B
  <2>7. CASE t = type /\ WithinBudget(i, type)
    <3>1. Cardinality(B) <= Overrun
      BY <2>1, Crew
    <3>2. TriesAt(t) < MaxType /\ TriesAt(t)' = TriesAt(t) + 1
      BY <1>6, <2>7 DEF WithinBudget
    <3> QED
      BY <1>7, <2>2, <2>4, <3>1, <3>2 DEF B
  <2> QED
    BY <2>5, <2>6, <2>7
<1>10. TriesOf(i) < MaxItem
  BY DEF WithinBudget, BudgetInv, ItemBudget
<1>11. \A j : TriesOf(j)' <= MaxItem
  <2>1. \A j : TriesOf(j) <= MaxItem
    BY <1>5 DEF BudgetInv, ItemBudget
  <2> HIDE DEF i
  <2> QED
    BY <1>5, <1>6, <1>10, <2>1
<1>12. ASSUME NEW v \in Admitted'
       PROVE  (TriesOf(worker[v].job) < MaxItem)'
  <2>1. v \in Workers \ {w} /\ v \in Admitted /\ worker'[v].job = worker[v].job
    BY <1>3 DEF Remains
  <2>2. worker[v].job # i
    BY <2>1 DEF BudgetInv, JobInv, OneWorkerEach, Busy, Admitted
  <2>3. TriesOf(worker[v].job) < MaxItem
    BY <2>1 DEF BudgetInv, ItemBudget
  <2>4. PICK j : j = worker[v].job
    OBVIOUS
  <2>5. TriesOf(j) < MaxItem /\ j # i /\ worker'[v].job = j
    BY <2>1, <2>2, <2>3, <2>4
  <2> HIDE DEF i
  <2>6. TriesOf(j)' = TriesOf(j)
    BY <1>6, <2>5
  <2> QED
    BY <2>5, <2>6 DEF TriesOf
<1>13. ItemBudget'
  BY <1>11, <1>12 DEF ItemBudget
<1> QED
  BY <1>8, <1>9, <1>13 DEF BudgetInv, RunBudget, TypeBudget, Overrun

LEMMA AdmissionKeepsBudgets ==
  ASSUME BudgetInv, JobInv', RowsFollow, NEW w \in Workers,
         NEW text \in Texts, NEW raised \in BOOLEAN, CheckBudget(w, text, raised)
  PROVE  BudgetInv'
<1> DEFINE i == worker[w].job
           type == FailureType(Class(i, text))
<1>1. TypeOK /\ JobInv /\ i \in Ids /\ w \notin Admitted
  BY DEF BudgetInv, JobInv, JobIsRunning, Busy, CheckBudget, Admitted
<1>2. /\ worker'[w].job = i /\ worker'[w].text = text
      /\ worker'[w].allowed <=> WithinBudget(i, type)
      /\ \A v \in Workers \ {w} : worker'[v] = worker[v]
  <2> DEFINE allowed == WithinBudget(i, type)
             same == NextSame(i, raised)
  <2>1. worker' = [worker EXCEPT ![w] = [worker[w] EXCEPT !.pc = "counted", !.text = text,
                                                          !.same = same, !.allowed = allowed]]
    BY DEF CheckBudget
  <2>2. worker[w] \in WorkerRow(Len(item))
    BY <1>1, WorkerFields
  <2> HIDE DEF allowed, same
  <2>3. worker'[w] = [worker[w] EXCEPT !.pc = "counted", !.text = text,
                                       !.same = same, !.allowed = allowed]
        /\ \A v \in Workers \ {w} : worker'[v] = worker[v]
    BY <1>1, <2>1 DEF TypeOK
  <2> DEFINE row == worker[w]
  <2>4. row \in WorkerRow(Len(item)) /\ i = row.job
    BY <2>2
  <2>5. worker'[w] = [row EXCEPT !.pc = "counted", !.text = text,
                                 !.same = same, !.allowed = allowed]
    BY <2>3
  <2> HIDE DEF row, i
  <2>6. worker'[w].job = i /\ worker'[w].text = text /\ worker'[w].allowed = allowed
    BY <2>4, <2>5 DEF WorkerRow
  <2> QED
    BY <2>3, <2>6 DEF allowed
<1>3. UNCHANGED tries
  BY DEF CheckBudget
<1>4. \A v \in Workers \ {w} : AdmittedIn(v)' => Remains(v)
  BY <1>2 DEF Remains, AdmittedIn
<1>5. CASE ~WithinBudget(i, type)
  <2>1. \A v \in Workers : AdmittedIn(v)' => Remains(v)
    BY <1>2, <1>4, <1>5 DEF AdmittedIn
  <2> QED
    BY <1>3, <2>1, NothingSpent
<1>6. CASE WithinBudget(i, type)
  <2>1. /\ Admitted \in SUBSET Workers /\ Admitted' \in SUBSET Workers
        /\ \A v \in Admitted' : v = w \/ (v \in Workers \ {w} /\ v \in Admitted /\ Remains(v))
    BY <1>4 DEF Admitted, Remains, AdmittedIn
  <2>2. item'[i].type = item[i].type /\ Spends(w)' = type
    BY <1>1, <1>2 DEF RowsFollow, Spends, Class
  <2>3. ASSUME NEW t
        PROVE  /\ AdmittedAt(t) \in SUBSET Workers /\ AdmittedAt(t)' \in SUBSET Workers
               /\ t # type => AdmittedAt(t)' \in SUBSET AdmittedAt(t)
    <3>1. \A v \in Admitted' : v = w \/ (v \in Admitted /\ Spends(v)' = Spends(v))
      BY <1>1, <2>1, Untouched
    <3> HIDE DEF type
    <3> QED
      BY <2>1, <2>2, <3>1 DEF AdmittedAt
  <2>4. Len(tries) \in Nat /\ (\A j : TriesOf(j) \in Nat) /\ (\A t : TriesAt(t) \in Nat)
        /\ \A j : j \notin Ids => TriesOf(j) = 0
    BY <1>1, TriesAreCounted
  <2>5. /\ \A j : TriesOf(j)' = TriesOf(j)
        /\ \A t : TriesAt(t)' = TriesAt(t)
    BY <1>3 DEF TriesOf, TriesAt
  <2>6. Len(tries') + Cardinality(Admitted') <= MaxRun + Overrun
    <3>1. Cardinality(Admitted') \in Nat /\ Cardinality(Admitted') <= Overrun + 1
      BY <2>1, Crew
    <3>2. Len(tries) < MaxRun /\ Len(tries') = Len(tries)
      BY <1>3, <1>6 DEF WithinBudget
    <3> QED
      BY <2>4, <3>1, <3>2, Crew
  <2>7. ASSUME NEW t \in FailureTypes
        PROVE  TriesAt(t)' + Cardinality(AdmittedAt(t)') <= MaxType + Overrun
    <3> DEFINE A == AdmittedAt(t)
               B == AdmittedAt(t)'
    <3>1. A \in SUBSET Workers /\ B \in SUBSET Workers /\ (t # type => B \in SUBSET A)
      BY <2>3
    <3>2. TriesAt(t) + Cardinality(A) <= MaxType + Overrun
      BY DEF BudgetInv, TypeBudget
    <3> HIDE DEF A, B
    <3>3. Cardinality(A) \in Nat /\ Cardinality(B) \in Nat /\ Cardinality(B) <= Overrun + 1
      BY <3>1, Crew
    <3>4. TriesAt(t) \in Nat /\ TriesAt(t)' = TriesAt(t) /\ Overrun \in Nat
      BY <2>4, <2>5, Crew
    <3>5. CASE t # type
      <4>1. Cardinality(B) <= Cardinality(A)
        BY <3>1, <3>5, Crew
      <4> QED
        BY <3>2, <3>3, <3>4, <4>1 DEF B
    <3>6. CASE t = type
      <4>1. TriesAt(t) < MaxType
        BY <1>6, <3>6 DEF WithinBudget
      <4> QED
        BY <3>3, <3>4, <4>1 DEF B
    <3> QED
      BY <3>5, <3>6
  <2>8. \A j \in Ids' : TriesOf(j)' <= MaxItem
    <3>1. \A j : TriesOf(j) <= MaxItem
      BY <2>4 DEF BudgetInv, ItemBudget
    <3> QED
      BY <2>5, <3>1
  <2>9. ASSUME NEW v \in Admitted'
        PROVE  (TriesOf(worker[v].job) < MaxItem)'
    <3>1. worker'[v].job = worker[v].job
      BY <1>2, <2>1 DEF Remains
    <3>2. TriesOf(worker[v].job) < MaxItem
      BY <1>6, <2>1 DEF WithinBudget, BudgetInv, ItemBudget
    <3>3. PICK j : j = worker[v].job
      OBVIOUS
    <3>4. TriesOf(j)' = TriesOf(j)
      BY <2>5
    <3> QED
      BY <3>1, <3>2, <3>3, <3>4 DEF TriesOf
  <2>10. ItemBudget'
    BY <2>8, <2>9 DEF ItemBudget
  <2> QED
    BY <2>6, <2>7, <2>10 DEF BudgetInv, RunBudget, TypeBudget, Overrun
<1> QED
  BY <1>5, <1>6

LEMMA InitIsWithinBudget == Init => BudgetInv
<1> SUFFICES ASSUME Init PROVE BudgetInv
  OBVIOUS
<1>1. JobInv /\ TypeOK
  BY InitIsTyped DEF JobInv
<1>2. tries = <<>> /\ Admitted = {} /\ \A type : AdmittedAt(type) = {}
  BY DEF Init, IdleWorker, Admitted, AdmittedAt
<1>3. /\ Len(tries) = 0
      /\ \A i : TriesOf(i) = 0
      /\ \A type : TriesAt(type) = 0
  <2>1. \A i : {n \in DOMAIN tries : tries[n].item = i} = {}
    BY <1>2
  <2>2. \A type : {n \in DOMAIN tries : tries[n].type = type} = {}
    BY <1>2
  <2> QED
    BY <1>2, <2>1, <2>2, FS_EmptySet DEF TriesOf, TriesAt
<1>4. RunBudget /\ TypeBudget
  <2>1. Cardinality(Admitted) = 0 /\ \A type : Cardinality(AdmittedAt(type)) = 0
    BY <1>2, FS_EmptySet
  <2>2. MaxRun \in Nat /\ MaxType \in Nat /\ Overrun \in Nat
    BY Crew DEF ConstantsAssumption
  <2>3. RunBudget
    BY <1>3, <2>1, <2>2 DEF RunBudget
  <2>4. TypeBudget
    BY <1>3, <2>1, <2>2 DEF TypeBudget
  <2> QED
    BY <2>3, <2>4
<1>5. ItemBudget
  BY <1>2, <1>3 DEF ItemBudget
<1> QED
  BY <1>1, <1>4, <1>5 DEF BudgetInv

LEMMA StepIsWithinBudget ==
  ASSUME BudgetInv, [Next]_vars
  PROVE  BudgetInv'
<1>1. JobInv /\ TypeOK /\ JobInv' /\ RowsFollow
  BY StepKeeps DEF BudgetInv, JobInv
<1>2. ASSUME NEW w \in Workers, Busy(w), Done(w), UNCHANGED tries
      PROVE  BudgetInv'
  <2>1. \A v \in Workers : AdmittedIn(v)' => Remains(v)
    BY <1>1, <1>2, Idles DEF AdmittedIn, Remains
  <2> QED
    BY <1>1, <1>2, <2>1, NothingSpent
<1>3. ASSUME NEW w \in Workers, Busy(w), Done(w), Attempted(w), w \in Admitted
      PROVE  BudgetInv'
  <2>1. Spends(w) \in FailureTypes /\ tries' = Try(worker[w].job, Spends(w))
    BY <1>3, FailureTypeIs DEF Attempted, Spends
  <2> QED
    BY <1>1, <1>3, <2>1, OneSpends
<1>4. ASSUME UNCHANGED <<worker, tries>>
      PROVE  BudgetInv'
  <2>1. \A v \in Workers : AdmittedIn(v)' => Remains(v)
    BY <1>4 DEF AdmittedIn, Remains
  <2> QED
    BY <1>1, <1>4, <2>1, NothingSpent
<1>5. ASSUME NEW w \in Workers, NEW i \in Ids, Claim(w, i)
      PROVE  BudgetInv'
  <2>1. worker'[w].pc = "executing" /\ UNCHANGED tries
        /\ \A v \in Workers \ {w} : worker'[v] = worker[v]
    BY <1>1, <1>5 DEF Claim, TypeOK, IdleWorker
  <2>2. \A v \in Workers : AdmittedIn(v)' => Remains(v)
    BY <2>1 DEF AdmittedIn, Remains
  <2> QED
    BY <1>1, <2>1, <2>2, NothingSpent
<1>6. ASSUME NEW w \in Workers, CountFixes(w)
      PROVE  BudgetInv'
  <2>1. UNCHANGED tries /\ AdmittedIn(w)
        /\ worker'[w].job = worker[w].job /\ worker'[w].text = worker[w].text
        /\ \A v \in Workers \ {w} : worker'[v] = worker[v]
    BY <1>1, <1>6, WorkerFields DEF CountFixes, TypeOK, WorkerRow, AdmittedIn
  <2>2. \A v \in Workers : AdmittedIn(v)' => Remains(v)
    BY <2>1 DEF AdmittedIn, Remains
  <2> QED
    BY <1>1, <2>1, <2>2, NothingSpent
<1>7. ASSUME NEW w \in Workers, ReportFix(w)
      PROVE  BudgetInv'
  <2> DEFINE type == FailureType("fix_applied")
  <2>1. /\ Busy(w) /\ Done(w) /\ w \notin Admitted /\ type \in FailureTypes
        /\ tries' = Try(worker[w].job, type) /\ WithinBudget(worker[w].job, type)
    BY <1>7, FailureTypeIs DEF ReportFix, Busy, Admitted
  <2> HIDE DEF type
  <2> QED
    BY <1>1, <2>1, OneSpends
<1>8. ASSUME NEW w \in Workers, Report(w)
      PROVE  BudgetInv'
  <2>1. CASE \E text \in Texts, raised \in BOOLEAN : FailUnrecovered(w, text, raised)
    BY <1>2, <2>1 DEF FailUnrecovered, Busy
  <2>2. CASE \E text \in Texts, raised \in BOOLEAN : CheckBudget(w, text, raised)
    BY <1>1, <2>2, AdmissionKeepsBudgets
  <2>3. CASE Escalate(w)
    BY <1>2, <2>3 DEF Escalate, Busy
  <2>4. CASE CommitRetry(w) \/ CommitBlock(w)
    BY <1>3, <2>4 DEF CommitRetry, CommitBlock, Busy, Admitted
  <2>5. CASE CommitFix(w)
    BY <1>1, <1>3, <2>5 DEF CommitFix, Busy, Admitted, JobInv, SizedIsAdmitted
  <2>6. CASE ReportDone(w) \/ ReportFixEscalated(w)
    BY <1>2, <2>6 DEF ReportDone, ReportFixEscalated, Busy
  <2> QED
    BY <1>6, <1>7, <1>8, <2>1, <2>2, <2>3, <2>4, <2>5, <2>6 DEF Report, ReportFailed
<1>9. CASE \E w \in Workers : Abandon(w)
  BY <1>2, <1>9 DEF Abandon, Done, Busy
<1>10. CASE (\E i \in Ids : Reclaim(i)) \/ PassLimit \/ UNCHANGED vars
  BY <1>4, <1>10 DEF Reclaim, PassLimit, vars
<1> QED
  BY <1>5, <1>8, <1>9, <1>10 DEF Next

\* However many workers report at once, on whatever graph, an item's attempts stay
\* within its budget, and those of the run and of each failure type exceed theirs
\* by less than one for each worker, although no lock is held between check_budget
\* and create_attempt.
THEOREM BudgetsKept == Spec => []BudgetsHold
<1>1. BudgetInv /\ [Next]_vars => BudgetInv'
  BY StepIsWithinBudget
<1>2. BudgetInv => BudgetsHold
  <2> SUFFICES ASSUME BudgetInv PROVE BudgetsHold
    OBVIOUS
  <2>1. TypeOK
    BY DEF BudgetInv, JobInv
  <2>2. Len(tries) \in Nat /\ \A type : TriesAt(type) \in Nat
    BY <2>1, TriesAreCounted
  <2>3. Admitted \in SUBSET Workers /\ \A type : AdmittedAt(type) \in SUBSET Workers
    BY DEF Admitted, AdmittedAt
  <2>4. Cardinality(Admitted) \in Nat /\ \A type : Cardinality(AdmittedAt(type)) \in Nat
    BY <2>3, Crew
  <2>5. Len(tries) <= MaxRun + Overrun
    BY <2>2, <2>4, Crew DEF BudgetInv, RunBudget
  <2>6. \A type \in FailureTypes : TriesAt(type) <= MaxType + Overrun
    BY <2>2, <2>4, Crew DEF BudgetInv, TypeBudget
  <2> QED
    BY <2>5, <2>6 DEF BudgetInv, ItemBudget, BudgetsHold
<1> QED
  BY InitIsWithinBudget, <1>1, <1>2, PTL DEF Spec

-----------------------------------------------------------------------------
(* What a step does to the lineage of the rows.                            *)

\* A row that has ended is not written again, but to supersede it ...
Keeps(j) ==
  /\ item'[j].type = item[j].type /\ item'[j].of = item[j].of /\ item'[j].by = item[j].by
  /\ item'[j].source = item[j].source /\ item'[j].failed = item[j].failed
  /\ ~IsOpen(item[j]) => item'[j] = item[j]

\* ... and a repair is of a row that fails with it.
IsNewRepair(j) ==
  /\ item'[j].by = NoId /\ item'[j].source = NoId
  /\ item'[j].of = {} /\ item'[j].status = "QUEUED" /\ item'[j].type # "RUN_TESTS"
  /\ item'[j].type \in RetryingFixes =>
       /\ item'[j].failed \in Ids
       /\ item[item'[j].failed].status = "RUNNING" /\ item'[item'[j].failed].status = "FAILED"
       /\ item[item'[j].failed].type \in RetriedTypes

\* Only who runs spends, and a repair when it ends.
Pays(j) ==
  \/ TriesOf(j)' = TriesOf(j)
  \/ j \in Ids /\ item[j].status = "RUNNING" /\ (IsOpen(item'[j]) => ~IsRepair(j))

NewlyUseless(j) ==
  IsRepair(j) /\ IsOpen(item[j]) /\ item'[j].status = "DONE" /\ TriesOf(j)' > 0 =>
    item[item[j].failed].type = "RUN_TESTS" /\ ~MayRetryTests

SizedForRepair ==
  \A v \in Workers : worker'[v].pc = "sized" =>
     /\ worker'[v].job \in Ids
     /\ Rule(worker'[v].job, worker'[v].text) = "spawn_fix_node"

\* A step that brings no retry.
Passes ==
  /\ edges' = edges
  /\ \A j \in Ids : Keeps(j) /\ NewlyUseless(j)
  /\ \A j \in Ids' : j \notin Ids => IsNewRepair(j)
  /\ \A j, k \in Ids' : j \notin Ids /\ k \notin Ids => j = k
  /\ \A j \in Ids' : Pays(j)
  /\ SizedForRepair

LEMMA MoreIds ==
  ASSUME JobInv, RowsFollow
  PROVE  Ids \subseteq Ids' /\ NoId \notin Ids /\ Ids \subseteq Nat /\ Ids' \subseteq Nat
  BY DEF JobInv, TypeOK, RowsFollow, Ids, NoId

\* Open rows are not superseded.
LEMMA OpenIsCurrent ==
  ASSUME DependentsFollow, NEW i \in Ids, IsOpen(item[i])
  PROVE  ~Superseded(i)
  BY DEF DependentsFollow, IsOpen

LEMMA PassingKeepsDependents ==
  ASSUME LineageInv, RowsFollow, Passes
  PROVE  DependentsFollow'
<1>1. Ids \subseteq Ids' /\ Ids \subseteq Nat /\ NoId \notin Ids /\ DependentsFollow
  BY MoreIds DEF LineageInv
<1>2. ASSUME NEW i \in Ids', item'[i].by # NoId
      PROVE  /\ item'[i].status = "FAILED" /\ item'[i].by > i
             /\ item'[item'[i].by].type = item'[i].type
             /\ item'[i].of \subseteq item'[item'[i].by].of
  <2>1. i \in Ids /\ Keeps(i)
    BY <1>2 DEF Passes, IsNewRepair
  <2>2. /\ item[i].status = "FAILED" /\ item[i].by > i
        /\ item[item[i].by].type = item[i].type
        /\ item[i].of \subseteq item[item[i].by].of
    BY <1>1, <1>2, <2>1 DEF Keeps, DependentsFollow, Superseded
  <2>3. item'[i] = item[i]
    BY <2>1, <2>2 DEF Keeps, IsOpen
  <2>4. item[i].by \in Ids
    <3>1. item[i].by \in 0 .. Len(item)
      BY <2>1, RowFields DEF LineageInv, JobInv, ItemRow
    <3> QED
      BY <1>2, <2>3, <3>1 DEF Ids, NoId
  <2>5. Keeps(item[i].by)
    BY <2>4 DEF Passes
  <2> QED
    BY <2>2, <2>3, <2>5 DEF Keeps
<1>3. ASSUME NEW i \in Ids', NEW j \in Ids', item'[i].of \cap item'[j].of # {},
             item'[i].by = NoId, item'[j].by = NoId
      PROVE  i = j
  <2>1. i \in Ids /\ j \in Ids /\ Keeps(i) /\ Keeps(j)
    BY <1>3 DEF Passes, IsNewRepair
  <2> QED
    BY <1>1, <1>3, <2>1 DEF Keeps, DependentsFollow, Superseded
<1>4. ASSUME NEW e \in edges
      PROVE  item'[e[1]].by = NoId
  <2>1. e[1] \in Ids
    BY DEF LineageInv, JobInv, TypeOK
  <2> QED
    BY <1>1, <2>1 DEF Passes, Keeps, DependentsFollow, Superseded
<1>5. ASSUME NEW e \in GraphEdges
      PROVE  \E i \in Ids' : e[1] \in item'[i].of /\ <<i, e[2]>> \in edges'
  <2>1. PICK i \in Ids : e[1] \in item[i].of /\ <<i, e[2]>> \in edges
    BY <1>1 DEF DependentsFollow
  <2> QED
    BY <1>1, <2>1 DEF Passes, Keeps
<1> QED
  BY <1>2, <1>3, <1>4, <1>5 DEF DependentsFollow, Superseded, Passes

LEMMA RetriesStay ==
  ASSUME JobInv, RowsFollow, \A j \in Ids : item'[j].source = item[j].source,
         NEW fix \in Ids, HasRetry(fix)
  PROVE  HasRetry(fix)'
  BY MoreIds DEF HasRetry

LEMMA RuleStays ==
  ASSUME RowsFollow, NEW i \in Ids, NEW text
  PROVE  Rule(i, text)' = Rule(i, text)
  BY DEF RowsFollow, Rule, Class

LEMMA SizedStays ==
  ASSUME RowsFollow, SizedForRepair
  PROVE  \A w \in Workers : worker'[w].pc = "sized" =>
            Rule(worker[w].job, worker[w].text)' = "spawn_fix_node"
<1> SUFFICES ASSUME NEW w \in Workers, worker'[w].pc = "sized"
             PROVE  Rule(worker[w].job, worker[w].text)' = "spawn_fix_node"
  OBVIOUS
<1>1. worker'[w].job \in Ids /\ Rule(worker'[w].job, worker'[w].text) = "spawn_fix_node"
  BY DEF SizedForRepair
<1> QED
  BY <1>1 DEF RowsFollow, Rule, Class

LEMMA PassingKeepsRepairs ==
  ASSUME LineageInv, RowsFollow, Passes
  PROVE  RepairsAreOfFailures'
<1>1. /\ Ids \subseteq Ids' /\ NoId \notin Ids
      /\ JobInv /\ DependentsFollow /\ RepairsAreOfFailures
  BY MoreIds DEF LineageInv
<1>2. ASSUME NEW fix \in Ids', IsRepair(fix)', fix \notin Ids
      PROVE  /\ IsNewRepair(fix) /\ item'[fix].failed \in Ids
             /\ item[item'[fix].failed].status = "RUNNING"
             /\ item'[item'[fix].failed].status = "FAILED"
             /\ item'[item'[fix].failed].type \in RetriedTypes
             /\ item'[item'[fix].failed].by = NoId
  <2>1. IsNewRepair(fix) /\ item'[fix].type \in RetryingFixes
    BY <1>2 DEF Passes, IsRepair
  <2>2. /\ item'[fix].failed \in Ids
        /\ item[item'[fix].failed].status = "RUNNING"
        /\ item'[item'[fix].failed].status = "FAILED"
        /\ item[item'[fix].failed].type \in RetriedTypes
    BY <2>1 DEF IsNewRepair
  <2>3. Keeps(item'[fix].failed)
    BY <2>2 DEF Passes
  <2>4. item[item'[fix].failed].by = NoId
    BY <1>1, <2>2, OpenIsCurrent DEF IsOpen, Superseded
  <2> QED
    BY <2>1, <2>2, <2>3, <2>4 DEF Keeps
<1>3. ASSUME NEW fix \in Ids', IsRepair(fix)', fix \in Ids
      PROVE  /\ IsRepair(fix) /\ Keeps(fix) /\ item[fix].failed \in Ids
             /\ item'[fix].failed = item[fix].failed
             /\ item[item[fix].failed].status = "FAILED"
             /\ item'[item'[fix].failed] = item[item[fix].failed]
  <2>1. Keeps(fix) /\ IsRepair(fix)
    BY <1>3 DEF Passes, IsRepair, Keeps
  <2>2. item[fix].failed \in Ids /\ item[item[fix].failed].status = "FAILED"
    BY <1>1, <1>3, <2>1 DEF RepairsAreOfFailures
  <2>3. Keeps(item[fix].failed)
    BY <2>2 DEF Passes
  <2> QED
    BY <2>1, <2>2, <2>3 DEF Keeps, IsOpen
<1>4. ASSUME NEW fix \in Ids', IsRepair(fix)'
      PROVE  /\ item'[fix].failed \in Ids'
             /\ item'[item'[fix].failed].status = "FAILED"
             /\ item'[item'[fix].failed].type \in RetriedTypes
             /\ item'[item'[fix].failed].by # NoId => HasRetry(fix)'
  <2>1. CASE fix \notin Ids
    BY <1>1, <1>2, <1>4, <2>1
  <2>2. CASE fix \in Ids
    <3>1. /\ item[item[fix].failed].type \in RetriedTypes
          /\ item[item[fix].failed].by # NoId => HasRetry(fix)
      BY <1>1, <1>3, <1>4, <2>2 DEF RepairsAreOfFailures, Superseded
    <3>2. \A j \in Ids : item'[j].source = item[j].source
      BY DEF Passes, Keeps
    <3>3. HasRetry(fix) => HasRetry(fix)'
      BY <1>1, <2>2, <3>2, RetriesStay
    <3> QED
      BY <1>1, <1>3, <1>4, <2>2, <3>1, <3>3
  <2> QED
    BY <2>1, <2>2
<1>5. ASSUME NEW f \in Ids', NEW g \in Ids', IsRepair(f)', IsRepair(g)',
             item'[f].failed = item'[g].failed
      PROVE  f = g
  <2>1. CASE f \in Ids /\ g \in Ids
    BY <1>1, <1>3, <1>5, <2>1 DEF RepairsAreOfFailures
  <2>2. CASE f \notin Ids /\ g \notin Ids
    BY <1>5, <2>2 DEF Passes
  <2>3. CASE f \in Ids /\ g \notin Ids
    BY <1>2, <1>3, <1>5, <2>3
  <2>4. CASE f \notin Ids /\ g \in Ids
    BY <1>2, <1>3, <1>5, <2>4
  <2> QED
    BY <2>1, <2>2, <2>3, <2>4
<1>6. \A w \in Workers : worker'[w].pc = "sized" =>
         Rule(worker[w].job, worker[w].text)' = "spawn_fix_node"
  BY SizedStays DEF Passes
<1> QED
  BY <1>4, <1>5, <1>6 DEF RepairsAreOfFailures, Superseded

LEMMA PassingKeepsRetries ==
  ASSUME LineageInv, RowsFollow, Passes
  PROVE  RetriesAreOfRepairs'
<1>1. Ids \subseteq Ids' /\ RetriesAreOfRepairs
  BY MoreIds DEF LineageInv
<1> SUFFICES ASSUME NEW j \in Ids', item'[j].source # NoId
             PROVE  /\ item'[j].source \in Ids'
                    /\ item'[item'[j].source].status = "DONE"
                    /\ <<item'[j].source, j>> \in edges'
  BY DEF RetriesAreOfRepairs
<1>2. j \in Ids /\ Keeps(j)
  BY DEF Passes, IsNewRepair
<1>3. /\ item[j].source \in Ids /\ item[item[j].source].status = "DONE"
      /\ <<item[j].source, j>> \in edges /\ item'[j].source = item[j].source
  BY <1>1, <1>2 DEF RetriesAreOfRepairs, Keeps
<1>4. Keeps(item[j].source)
  BY <1>3 DEF Passes
<1> QED
  BY <1>1, <1>3, <1>4 DEF Keeps, IsOpen, Passes

LEMMA PassingKeepsTypes ==
  ASSUME LineageInv, RowsFollow, Passes
  PROVE  OneTestOpen' /\ WorkKeepsItsType'
<1>1. OneTestOpen /\ WorkKeepsItsType
  BY DEF LineageInv
<1>2. OneTestOpen'
  <2> SUFFICES ASSUME NEW i \in Ids', NEW j \in Ids',
                      item'[i].type = "RUN_TESTS", item'[j].type = "RUN_TESTS",
                      item'[i].by = NoId, item'[j].by = NoId
               PROVE  i = j
    BY DEF OneTestOpen, Superseded
  <2>1. i \in Ids /\ j \in Ids /\ Keeps(i) /\ Keeps(j)
    BY DEF Passes, IsNewRepair
  <2> QED
    BY <1>1, <2>1 DEF Keeps, OneTestOpen, Superseded
<1>3. WorkKeepsItsType'
  <2> SUFFICES ASSUME NEW i \in Ids', NEW n \in item'[i].of
               PROVE  item'[i].type = Graph[n]
    BY DEF WorkKeepsItsType
  <2>1. i \in Ids /\ Keeps(i)
    BY DEF Passes, IsNewRepair
  <2> QED
    BY <1>1, <2>1 DEF Keeps, WorkKeepsItsType
<1> QED
  BY <1>2, <1>3

LEMMA PassingKeepsSpending ==
  ASSUME LineageInv, RowsFollow, Passes
  PROVE  RepairsSpendLast'
<1> SUFFICES ASSUME NEW fix \in Ids', IsRepair(fix)', item'[fix].status \in {"QUEUED", "RUNNING"}
             PROVE  TriesOf(fix)' = 0
  BY DEF RepairsSpendLast
<1>1. Pays(fix)
  BY DEF Passes
<1>2. CASE fix \in Ids
  <2>1. Keeps(fix)
    BY <1>2 DEF Passes
  <2>2. IsRepair(fix) /\ IsOpen(item'[fix]) /\ IsOpen(item[fix])
    BY <2>1 DEF Keeps, IsRepair, IsOpen
  <2>3. TriesOf(fix) = 0
    BY <1>2, <2>2 DEF LineageInv, RepairsSpendLast, IsOpen
  <2> QED
    BY <1>1, <2>2, <2>3 DEF Pays
<1>3. CASE fix \notin Ids
  <2>1. TriesOf(fix) = 0
    BY <1>3, TriesAreCounted DEF LineageInv, JobInv
  <2> QED
    BY <1>1, <1>3, <2>1 DEF Pays
<1> QED
  BY <1>2, <1>3

\* As long as a repair of tests has brought no retry, no test can run.
LEMMA TestsRest ==
  ASSUME LineageInv, NEW fix \in Ids, IsRepair(fix), item[item[fix].failed].type = "RUN_TESTS",
         ~HasRetry(fix), NEW i \in Ids, item[i].type = "RUN_TESTS"
  PROVE  item[i].status = "FAILED" /\ (~Superseded(i) => i = item[fix].failed)
<1>1. /\ item[fix].failed \in Ids /\ item[item[fix].failed].status = "FAILED"
      /\ ~Superseded(item[fix].failed)
  BY DEF LineageInv, RepairsAreOfFailures
<1>2. CASE Superseded(i)
  BY <1>2 DEF LineageInv, DependentsFollow
<1>3. CASE ~Superseded(i)
  BY <1>1, <1>3 DEF LineageInv, OneTestOpen
<1> QED
  BY <1>2, <1>3

LEMMA TestsStay ==
  ASSUME JobInv, JobInv', RowsFollow,
         \A i \in Ids : item[i].type = "RUN_TESTS" => item'[i] = item[i],
         \A i \in Ids' : i \notin Ids => item'[i].status = "QUEUED"
  PROVE  MayRetryTests' <=> MayRetryTests
<1>1. Ids \subseteq Ids' /\ Len(item) \in Nat /\ Ids = 1 .. Len(item)
      /\ \A i \in Ids : item'[i].type = item[i].type
  BY MoreIds DEF RowsFollow, JobInv, TypeOK, Ids
<1>2. FailedTests' = FailedTests
  <2>1. \A i \in Ids' : i \in FailedTests' <=> i \in FailedTests
    BY <1>1 DEF FailedTests
  <2>2. FailedTests' \subseteq Ids' /\ FailedTests \subseteq Ids'
    BY <1>1 DEF FailedTests
  <2> QED
    BY <2>1, <2>2
<1>3. ASSUME NEW text
      PROVE  PriorRetries(text)' = PriorRetries(text)
  <2>1. \A i \in FailedTests : item'[i] = item[i]
    BY DEF FailedTests
  <2> QED
    BY <1>2, <2>1 DEF PriorRetries, Retries
<1>4. CASE FailedTests = {}
  BY <1>2, <1>4 DEF MayRetryTests
<1>5. CASE FailedTests # {}
  <2>1. \E i \in FailedTests : \A j \in FailedTests : j <= i
    <3>1. FailedTests \subseteq 1 .. Len(item)
      BY <1>1 DEF FailedTests
    <3> QED
      BY <1>1, <1>5, <3>1, Largest
  <2>2. Latest(FailedTests) \in FailedTests
    BY <2>1 DEF Latest
  <2> DEFINE latest == Latest(FailedTests)
             text == item[latest].text
  <2>3. item'[latest].text = text
    BY <2>2 DEF FailedTests
  <2>4. PICK t : t = text
    OBVIOUS
  <2>5. PriorRetries(t)' = PriorRetries(t)
    BY <1>3
  <2>6. MayRetryTests <=> (t # {} => Cardinality(PriorRetries(t)) < RetryCap(t))
    BY <1>5, <2>4 DEF MayRetryTests
  <2>7. MayRetryTests' <=> (t # {} => Cardinality(PriorRetries(t)') < RetryCap(t))
    BY <1>2, <1>5, <2>3, <2>4 DEF MayRetryTests
  <2> QED
    BY <2>5, <2>6, <2>7
<1> QED
  BY <1>4, <1>5

\* A repair without a retry of its own stays without one for good.
LEMMA UselessStays ==
  ASSUME LineageInv, JobInv', RowsFollow, NEW fix \in Ids, IsRepair(fix), ~HasRetry(fix),
         item[item[fix].failed].type = "RUN_TESTS", ~MayRetryTests,
         \A i \in Ids : item[i].type = "RUN_TESTS" /\ item[i].status = "FAILED" => item'[i] = item[i],
         \A i \in Ids' : i \notin Ids => item'[i].status = "QUEUED",
         item'[fix].failed = item[fix].failed
  PROVE  item'[item'[fix].failed].type = "RUN_TESTS" /\ ~MayRetryTests'
<1>1. \A i \in Ids : item[i].type = "RUN_TESTS" => item'[i] = item[i]
  BY TestsRest
<1>2. ~MayRetryTests'
  BY <1>1, TestsStay DEF LineageInv
<1>3. item[fix].failed \in Ids
  BY DEF LineageInv, RepairsAreOfFailures
<1> QED
  BY <1>2, <1>3 DEF RowsFollow

LEMMA RetriedIsUsed ==
  ASSUME RetriesAreOfRepairs', NEW fix, fix # NoId, HasRetry(fix)'
  PROVE  (\E j \in Ids : item[j].source = fix /\ <<fix, j>> \in edges)'
  BY DEF RetriesAreOfRepairs, HasRetry

LEMMA PassingKeepsUse ==
  ASSUME LineageInv, JobInv', RowsFollow, Passes, RetriesAreOfRepairs'
  PROVE  RepairBringsRetry'
<1> SUFFICES ASSUME NEW fix \in Ids', IsRepair(fix)', item'[fix].status = "DONE",
                    TriesOf(fix)' > 0
             PROVE  \/ \E j \in Ids' : item'[j].source = fix /\ <<fix, j>> \in edges'
                    \/ item'[item'[fix].failed].type = "RUN_TESTS" /\ ~MayRetryTests'
  BY DEF RepairBringsRetry, IsRepair
<1>1. fix \in Ids /\ Keeps(fix) /\ IsRepair(fix) /\ fix # NoId
  <2>1. fix \in Ids
    BY DEF Passes, IsNewRepair
  <2>2. Keeps(fix)
    BY <2>1 DEF Passes
  <2> QED
    BY <2>1, <2>2, MoreIds DEF Keeps, IsRepair, LineageInv
<1>2. CASE HasRetry(fix)
  <2>1. \A j \in Ids : item'[j].source = item[j].source
    BY DEF Passes, Keeps
  <2>2. HasRetry(fix)'
    BY <1>1, <1>2, <2>1, RetriesStay DEF LineageInv
  <2> QED
    BY <1>1, <2>2, RetriedIsUsed
<1>3. CASE ~HasRetry(fix)
  <2>1. item[item[fix].failed].type = "RUN_TESTS" /\ ~MayRetryTests
    <3>1. CASE IsOpen(item[fix])
      BY <1>1, <3>1 DEF Passes, NewlyUseless
    <3>2. CASE ~IsOpen(item[fix])
      <4>1. item'[fix] = item[fix] /\ item[fix].status = "DONE"
        BY <1>1, <3>2 DEF Keeps
      <4>2. Pays(fix)
        BY DEF Passes
      <4>3. TriesOf(fix) > 0
        BY <4>1, <4>2 DEF Pays
      <4> QED
        BY <1>1, <1>3, <4>1, <4>3 DEF LineageInv, RepairBringsRetry, HasRetry, IsRepair
    <3> QED
      BY <3>1, <3>2
  <2>2. \A i \in Ids : item[i].type = "RUN_TESTS" /\ item[i].status = "FAILED" => item'[i] = item[i]
    BY DEF Passes, Keeps, IsOpen
  <2>3. \A i \in Ids' : i \notin Ids => item'[i].status = "QUEUED"
    BY DEF Passes, IsNewRepair
  <2>4. item'[fix].failed = item[fix].failed
    BY <1>1 DEF Keeps
  <2> QED
    BY <1>1, <1>3, <2>1, <2>2, <2>3, <2>4, UselessStays
<1> QED
  BY <1>2, <1>3

LEMMA PassingKeepsLineage ==
  ASSUME LineageInv, JobInv', RowsFollow, Passes
  PROVE  LineageInv'
<1>1. DependentsFollow' /\ RepairsAreOfFailures' /\ RetriesAreOfRepairs'
  BY PassingKeepsDependents, PassingKeepsRepairs, PassingKeepsRetries
<1>2. OneTestOpen' /\ WorkKeepsItsType' /\ RepairsSpendLast' /\ RepairBringsRetry'
  BY <1>1, PassingKeepsTypes, PassingKeepsSpending, PassingKeepsUse
<1> QED
  BY <1>1, <1>2 DEF LineageInv

-----------------------------------------------------------------------------
(* The steps that bring no retry.                                          *)

LEMMA SameRule ==
  ASSUME LineageInv, worker' = worker
  PROVE  SizedForRepair
BY DEF LineageInv, JobInv, JobIsRunning, Busy, RepairsAreOfFailures, SizedForRepair

\* Neither rows nor edges nor attempts are written, nor the rows of repairs.
LEMMA IdlePasses ==
  ASSUME LineageInv, UNCHANGED <<item, edges, tries>>, SizedForRepair
  PROVE  Passes
BY DEF Passes, Keeps, NewlyUseless, Pays, TriesOf, Ids, IsOpen

LEMMA OthersSized ==
  ASSUME LineageInv, NEW w \in Workers,
         worker'[w].pc # "sized",
         \A v \in Workers \ {w} : worker'[v] = worker[v]
  PROVE  SizedForRepair
BY DEF LineageInv, JobInv, JobIsRunning, Busy, RepairsAreOfFailures, SizedForRepair

\* One row changes that was open.
LEMMA OnePasses ==
  ASSUME LineageInv, NEW i \in Ids, NEW r, item' = [item EXCEPT ![i] = r], IsOpen(item[i]),
         r.type = item[i].type, r.of = item[i].of, r.by = item[i].by,
         r.source = item[i].source, r.failed = item[i].failed,
         UNCHANGED edges,
         \A j \in Ids : j # i => TriesOf(j)' = TriesOf(j),
         \/ TriesOf(i)' = TriesOf(i)
         \/ item[i].status = "RUNNING" /\ (IsOpen(r) => ~IsRepair(i)),
         IsRepair(i) /\ r.status = "DONE" /\ TriesOf(i)' > 0 =>
            item[item[i].failed].type = "RUN_TESTS" /\ ~MayRetryTests,
         SizedForRepair
  PROVE  Passes
<1>1. /\ item'[i] = r /\ \A j \in Ids : j # i => item'[j] = item[j]
      /\ Ids' = Ids
  BY DEF LineageInv, JobInv, TypeOK, Ids
<1>2. \A j \in Ids : Keeps(j)
  BY <1>1 DEF Keeps
<1>3. \A j \in Ids : Pays(j)
  BY <1>1 DEF Pays
<1>4. \A j \in Ids : NewlyUseless(j)
  BY <1>1 DEF NewlyUseless, IsOpen
<1> QED
  BY <1>1, <1>2, <1>3, <1>4 DEF Passes

LEMMA OthersPayNothing ==
  ASSUME TypeOK, NEW i \in Ids, Adds(i)
  PROVE  \A j : j # i => TriesOf(j)' = TriesOf(j)
<1>1. CASE UNCHANGED tries
  BY <1>1 DEF TriesOf
<1>2. CASE ~UNCHANGED tries
  <2>1. PICK type \in FailureTypes : tries' = Try(i, type)
    BY <1>2 DEF Adds
  <2> QED
    BY <2>1, Spent
<1> QED
  BY <1>1, <1>2

\* A report on what a worker executes.
LEMMA ReportPasses ==
  ASSUME LineageInv, NEW w \in Workers, Busy(w), Done(w), NEW i \in Ids, worker[w].job = i,
         Adds(i), UNCHANGED edges, NEW r, item' = [item EXCEPT ![i] = r],
         r.type = item[i].type, r.of = item[i].of, r.by = item[i].by,
         r.source = item[i].source, r.failed = item[i].failed,
         UNCHANGED tries \/ ~IsOpen(r) \/ ~IsRepair(i),
         IsRepair(i) /\ r.status = "DONE" /\ TriesOf(i)' > 0 =>
            item[item[i].failed].type = "RUN_TESTS" /\ ~MayRetryTests
  PROVE  Passes
<1>1. TypeOK /\ item[i].status = "RUNNING" /\ IsOpen(item[i])
  BY DEF LineageInv, JobInv, JobIsRunning, IsOpen
<1>2. \A j \in Ids : j # i => TriesOf(j)' = TriesOf(j)
  BY <1>1, OthersPayNothing
<1>3. TriesOf(i)' = TriesOf(i) \/ (IsOpen(r) => ~IsRepair(i))
  BY DEF TriesOf
<1>4. SizedForRepair
  <2>1. worker'[w].pc # "sized" /\ \A v \in Workers \ {w} : worker'[v] = worker[v]
    BY <1>1 DEF Done, TypeOK, IdleWorker
  <2> QED
    BY <2>1, OthersSized
<1> QED
  BY <1>1, <1>2, <1>3, <1>4, OnePasses

LEMMA ReportedKeeps ==
  ASSUME JobInv, NEW i \in Ids, NEW status, NEW text, NEW same
  PROVE  LET r == Reported(i, status, text, same)
         IN  /\ r.status = status /\ r.type = item[i].type /\ r.of = item[i].of
             /\ r.by = item[i].by /\ r.source = item[i].source /\ r.failed = item[i].failed
BY RowFields DEF JobInv, ItemRow, Reported

LEMMA QueuePasses ==
  ASSUME LineageInv, \/ \E w \in Workers, i \in Ids : Claim(w, i)
                     \/ \E i \in Ids : Reclaim(i)
  PROVE  Passes
<1>1. TypeOK /\ JobInv
  BY DEF LineageInv, JobInv
<1>2. ASSUME NEW w \in Workers, NEW i \in Ids, Claim(w, i)
      PROVE  Passes
  <2> DEFINE r == [item[i] EXCEPT !.status = "RUNNING"]
  <2>1. /\ IsOpen(item[i]) /\ item' = [item EXCEPT ![i] = r]
        /\ UNCHANGED edges /\ UNCHANGED tries
    BY <1>2 DEF Claim, Runnable, IsOpen
  <2>2. /\ r.type = item[i].type /\ r.of = item[i].of /\ r.by = item[i].by /\ r.status = "RUNNING"
        /\ r.source = item[i].source /\ r.failed = item[i].failed
    BY <1>1, RowFields DEF ItemRow
  <2>3. SizedForRepair
    <3>1. worker'[w].pc # "sized" /\ \A v \in Workers \ {w} : worker'[v] = worker[v]
      BY <1>1, <1>2 DEF Claim, TypeOK, IdleWorker
    <3> QED
      BY <3>1, OthersSized
  <2>4. \A j \in Ids : TriesOf(j)' = TriesOf(j)
    BY <2>1 DEF TriesOf
  <2> HIDE DEF r
  <2> QED
    BY <2>1, <2>2, <2>3, <2>4, OnePasses
<1>3. ASSUME NEW i \in Ids, Reclaim(i)
      PROVE  Passes
  <2> DEFINE r == [item[i] EXCEPT !.status = "QUEUED"]
  <2>1. /\ IsOpen(item[i]) /\ item' = [item EXCEPT ![i] = r]
        /\ UNCHANGED edges /\ UNCHANGED tries /\ UNCHANGED worker
    BY <1>3 DEF Reclaim, Leased, IsOpen
  <2>2. /\ r.type = item[i].type /\ r.of = item[i].of /\ r.by = item[i].by /\ r.status = "QUEUED"
        /\ r.source = item[i].source /\ r.failed = item[i].failed
    BY <1>1, RowFields DEF ItemRow
  <2>3. SizedForRepair
    BY <2>1, SameRule
  <2>4. \A j \in Ids : TriesOf(j)' = TriesOf(j)
    BY <2>1 DEF TriesOf
  <2> HIDE DEF r
  <2> QED
    BY <2>1, <2>2, <2>3, <2>4, OnePasses
<1> QED
  BY <1>2, <1>3

LEMMA AdmissionPasses ==
  ASSUME LineageInv,
         NEW w \in Workers,
         \/ \E text \in Texts, raised \in BOOLEAN : CheckBudget(w, text, raised)
         \/ CountFixes(w)
         \/ Abandon(w)
         \/ PassLimit
         \/ UNCHANGED vars
  PROVE  Passes
<1>1. UNCHANGED <<item, edges, tries>>
  BY DEF CheckBudget, CountFixes, Abandon, PassLimit, vars
<1>2. CASE PassLimit \/ UNCHANGED vars
  BY <1>1, <1>2, SameRule, IdlePasses DEF PassLimit, vars
<1>3. CASE \/ \E text \in Texts, raised \in BOOLEAN : CheckBudget(w, text, raised)
           \/ Abandon(w)
  <2>1. worker'[w].pc # "sized" /\ \A v \in Workers \ {w} : worker'[v] = worker[v]
    <3>1. TypeOK
      BY DEF LineageInv, JobInv
    <3>2. CASE Abandon(w)
      BY <3>1, <3>2 DEF Abandon, TypeOK, IdleWorker
    <3>3. ASSUME NEW text \in Texts, NEW raised \in BOOLEAN, CheckBudget(w, text, raised)
          PROVE  worker'[w].pc # "sized" /\ \A v \in Workers \ {w} : worker'[v] = worker[v]
      <4>1. PICK k : k = WithinBudget(worker[w].job, FailureType(Class(worker[w].job, text)))
        OBVIOUS
      <4>2. PICK same : same = NextSame(worker[w].job, raised)
        OBVIOUS
      <4>3. worker' = [worker EXCEPT ![w] = [worker[w] EXCEPT !.pc = "counted", !.text = text,
                                                               !.same = same, !.allowed = k]]
        BY <3>3, <4>1, <4>2 DEF CheckBudget
      <4>4. worker[w] \in WorkerRow(Len(item))
        BY <3>1, WorkerFields
      <4> QED
        BY <3>1, <4>3, <4>4 DEF TypeOK, WorkerRow
    <3> QED
      BY <1>3, <3>2, <3>3
  <2> QED
    BY <1>1, <2>1, OthersSized, IdlePasses
<1>4. CASE CountFixes(w)
  <2>1. /\ worker'[w].job = worker[w].job /\ worker'[w].text = worker[w].text
        /\ \A v \in Workers \ {w} : worker'[v] = worker[v]
    BY <1>4, WorkerFields DEF CountFixes, LineageInv, JobInv, TypeOK, WorkerRow
  <2>2. worker[w].job \in Ids /\ Rule(worker[w].job, worker[w].text) = "spawn_fix_node"
    BY <1>4 DEF CountFixes, LineageInv, JobInv, JobIsRunning, Busy
  <2>3. SizedForRepair
    BY <2>1, <2>2 DEF LineageInv, JobInv, JobIsRunning, Busy, RepairsAreOfFailures, SizedForRepair
  <2> QED
    BY <1>1, <2>3, IdlePasses
<1> QED
  BY <1>2, <1>3, <1>4

LEMMA FailedRowKeeps ==
  ASSUME JobInv, NEW w \in Workers, NEW i \in Ids, worker[w].job = i
  PROVE  LET r == FailedRow(w)
         IN  /\ r.status = "FAILED" /\ r.type = item[i].type /\ r.of = item[i].of
             /\ r.by = item[i].by /\ r.source = item[i].source /\ r.failed = item[i].failed
BY ReportedKeeps DEF FailedRow

\* Reports of FAILED.
LEMMA FailurePasses ==
  ASSUME LineageInv, NEW w \in Workers,
         \/ \E text \in Texts, raised \in BOOLEAN : FailUnrecovered(w, text, raised)
         \/ Escalate(w)
         \/ CommitRetry(w)
         \/ CommitBlock(w)
         \/ CommitFix(w) /\ ~worker[w].room
  PROVE  Passes
<1>1. TypeOK /\ JobInv /\ Busy(w) /\ worker[w].job \in Ids
  BY DEF FailUnrecovered, Escalate, CommitRetry, CommitBlock, CommitFix,
         LineageInv, JobInv, JobIsRunning, Busy
<1>2. PICK i \in Ids : worker[w].job = i
  BY <1>1
<1>3. Adds(i) /\ Done(w) /\ UNCHANGED edges
  BY <1>2, AttemptAdds DEF FailUnrecovered, Escalate, CommitRetry, CommitBlock, CommitFix, Adds
<1> DEFINE row == FailedRow(w)
<1>4. /\ row.status = "FAILED" /\ row.type = item[i].type /\ row.of = item[i].of
      /\ row.by = item[i].by /\ row.source = item[i].source /\ row.failed = item[i].failed
  BY <1>1, <1>2, FailedRowKeeps
<1>5. ASSUME item' = [item EXCEPT ![i] = row]
      PROVE  Passes
  <2> HIDE DEF row
  <2>1. ~IsOpen(row) /\ row.status # "DONE"
    BY <1>4 DEF IsOpen
  <2> QED
    BY <1>1, <1>2, <1>3, <1>4, <1>5, <2>1, ReportPasses
<1>6. CASE \E text \in Texts, raised \in BOOLEAN : FailUnrecovered(w, text, raised)
  <2>1. PICK text, same : item' = [item EXCEPT ![i] = Reported(i, "FAILED", text, same)]
    BY <1>2, <1>6 DEF FailUnrecovered
  <2> DEFINE r == Reported(i, "FAILED", text, same)
  <2>2. /\ r.status = "FAILED" /\ r.type = item[i].type /\ r.of = item[i].of
        /\ r.by = item[i].by /\ r.source = item[i].source /\ r.failed = item[i].failed
    BY <1>1, ReportedKeeps
  <2>3. item' = [item EXCEPT ![i] = r]
    BY <2>1
  <2> HIDE DEF r
  <2>4. ~IsOpen(r) /\ r.status # "DONE"
    BY <2>2 DEF IsOpen
  <2> QED
    BY <1>1, <1>2, <1>3, <2>2, <2>3, <2>4, ReportPasses
<1>7. CASE Escalate(w) \/ CommitBlock(w) \/ (CommitFix(w) /\ ~worker[w].room)
  BY <1>2, <1>5, <1>7 DEF Escalate, CommitBlock, CommitFix
<1>8. CASE CommitRetry(w)
  <2>1. CASE ~RetriesLeft(i)
    BY <1>2, <1>5, <1>8, <2>1 DEF CommitRetry
  <2>2. CASE RetriesLeft(i)
    <3> DEFINE attempt == row.attempt + 1
               r == [row EXCEPT !.status = "QUEUED", !.attempt = attempt, !.action = "retry"]
    <3>1. item' = [item EXCEPT ![i] = r]
      BY <1>2, <1>8, <2>2 DEF CommitRetry
    <3>2. row \in ItemRow(Len(item))
      BY <1>1, FailedRowIs
    <3>3. /\ r.status = "QUEUED" /\ r.type = row.type /\ r.of = row.of
          /\ r.by = row.by /\ r.source = row.source /\ r.failed = row.failed
      <4> HIDE DEF row, attempt
      <4> QED
        BY <3>2 DEF ItemRow
    <3>4. Action(item[i].type, Class(i, worker[w].text)) = "retry"
      BY <1>2, <1>8 DEF CommitRetry, Rule
    <3>5. ~IsRepair(i)
      BY <3>4 DEF Action, RetriedClasses, IsRepair, RetryingFixes, BackendTypes
    <3> HIDE DEF r, row
    <3> QED
      BY <1>1, <1>2, <1>3, <1>4, <3>1, <3>3, <3>5, ReportPasses
  <2> QED
    BY <2>1, <2>2
<1> QED
  BY <1>6, <1>7, <1>8

\* A failure that brings a repair: which is of a row of one of three types.
LEMMA RepairPasses ==
  ASSUME LineageInv, NEW w \in Workers, CommitFix(w), worker[w].room
  PROVE  Passes
<1> DEFINE n == Len(item)
           row == FailedRow(w)
           fix == Fix(w)
<1>1. TypeOK /\ JobInv /\ Busy(w) /\ worker[w].job \in Ids /\ n \in Nat /\ Ids = 1 .. n
      /\ worker[w].pc = "sized"
  BY DEF CommitFix, LineageInv, JobInv, JobIsRunning, Busy, TypeOK, Ids
<1>2. PICK i \in Ids : worker[w].job = i
  BY <1>1
<1>3. item[i].status = "RUNNING" /\ Rule(i, worker[w].text) = "spawn_fix_node"
  BY <1>1, <1>2 DEF JobInv, JobIsRunning, LineageInv, RepairsAreOfFailures
<1>4. Adds(i) /\ Done(w) /\ UNCHANGED edges
  BY <1>2, AttemptAdds DEF CommitFix
<1>5. /\ row.status = "FAILED" /\ row.type = item[i].type /\ row.of = item[i].of
      /\ row.by = item[i].by /\ row.source = item[i].source /\ row.failed = item[i].failed
  BY <1>1, <1>2, FailedRowKeeps
<1>6. item' = Append([item EXCEPT ![i] = row], fix)
  BY <1>2 DEF CommitFix
<1> HIDE DEF row
<1>7. /\ Ids' = 1 .. n + 1 /\ item'[n + 1] = fix /\ item'[i] = row
      /\ \A j \in Ids : j # i => item'[j] = item[j]
  <2> HIDE DEF fix
  <2> QED
    BY <1>1, <1>6 DEF TypeOK, Ids
<1>8. \A j \in Ids : Keeps(j) /\ NewlyUseless(j)
  BY <1>3, <1>5, <1>7 DEF Keeps, NewlyUseless, IsOpen
<1>9. IsNewRepair(n + 1)
  <2>1. /\ fix.type = FixType(Class(i, worker[w].text)) /\ fix.failed = i /\ fix.source = NoId
        /\ fix.by = NoId /\ fix.of = {} /\ fix.status = "QUEUED"
    BY <1>2 DEF Fix, NewItem
  <2>2. fix.type # "RUN_TESTS"
    BY <2>1 DEF FixType
  <2>3. fix.type \in RetryingFixes => item[i].type \in RetriedTypes
    <3>1. PICK class : class = Class(i, worker[w].text)
      OBVIOUS
    <3>2. Action(item[i].type, class) = "spawn_fix_node" /\ fix.type = FixType(class)
      BY <1>3, <2>1, <3>1 DEF Rule
    <3>3. class \in RepairedClasses(item[i].type)
      BY <3>2 DEF Action
    <3>4. CASE item[i].type \in RetriedTypes
      BY <3>4
    <3>5. CASE item[i].type \notin RetriedTypes
      <4>1. class = "foundation_bootstrap_required"
        BY <3>3, <3>5 DEF RepairedClasses, RetriedTypes
      <4> QED
        BY <3>2, <4>1 DEF FixType, RetryingFixes
    <3> QED
      BY <3>4, <3>5
  <2> HIDE DEF fix
  <2> QED
    BY <1>3, <1>5, <1>7, <2>1, <2>2, <2>3 DEF IsNewRepair
<1>10. \A j \in Ids' : Pays(j)
  <2>1. \A j : j # i => TriesOf(j)' = TriesOf(j)
    BY <1>1, <1>4, OthersPayNothing
  <2> QED
    BY <1>3, <1>5, <1>7, <2>1 DEF Pays, IsOpen
<1>11. SizedForRepair
  <2>1. worker'[w].pc # "sized" /\ \A v \in Workers \ {w} : worker'[v] = worker[v]
    BY <1>1, <1>4 DEF Done, TypeOK, IdleWorker
  <2> QED
    BY <2>1, OthersSized
<1>12. \A j \in Ids' : j \notin Ids => j = n + 1
  BY <1>1, <1>7
<1> HIDE DEF n, fix
<1> QED
  BY <1>4, <1>8, <1>9, <1>10, <1>11, <1>12 DEF Passes

\* Reports of DONE that bring no retry.
LEMMA SuccessPasses ==
  ASSUME LineageInv, NEW w \in Workers, ReportDone(w) \/ ReportFixEscalated(w)
  PROVE  Passes
<1>1. JobInv /\ Busy(w) /\ worker[w].job \in Ids
  BY DEF ReportDone, ReportFixEscalated, LineageInv, JobInv, JobIsRunning, Busy
<1>2. PICK i \in Ids : worker[w].job = i
  BY <1>1
<1>3. Adds(i) /\ Done(w) /\ UNCHANGED edges /\ UNCHANGED tries
  BY DEF ReportDone, ReportFixEscalated, Adds
<1>4. PICK same : item' = [item EXCEPT ![i] = Reported(i, "DONE", {}, same)]
  BY <1>2 DEF ReportDone, ReportFixEscalated, Finish
<1> DEFINE r == Reported(i, "DONE", {}, same)
<1>5. /\ r.status = "DONE" /\ r.type = item[i].type /\ r.of = item[i].of
      /\ r.by = item[i].by /\ r.source = item[i].source /\ r.failed = item[i].failed
  BY <1>1, ReportedKeeps
<1>6. item' = [item EXCEPT ![i] = r]
  BY <1>4
<1>7. IsRepair(i) => ~(TriesOf(i)' > 0)
  <2> SUFFICES ASSUME IsRepair(i) PROVE TriesOf(i)' = 0
    OBVIOUS
  <2>1. item[i].status = "RUNNING"
    BY <1>1, <1>2 DEF JobInv, JobIsRunning
  <2>2. TriesOf(i) = 0
    BY <2>1 DEF LineageInv, RepairsSpendLast
  <2> QED
    BY <1>3, <2>2 DEF TriesOf
<1> HIDE DEF r
<1> QED
  BY <1>1, <1>2, <1>3, <1>5, <1>6, <1>7, ReportPasses

-----------------------------------------------------------------------------
(* The step that brings a retry.                                           *)

Brings(fix, old, new) ==
  /\ fix \in Ids /\ IsRepair(fix) /\ item[fix].status = "RUNNING" /\ item'[fix].status = "DONE"
  /\ old \subseteq Ids /\ item[fix].failed \in old
  /\ new \notin Ids /\ Ids' = Ids \cup {new} /\ \A i \in Ids : i < new
  /\ \A j \in Ids : /\ item'[j].type = item[j].type /\ item'[j].of = item[j].of
                    /\ item'[j].source = item[j].source /\ item'[j].failed = item[j].failed
  /\ \A j \in Ids \ old : item'[j].by = item[j].by /\ (j # fix => item'[j] = item[j])
  /\ \A j \in old : /\ item[j].status = "FAILED" /\ item'[j].status = "FAILED"
                    /\ item'[j].by = new /\ item[j].type = item'[new].type
                    /\ item'[j].text = item[j].text
  /\ item'[new].by = NoId /\ item'[new].source = fix /\ item'[new].status = "QUEUED"
  /\ item'[new].type \in RetriedTypes /\ item'[new].of = UNION {item[j].of : j \in old}
  /\ IF item'[new].type = "RUN_TESTS" THEN old = FailedTests ELSE old = {item[fix].failed}
  /\ edges' = Repoint(old, new) \cup {<<fix, new>>}
  /\ \A j \in Ids : j # fix => TriesOf(j)' = TriesOf(j)
  /\ SizedForRepair

\* What a repair failed for is not superseded before its retry.
LEMMA RepairedIsCurrent ==
  ASSUME LineageInv, NEW fix \in Ids, IsRepair(fix), ~HasRetry(fix)
  PROVE  /\ item[fix].failed \in Ids /\ ~Superseded(item[fix].failed)
         /\ item[item[fix].failed].status = "FAILED"
         /\ item[item[fix].failed].type \in RetriedTypes
  BY DEF LineageInv, RepairsAreOfFailures

LEMMA RunningHasNoRetry ==
  ASSUME LineageInv, NEW fix \in Ids, item[fix].status = "RUNNING"
  PROVE  ~HasRetry(fix)
<1>1. fix # NoId
  BY DEF LineageInv, JobInv, TypeOK, Ids, NoId
<1> QED
  BY <1>1 DEF LineageInv, RetriesAreOfRepairs, HasRetry

\* All that stands for the work of the superseded is superseded, ...
LEMMA OldIsAll ==
  ASSUME LineageInv, NEW fix, NEW old, NEW new, Brings(fix, old, new),
         NEW k \in Ids \ old, ~Superseded(k)
  PROVE  /\ item[k].of \cap item'[new].of = {}
         /\ item'[new].type = "RUN_TESTS" => item[k].type # "RUN_TESTS"
<1>1. /\ fix \in Ids /\ IsRepair(fix) /\ ~HasRetry(fix) /\ old \subseteq Ids
      /\ item[fix].failed \in old
      /\ \A j \in old : item[j].type = item'[new].type
  BY RunningHasNoRetry DEF Brings
<1>2. ~Superseded(item[fix].failed) /\ item[fix].failed \in Ids
  BY <1>1, RepairedIsCurrent
<1>3. CASE item'[new].type = "RUN_TESTS"
  <2>1. item[k].type # "RUN_TESTS"
    BY <1>1, <1>2, <1>3 DEF LineageInv, OneTestOpen
  <2>2. ASSUME NEW n \in item[k].of, n \in item'[new].of
        PROVE  FALSE
    <3>1. PICK j \in old : n \in item[j].of
      BY <2>2 DEF Brings
    <3>2. item[k].type = Graph[n] /\ item[j].type = Graph[n]
      BY <1>1, <3>1 DEF LineageInv, WorkKeepsItsType
    <3> QED
      BY <1>1, <1>3, <2>1, <3>2
  <2> QED
    BY <2>1, <2>2
<1>4. CASE item'[new].type # "RUN_TESTS"
  <2>1. old = {item[fix].failed} /\ item'[new].of = UNION {item[j].of : j \in old}
    BY <1>4 DEF Brings
  <2>2. item'[new].of = item[item[fix].failed].of
    BY <2>1
  <2> QED
    BY <1>1, <1>2, <1>4, <2>2 DEF LineageInv, DependentsFollow
<1> QED
  BY <1>3, <1>4

\* ... and no other repair waits to retry it.
LEMMA OldIsOfOne ==
  ASSUME LineageInv, NEW fix, NEW old, NEW new, Brings(fix, old, new),
         NEW g \in Ids, IsRepair(g), item[g].failed \in old, ~HasRetry(g)
  PROVE  g = fix
<1>1. /\ fix \in Ids /\ IsRepair(fix) /\ ~HasRetry(fix) /\ old \subseteq Ids
      /\ item[fix].failed \in old
      /\ \A j \in old : item[j].type = item'[new].type
  BY RunningHasNoRetry DEF Brings
<1>2. /\ ~Superseded(item[fix].failed) /\ item[fix].failed \in Ids
      /\ ~Superseded(item[g].failed) /\ item[g].failed \in Ids
  BY <1>1, RepairedIsCurrent
<1>3. item[g].failed = item[fix].failed
  <2>1. CASE item'[new].type = "RUN_TESTS"
    BY <1>1, <1>2, <2>1 DEF LineageInv, OneTestOpen
  <2>2. CASE item'[new].type # "RUN_TESTS"
    BY <2>2 DEF Brings
  <2> QED
    BY <2>1, <2>2
<1> QED
  BY <1>1, <1>3 DEF LineageInv, RepairsAreOfFailures

LEMMA RetryKeepsDependents ==
  ASSUME LineageInv, NEW fix, NEW old, NEW new, Brings(fix, old, new)
  PROVE  DependentsFollow'
<1>1. DependentsFollow /\ Ids' = Ids \cup {new} /\ old \subseteq Ids /\ new \notin Ids /\ NoId \notin Ids
  BY DEF LineageInv, Brings, Ids, NoId
<1>2. \A j \in Ids : /\ item'[j].type = item[j].type /\ item'[j].of = item[j].of
                     /\ j \notin old => item'[j].by = item[j].by /\ (j # fix => item'[j] = item[j])
  BY <1>1 DEF Brings
<1>3. /\ item'[new].by = NoId
      /\ \A j \in old : /\ item'[j].status = "FAILED" /\ item'[j].by = new /\ j < new
                        /\ item'[new].type = item'[j].type /\ item'[j].of \subseteq item'[new].of
  BY <1>1, <1>2 DEF Brings
<1>4. fix \in Ids \ old /\ item'[fix].by = NoId
  <2>1. fix \in Ids /\ item[fix].status = "RUNNING" /\ fix \notin old
    BY DEF Brings
  <2>2. item[fix].by = NoId
    BY <1>1, <2>1, OpenIsCurrent DEF IsOpen, Superseded
  <2> QED
    BY <1>2, <2>1, <2>2
<1>5. ASSUME NEW i \in Ids', item'[i].by # NoId
      PROVE  /\ item'[i].status = "FAILED" /\ item'[i].by > i
             /\ item'[item'[i].by].type = item'[i].type
             /\ item'[i].of \subseteq item'[item'[i].by].of
  <2>1. CASE i \in old
    BY <1>3, <2>1 DEF Brings
  <2>2. CASE i \notin old
    <3>1. i \in Ids /\ i # fix /\ item'[i] = item[i]
      BY <1>1, <1>2, <1>3, <1>4, <1>5, <2>2
    <3>2. item[i].by \in Ids
      <4>1. item[i].by \in 0 .. Len(item)
        BY <3>1, RowFields DEF LineageInv, JobInv, ItemRow
      <4> QED
        BY <1>5, <3>1, <4>1 DEF Ids, NoId
    <3>3. /\ item[i].status = "FAILED" /\ item[i].by > i
          /\ item[item[i].by].type = item[i].type
          /\ item[i].of \subseteq item[item[i].by].of
      BY <1>1, <1>5, <3>1 DEF DependentsFollow, Superseded
    <3> QED
      BY <1>2, <3>1, <3>2, <3>3
  <2> QED
    BY <2>1, <2>2
<1>6. ASSUME NEW i \in Ids', item'[i].by = NoId, i # new
      PROVE  /\ i \in Ids \ old /\ ~Superseded(i) /\ item'[i].of = item[i].of
             /\ item[i].of \cap item'[new].of = {}
  <2>1. i \in Ids \ old
    <3>1. new # NoId
      BY <1>4 DEF Brings, Ids, NoId, LineageInv, JobInv, TypeOK
    <3> QED
      BY <1>1, <1>3, <1>6, <3>1
  <2>2. ~Superseded(i) /\ item'[i].of = item[i].of
    BY <1>2, <1>6, <2>1 DEF Superseded
  <2> QED
    BY <2>1, <2>2, OldIsAll
<1>7. ASSUME NEW i \in Ids', NEW j \in Ids', item'[i].of \cap item'[j].of # {},
             item'[i].by = NoId, item'[j].by = NoId
      PROVE  i = j
  <2>1. CASE i # new /\ j # new
    <3>1. i \in Ids /\ j \in Ids /\ ~Superseded(i) /\ ~Superseded(j) /\ item[i].of \cap item[j].of # {}
      BY <1>6, <1>7, <2>1
    <3> QED
      BY <1>1, <3>1 DEF DependentsFollow
  <2>2. CASE i = new /\ j # new
    BY <1>6, <1>7, <2>2
  <2>3. CASE i # new /\ j = new
    BY <1>6, <1>7, <2>3
  <2> QED
    BY <2>1, <2>2, <2>3
<1>8. ASSUME NEW e \in edges'
      PROVE  item'[e[1]].by = NoId
  <2>1. CASE e \in edges \ Waiting(old)
    <3>1. e[1] \in Ids /\ e[1] \notin old /\ item[e[1]].by = NoId
      BY <1>1, <2>1 DEF LineageInv, JobInv, TypeOK, Waiting, DependentsFollow, Superseded
    <3> QED
      BY <1>2, <3>1
  <2>2. CASE e[1] = new \/ e[1] = fix
    BY <1>3, <1>4, <2>2
  <2>3. e \in edges \ Waiting(old) \/ e[1] = new \/ e[1] = fix
    BY DEF Brings, Repoint
  <2> QED
    BY <2>1, <2>2, <2>3
<1>9. ASSUME NEW e \in GraphEdges
      PROVE  \E i \in Ids' : e[1] \in item'[i].of /\ <<i, e[2]>> \in edges'
  <2>1. PICK i \in Ids : e[1] \in item[i].of /\ <<i, e[2]>> \in edges
    BY <1>1 DEF DependentsFollow
  <2>2. CASE i \in old
    <3>1. e[1] \in item'[new].of
      BY <1>2, <1>3, <2>1, <2>2
    <3>2. <<i, e[2]>> \in Waiting(old)
      BY <2>1, <2>2 DEF Waiting
    <3>3. <<new, e[2]>> \in edges'
      BY <3>2 DEF Brings, Repoint
    <3> QED
      BY <1>1, <3>1, <3>3
  <2>3. CASE i \notin old
    <3>1. <<i, e[2]>> \in edges \ Waiting(old)
      BY <2>1, <2>3 DEF Waiting
    <3>2. <<i, e[2]>> \in edges'
      BY <3>1 DEF Brings, Repoint
    <3> QED
      BY <1>1, <1>2, <2>1, <3>2
  <2> QED
    BY <2>2, <2>3
<1> QED
  BY <1>5, <1>7, <1>8, <1>9 DEF DependentsFollow, Superseded

LEMMA RetryKeepsRepairs ==
  ASSUME LineageInv, RowsFollow, NEW fix, NEW old, NEW new, Brings(fix, old, new)
  PROVE  RepairsAreOfFailures'
<1>1. /\ Ids' = Ids \cup {new} /\ old \subseteq Ids /\ new \notin Ids
      /\ \A j \in Ids : /\ item'[j].type = item[j].type /\ item'[j].failed = item[j].failed
                        /\ item'[j].source = item[j].source
                        /\ j \notin old => item'[j].by = item[j].by /\ (j # fix => item'[j] = item[j])
      /\ \A j \in old : item'[j].status = "FAILED"
      /\ item'[new].type \in RetriedTypes /\ item'[new].source = fix
      /\ item[fix].status = "RUNNING"
  BY DEF Brings
<1>2. \A w \in Workers : worker'[w].pc = "sized" =>
         Rule(worker[w].job, worker[w].text)' = "spawn_fix_node"
  BY SizedStays DEF Brings
<1>3. ASSUME NEW g \in Ids', IsRepair(g)'
      PROVE  g \in Ids /\ IsRepair(g) /\ item[g].failed \in Ids
             /\ item[item[g].failed].status = "FAILED" /\ item[item[g].failed].type \in RetriedTypes
             /\ (Superseded(item[g].failed) => HasRetry(g))
  <2>1. g \in Ids
    BY <1>1, <1>3 DEF IsRepair, RetryingFixes, RetriedTypes
  <2>2. IsRepair(g)
    BY <1>1, <1>3, <2>1 DEF IsRepair
  <2> QED
    BY <2>1, <2>2 DEF LineageInv, RepairsAreOfFailures
<1>4. ASSUME NEW g \in Ids', IsRepair(g)'
      PROVE  /\ item'[g].failed \in Ids' /\ item'[g].failed = item[g].failed
             /\ item'[item'[g].failed].status = "FAILED"
             /\ item'[item'[g].failed].type \in RetriedTypes
             /\ item'[item'[g].failed].by # NoId => HasRetry(g)'
  <2> DEFINE f == item[g].failed
  <2>1. f \in Ids /\ f # fix /\ item[f].status = "FAILED" /\ item[f].type \in RetriedTypes
        /\ item'[g].failed = f
    BY <1>1, <1>3, <1>4
  <2>2. item'[f].status = "FAILED" /\ item'[f].type = item[f].type
    BY <1>1, <2>1
  <2>3. ASSUME item'[f].by # NoId
        PROVE  HasRetry(g)'
    <3>1. CASE HasRetry(g)
      BY <1>1, <1>3, <1>4, <3>1, RetriesStay DEF LineageInv
    <3>2. CASE ~HasRetry(g)
      <4>1. f \in old
        BY <1>1, <1>3, <1>4, <2>1, <2>3, <3>2 DEF Superseded
      <4>2. g = fix
        BY <1>3, <1>4, <3>2, <4>1, OldIsOfOne
      <4> QED
        BY <1>1, <4>2 DEF HasRetry
    <3> QED
      BY <3>1, <3>2
  <2> QED
    BY <1>1, <2>1, <2>2, <2>3
<1>5. ASSUME NEW f \in Ids', NEW g \in Ids', IsRepair(f)', IsRepair(g)',
             item'[f].failed = item'[g].failed
      PROVE  f = g
  BY <1>3, <1>4, <1>5 DEF LineageInv, RepairsAreOfFailures
<1> QED
  BY <1>2, <1>4, <1>5 DEF RepairsAreOfFailures, Superseded

LEMMA RetryKeepsRetries ==
  ASSUME LineageInv, NEW fix, NEW old, NEW new, Brings(fix, old, new)
  PROVE  RetriesAreOfRepairs'
<1> SUFFICES ASSUME NEW j \in Ids', item'[j].source # NoId
             PROVE  /\ item'[j].source \in Ids'
                    /\ item'[item'[j].source].status = "DONE"
                    /\ <<item'[j].source, j>> \in edges'
  BY DEF RetriesAreOfRepairs
<1>1. CASE j = new
  BY <1>1 DEF Brings
<1>2. CASE j # new
  <2>1. j \in Ids /\ item'[j].source = item[j].source
    BY <1>2 DEF Brings
  <2> DEFINE s == item[j].source
  <2>2. s \in Ids /\ item[s].status = "DONE" /\ <<s, j>> \in edges
    BY <2>1 DEF LineageInv, RetriesAreOfRepairs
  <2>3. s \notin old /\ s # fix
    BY <2>2 DEF Brings
  <2>4. item'[s] = item[s] /\ <<s, j>> \in edges'
    BY <2>2, <2>3 DEF Brings, Repoint, Waiting
  <2>5. s \in Ids'
    BY <2>2 DEF Brings
  <2> QED
    BY <2>1, <2>2, <2>4, <2>5
<1> QED
  BY <1>1, <1>2

LEMMA RetryKeepsTypes ==
  ASSUME LineageInv, NEW fix, NEW old, NEW new, Brings(fix, old, new)
  PROVE  OneTestOpen' /\ WorkKeepsItsType' /\ RepairsSpendLast'
<1>1. OneTestOpen /\ WorkKeepsItsType /\ RepairsSpendLast /\ Ids \subseteq Nat \ {0}
  BY DEF LineageInv, Ids, JobInv, TypeOK
<1>2. OneTestOpen'
  <2>1. ASSUME NEW i \in Ids', item'[i].type = "RUN_TESTS", item'[i].by = NoId, i # new
        PROVE  i \in Ids /\ item[i].type = "RUN_TESTS" /\ ~Superseded(i) /\ item'[new].type # "RUN_TESTS"
    <3>1. i \in Ids /\ i \notin old
      <4>1. new # NoId
        BY <1>1 DEF Brings, NoId
      <4> QED
        BY <2>1, <4>1 DEF Brings
    <3>2. item[i].type = "RUN_TESTS" /\ ~Superseded(i)
      BY <2>1, <3>1 DEF Brings, Superseded
    <3> QED
      BY <3>1, <3>2, OldIsAll
  <2> QED
    BY <1>1, <2>1 DEF OneTestOpen, Superseded
<1>3. WorkKeepsItsType'
  <2> SUFFICES ASSUME NEW i \in Ids', NEW n \in item'[i].of
               PROVE  item'[i].type = Graph[n]
    BY DEF WorkKeepsItsType
  <2>1. CASE i = new
    <3>1. PICK j \in old : n \in item[j].of /\ j \in Ids /\ item[j].type = item'[new].type
      BY <2>1 DEF Brings
    <3> QED
      BY <1>1, <2>1, <3>1 DEF WorkKeepsItsType
  <2>2. CASE i # new
    BY <1>1, <2>2 DEF Brings, WorkKeepsItsType
  <2> QED
    BY <2>1, <2>2
<1>4. RepairsSpendLast'
  <2> SUFFICES ASSUME NEW g \in Ids', IsRepair(g)', item'[g].status \in {"QUEUED", "RUNNING"}
               PROVE  TriesOf(g)' = 0
    BY DEF RepairsSpendLast
  <2>1. g \in Ids /\ g # fix /\ IsRepair(g)
    BY DEF Brings, IsRepair, RetryingFixes, RetriedTypes
  <2>2. item[g].status \in {"QUEUED", "RUNNING"}
    BY <2>1 DEF Brings
  <2> QED
    BY <1>1, <2>1, <2>2 DEF Brings, RepairsSpendLast
<1> QED
  BY <1>2, <1>3, <1>4

LEMMA RetryKeepsUse ==
  ASSUME LineageInv, JobInv', RowsFollow, NEW fix, NEW old, NEW new, Brings(fix, old, new),
         RetriesAreOfRepairs'
  PROVE  RepairBringsRetry'
<1> SUFFICES ASSUME NEW g \in Ids', IsRepair(g)', item'[g].status = "DONE", TriesOf(g)' > 0
             PROVE  \/ \E j \in Ids' : item'[j].source = g /\ <<g, j>> \in edges'
                    \/ item'[item'[g].failed].type = "RUN_TESTS" /\ ~MayRetryTests'
  BY DEF RepairBringsRetry, IsRepair
<1>1. g \in Ids /\ IsRepair(g) /\ g # NoId
  <2>1. g \in Ids /\ IsRepair(g)
    BY DEF Brings, IsRepair
  <2> QED
    BY <2>1 DEF Ids, NoId, LineageInv, JobInv, TypeOK
<1>2. CASE HasRetry(g)' 
  BY <1>1, <1>2, RetriedIsUsed
<1>3. CASE ~HasRetry(g)'
  <2>1. g # fix
    BY <1>3 DEF Brings, HasRetry
  <2>2. ~HasRetry(g)
    BY <1>1, <1>3, RetriesStay DEF Brings, LineageInv
  <2>3. item[g].status = "DONE" /\ TriesOf(g) > 0
    BY <1>1, <2>1 DEF Brings
  <2>4. item[item[g].failed].type = "RUN_TESTS" /\ ~MayRetryTests
    BY <1>1, <2>2, <2>3 DEF LineageInv, RepairBringsRetry, HasRetry, IsRepair
  <2>5. item[g].failed \notin old
    BY <1>1, <2>1, <2>2, OldIsOfOne
  <2>6. item'[new].type # "RUN_TESTS"
    <3>1. item[g].failed \in FailedTests
      BY <1>1, <2>2, <2>4, RepairedIsCurrent DEF FailedTests
    <3> QED
      BY <2>5, <3>1 DEF Brings
  <2>7. \A i \in Ids : item[i].type = "RUN_TESTS" /\ item[i].status = "FAILED" => item'[i] = item[i]
    BY <2>6 DEF Brings
  <2>8. \A i \in Ids' : i \notin Ids => item'[i].status = "QUEUED"
    BY DEF Brings
  <2>9. item'[g].failed = item[g].failed
    BY <1>1 DEF Brings
  <2> QED
    BY <1>1, <2>2, <2>4, <2>7, <2>8, <2>9, UselessStays
<1> QED
  BY <1>2, <1>3

LEMMA RetryKeepsLineage ==
  ASSUME LineageInv, JobInv', RowsFollow, NEW fix, NEW old, NEW new, Brings(fix, old, new)
  PROVE  LineageInv'
<1>1. DependentsFollow' /\ RepairsAreOfFailures' /\ RetriesAreOfRepairs'
  BY RetryKeepsDependents, RetryKeepsRepairs, RetryKeepsRetries
<1>2. OneTestOpen' /\ WorkKeepsItsType' /\ RepairsSpendLast' /\ RepairBringsRetry'
  BY <1>1, RetryKeepsTypes, RetryKeepsUse
<1> QED
  BY <1>1, <1>2 DEF LineageInv

LEMMA SpawnBrings ==
  ASSUME LineageInv, NEW w \in Workers, Busy(w), Done(w), NEW fix \in Ids, worker[w].job = fix,
         Adds(fix), IsRepair(fix), NEW old, old \subseteq Ids, item[fix].failed \in old,
         NEW retry, retry.by = NoId, retry.source = fix, retry.status = "QUEUED",
         retry.type \in RetriedTypes, DOMAIN retry = DOMAIN NewItem("RUN_TESTS"),
         \A j \in old : item[j].status = "FAILED" /\ item[j].type = retry.type,
         IF retry.type = "RUN_TESTS" THEN old = FailedTests ELSE old = {item[fix].failed},
         SpawnRetry(w, old, retry)
  PROVE  Brings(fix, old, Len(item) + 1)
<1> DEFINE n == Len(item)
           new == n + 1
           works == UNION {item[j].of : j \in old}
           done == Reported(fix, "DONE", {}, 0)
           row(j) == IF j = fix THEN done
                     ELSE IF j \in old THEN [item[j] EXCEPT !.by = new] ELSE item[j]
           s == [j \in Ids |-> row(j)]
           last == [retry EXCEPT !.of = works]
<1>1. JobInv /\ TypeOK /\ n \in Nat /\ Ids = 1 .. n /\ item[fix].status = "RUNNING" /\ fix \notin old
  BY DEF LineageInv, JobInv, JobIsRunning, TypeOK, Ids
<1>2. item' = Append(s, last)
  BY DEF SpawnRetry
<1>3. /\ Ids' = 1 .. new /\ item'[new] = last /\ \A j \in Ids : item'[j] = row(j)
  <2> HIDE DEF row, last
  <2> QED
    BY <1>1, <1>2 DEF Ids
<1>4. /\ last.by = NoId /\ last.source = fix /\ last.status = "QUEUED"
      /\ last.type = retry.type /\ last.of = works
  <2> HIDE DEF works
  <2> QED
    BY DEF NewItem
<1> HIDE DEF last, works
<1>5. /\ done.status = "DONE" /\ done.type = item[fix].type /\ done.of = item[fix].of
      /\ done.by = item[fix].by /\ done.source = item[fix].source /\ done.failed = item[fix].failed
  BY <1>1, ReportedKeeps
<1> HIDE DEF done
<1>6. ASSUME NEW j \in old
      PROVE  /\ item'[j].by = new /\ item'[j].status = "FAILED"
             /\ item'[j].type = item[j].type /\ item'[j].of = item[j].of
             /\ item'[j].source = item[j].source /\ item'[j].failed = item[j].failed
             /\ item'[j].text = item[j].text
  <2>1. j \in Ids /\ j # fix /\ item[j] \in ItemRow(n)
    BY <1>1, RowFields
  <2>2. item'[j] = [item[j] EXCEPT !.by = new]
    BY <1>3, <2>1
  <2>3. item[j].status = "FAILED"
    OBVIOUS
  <2> HIDE DEF new
  <2> QED
    BY <2>1, <2>2, <2>3 DEF ItemRow
<1>7. item'[fix] = done /\ \A j \in Ids \ old : j # fix => item'[j] = item[j]
  BY <1>3, <1>1
<1> HIDE DEF row
<1>8. edges' = Repoint(old, new) \cup {<<fix, new>>}
  BY DEF SpawnRetry
<1>9. \A j \in Ids : j # fix => TriesOf(j)' = TriesOf(j)
  BY <1>1, OthersPayNothing
<1>10. SizedForRepair
  <2>1. worker'[w].pc # "sized" /\ \A v \in Workers \ {w} : worker'[v] = worker[v]
    BY <1>1 DEF Done, TypeOK, IdleWorker
  <2> QED
    BY <2>1, OthersSized
<1>11. new \notin Ids /\ Ids' = Ids \cup {new} /\ \A i \in Ids : i < new
  BY <1>1, <1>3
<1> HIDE DEF new
<1>12. /\ \A j \in Ids : /\ item'[j].type = item[j].type /\ item'[j].of = item[j].of
                         /\ item'[j].source = item[j].source /\ item'[j].failed = item[j].failed
       /\ \A j \in Ids \ old : item'[j].by = item[j].by /\ (j # fix => item'[j] = item[j])
       /\ \A j \in old : /\ item[j].status = "FAILED" /\ item'[j].status = "FAILED"
                         /\ item'[j].by = new /\ item[j].type = item'[new].type
                         /\ item'[j].text = item[j].text
  BY <1>3, <1>4, <1>5, <1>6, <1>7
<1>13. /\ item'[new].by = NoId /\ item'[new].source = fix /\ item'[new].status = "QUEUED"
       /\ item'[new].type \in RetriedTypes /\ item'[new].of = UNION {item[j].of : j \in old}
       /\ IF item'[new].type = "RUN_TESTS" THEN old = FailedTests ELSE old = {item[fix].failed}
  BY <1>3, <1>4 DEF works
<1>14. item'[fix].status = "DONE"
  BY <1>5, <1>7
<1>15. Brings(fix, old, new)
  BY <1>1, <1>8, <1>9, <1>10, <1>11, <1>12, <1>13, <1>14 DEF Brings
<1> QED
  BY <1>15 DEF new

LEMMA RetryOfFields ==
  ASSUME NEW i, NEW fix
  PROVE  LET r == RetryOf(i, fix)
         IN  /\ r.by = NoId /\ r.source = fix /\ r.status = "QUEUED" /\ r.type = item[i].type
             /\ DOMAIN r = DOMAIN NewItem("RUN_TESTS")
BY DEF RetryOf, NewItem

\* Only the row of item i gets another status.
Turning(i, to) == item'[i].status = to /\ \A j \in Ids \ {i} : item'[j].status = item[j].status

LEMMA RowTurns ==
  ASSUME TypeOK, NEW i \in Ids, NEW r, item' = [item EXCEPT ![i] = r]
  PROVE  Turning(i, r.status)
  BY DEF TypeOK, Ids, Turning

\* Reports of DONE of a repair, within the budget.
LEMMA FixBrings ==
  ASSUME LineageInv, NEW w \in Workers, ReportFix(w)
  PROVE  \E fix \in Ids :
            /\ worker[w].job = fix /\ IsRepair(fix)
            /\ (Passes /\ Turning(fix, "DONE")) \/ \E old, new : Brings(fix, old, new)
<1>1. JobInv /\ Busy(w) /\ worker[w].job \in Ids /\ item[worker[w].job].status = "RUNNING"
  <2>1. JobInv /\ Busy(w)
    BY DEF ReportFix, LineageInv, Busy
  <2> QED
    BY <2>1 DEF JobInv, JobIsRunning
<1>2. PICK fix \in Ids : worker[w].job = fix
  BY <1>1
<1> DEFINE failed == item[fix].failed
           latest == Latest(FailedTests)
           ofTests == [RetryOf(latest, fix) EXCEPT !.signature = item[latest].text]
           ofOne == [RetryOf(failed, fix) EXCEPT !.failed = failed]
<1>3. IsRepair(fix) /\ Done(w) /\ Adds(fix)
  BY <1>2, FailureTypeIs DEF ReportFix, IsRepair, Adds
<1>4. /\ failed \in Ids /\ ~Superseded(failed) /\ item[failed].status = "FAILED"
      /\ item[failed].type \in RetriedTypes /\ failed # NoId /\ ~HasRetry(fix)
  <2>1. ~HasRetry(fix)
    BY <1>1, <1>2, RunningHasNoRetry
  <2>2. /\ failed \in Ids /\ ~Superseded(failed) /\ item[failed].status = "FAILED"
        /\ item[failed].type \in RetriedTypes
    BY <1>3, <2>1, RepairedIsCurrent
  <2>3. \A i \in Ids : i # NoId
    BY DEF Ids, NoId
  <2> HIDE DEF failed
  <2> QED
    BY <2>1, <2>2, <2>3
<1>5. CASE item[failed].type = "RUN_TESTS" /\ MayRetryTests
  <2>1. SpawnRetry(w, FailedTests, ofTests)
    BY <1>2, <1>4, <1>5 DEF ReportFix
  <2>2. latest \in FailedTests
    <3>1. FailedTests \subseteq 1 .. Len(item) /\ FailedTests # {} /\ Len(item) \in Nat
      BY <1>1, <1>5 DEF FailedTests, MayRetryTests, Ids, JobInv, TypeOK
    <3>2. \E i \in FailedTests : \A j \in FailedTests : j <= i
      BY <3>1, Largest
    <3> QED
      BY <3>2 DEF Latest
  <2>3. /\ ofTests.by = NoId /\ ofTests.source = fix /\ ofTests.status = "QUEUED"
        /\ ofTests.type = "RUN_TESTS" /\ DOMAIN ofTests = DOMAIN NewItem("RUN_TESTS")
    <3> DEFINE retry == RetryOf(latest, fix)
               text == item[latest].text
    <3>1. item[latest].type = "RUN_TESTS"
      BY <2>2 DEF FailedTests
    <3>2. /\ retry.by = NoId /\ retry.source = fix /\ retry.status = "QUEUED"
          /\ retry.type = "RUN_TESTS" /\ DOMAIN retry = DOMAIN NewItem("RUN_TESTS")
      BY <3>1, RetryOfFields
    <3>3. ofTests = [retry EXCEPT !.signature = text]
      OBVIOUS
    <3> HIDE DEF retry, text, ofTests
    <3> QED
      BY <3>2, <3>3 DEF NewItem
  <2> DEFINE old == FailedTests
  <2>4. /\ old \subseteq Ids /\ failed \in old /\ "RUN_TESTS" \in RetriedTypes
        /\ \A j \in old : item[j].status = "FAILED" /\ item[j].type = "RUN_TESTS"
    BY <1>4, <1>5 DEF FailedTests, RetriedTypes
  <2>5. Brings(fix, old, Len(item) + 1)
    <3> HIDE DEF ofTests
    <3> QED
      BY <1>1, <1>2, <1>3, <2>1, <2>3, <2>4, SpawnBrings
  <2> HIDE DEF failed, latest, ofTests, ofOne
  <2> QED
    BY <1>2, <1>3, <2>5
<1>6. CASE item[failed].type # "RUN_TESTS"
  <2>1. SpawnRetry(w, {failed}, ofOne)
    <3>1. MayRetry(failed, fix)
      BY <1>4 DEF MayRetry, HasRetry
    <3>2. item[failed].type \in {"FRAMEWORK_VALIDATE", "CODE_FRONTEND"}
      BY <1>4, <1>6 DEF RetriedTypes
    <3> QED
      BY <1>2, <1>4, <3>1, <3>2 DEF ReportFix
  <2>2. /\ ofOne.by = NoId /\ ofOne.source = fix /\ ofOne.status = "QUEUED"
        /\ ofOne.type = item[failed].type /\ DOMAIN ofOne = DOMAIN NewItem("RUN_TESTS")
    <3> DEFINE retry == RetryOf(failed, fix)
    <3>1. /\ retry.by = NoId /\ retry.source = fix /\ retry.status = "QUEUED"
          /\ retry.type = item[failed].type /\ DOMAIN retry = DOMAIN NewItem("RUN_TESTS")
      BY RetryOfFields
    <3>2. ofOne = [retry EXCEPT !.failed = failed]
      OBVIOUS
    <3> HIDE DEF retry, failed, ofOne
    <3> QED
      BY <3>1, <3>2 DEF NewItem
  <2> DEFINE old == {failed}
  <2>3. /\ old \subseteq Ids /\ failed \in old /\ old = {item[fix].failed}
        /\ \A j \in old : item[j].status = "FAILED" /\ item[j].type = item[failed].type
        /\ SpawnRetry(w, old, ofOne)
    BY <1>4, <2>1
  <2>4. Brings(fix, old, Len(item) + 1)
    <3> HIDE DEF ofOne, old
    <3> QED
      BY <1>1, <1>2, <1>3, <1>4, <1>6, <2>2, <2>3, SpawnBrings
  <2> HIDE DEF failed, latest, ofTests, ofOne
  <2> QED
    BY <1>2, <1>3, <2>4
<1>7. CASE item[failed].type = "RUN_TESTS" /\ ~MayRetryTests
  <2> DEFINE r == Reported(fix, "DONE", {}, 0)
  <2>1. item' = [item EXCEPT ![fix] = r] /\ UNCHANGED edges
    BY <1>2, <1>4, <1>7 DEF ReportFix
  <2>2. /\ r.status = "DONE" /\ r.type = item[fix].type /\ r.of = item[fix].of
        /\ r.by = item[fix].by /\ r.source = item[fix].source /\ r.failed = item[fix].failed
    BY <1>1, ReportedKeeps
  <2>3. ~IsOpen(r)
    BY <2>2 DEF IsOpen
  <2> HIDE DEF r
  <2>4. Passes
    BY <1>1, <1>2, <1>3, <1>7, <2>1, <2>2, <2>3, ReportPasses
  <2>5. Turning(fix, "DONE")
    BY <1>1, <2>1, <2>2, RowTurns DEF JobInv
  <2> HIDE DEF failed, latest, ofTests, ofOne
  <2> QED
    BY <1>2, <1>3, <2>4, <2>5
<1> HIDE DEF failed, latest, ofTests, ofOne
<1> QED
  BY <1>5, <1>6, <1>7

LEMMA StepKeepsLineage ==
  ASSUME LineageInv, [Next]_vars
  PROVE  LineageInv'
<1>1. JobInv' /\ RowsFollow
  BY StepKeeps DEF LineageInv
<1>2. PICK someone \in Workers : TRUE
  OBVIOUS
<1>3. CASE PassLimit \/ UNCHANGED vars
  BY <1>1, <1>2, <1>3, AdmissionPasses, PassingKeepsLineage
<1>4. CASE \E w \in Workers, i \in Ids : Claim(w, i)
  BY <1>1, <1>4, QueuePasses, PassingKeepsLineage
<1>5. CASE \E i \in Ids : Reclaim(i)
  BY <1>1, <1>5, QueuePasses, PassingKeepsLineage
<1>6. CASE \E w \in Workers : Abandon(w)
  BY <1>1, <1>6, AdmissionPasses, PassingKeepsLineage
<1>7. ASSUME NEW w \in Workers, Report(w)
      PROVE  LineageInv'
  <2>1. CASE (\E text \in Texts, raised \in BOOLEAN : CheckBudget(w, text, raised)) \/ CountFixes(w)
    BY <1>1, <2>1, AdmissionPasses, PassingKeepsLineage
  <2>2. CASE CommitFix(w) /\ worker[w].room
    BY <1>1, <2>2, RepairPasses, PassingKeepsLineage
  <2>3. CASE \/ \E text \in Texts, raised \in BOOLEAN : FailUnrecovered(w, text, raised)
             \/ Escalate(w) \/ CommitRetry(w) \/ CommitBlock(w)
             \/ CommitFix(w) /\ ~worker[w].room
    BY <1>1, <2>3, FailurePasses, PassingKeepsLineage
  <2>4. CASE ReportDone(w) \/ ReportFixEscalated(w)
    BY <1>1, <2>4, SuccessPasses, PassingKeepsLineage
  <2>5. CASE ReportFix(w)
    BY <1>1, <2>5, FixBrings, PassingKeepsLineage, RetryKeepsLineage
  <2> QED
    BY <1>7, <2>1, <2>2, <2>3, <2>4, <2>5 DEF Report, ReportFailed
<1> QED
  BY <1>3, <1>4, <1>5, <1>6, <1>7 DEF Next

LEMMA InitKeepsLineage == Init => LineageInv
<1> SUFFICES ASSUME Init PROVE LineageInv
  OBVIOUS
<1> USE GraphAssumption
<1>1. JobInv
  BY InitIsTyped
<1>2. /\ Ids = 1 .. Len(Graph) /\ DOMAIN Graph = 1 .. Len(Graph) /\ Len(Graph) \in Nat
      /\ \A i \in Ids : /\ item[i].type = Graph[i] /\ item[i].of = {i} /\ item[i].by = NoId
                        /\ item[i].source = NoId
  BY DEF Init, Ids, NewItem
<1>3. \A i \in Ids : ~IsRepair(i)
  BY <1>2 DEF IsRepair
<1>4. DependentsFollow
  <2>1. ASSUME NEW e \in GraphEdges
        PROVE  e[1] \in Ids /\ e[1] \in item[e[1]].of /\ <<e[1], e[2]>> \in edges
    <3>1. e \in (1 .. Len(Graph)) \X (1 .. Len(Graph)) /\ e \in edges
      BY DEF Init
    <3>2. e = <<e[1], e[2]>> /\ e[1] \in 1 .. Len(Graph)
      BY <3>1
    <3> QED
      BY <1>2, <3>1, <3>2
  <2>2. \A e \in edges : ~Superseded(e[1])
    BY <1>2, <2>1 DEF Init, Superseded
  <2>3. \A i \in Ids : ~Superseded(i)
    BY <1>2 DEF Superseded
  <2>4. \A i, j \in Ids : item[i].of \cap item[j].of # {} => i = j
    BY <1>2
  <2>5. \A e \in GraphEdges : \E i \in Ids : e[1] \in item[i].of /\ <<i, e[2]>> \in edges
    BY <2>1
  <2> QED
    BY <2>2, <2>3, <2>4, <2>5 DEF DependentsFollow
<1>5. RepairsAreOfFailures
  BY <1>3 DEF RepairsAreOfFailures, Init, IdleWorker
<1>6. RetriesAreOfRepairs /\ OneTestOpen /\ WorkKeepsItsType
  BY <1>2 DEF RetriesAreOfRepairs, OneTestOpen, WorkKeepsItsType
<1>7. RepairsSpendLast /\ RepairBringsRetry
  BY <1>3 DEF RepairsSpendLast, RepairBringsRetry, IsRepair
<1> QED
  BY <1>1, <1>4, <1>5, <1>6, <1>7 DEF LineageInv

\* Whatever is retried and repaired, in whatever order reports commit: what waited
\* for an item of the graph waits for the one row that now stands for it, and no
\* row waits for one that a _spawn_*_retry has superseded.
THEOREM DependentsAreKept == Spec => []DependentsFollow
<1>1. LineageInv /\ [Next]_vars => LineageInv'
  BY StepKeepsLineage
<1>2. LineageInv => DependentsFollow
  BY DEF LineageInv
<1> QED
  BY InitKeepsLineage, <1>1, <1>2, PTL DEF Spec

\* No repair is paid for in vain: one that is done, and for which an attempt was
\* spent, has brought a retry that waits for it, or the failed tests that it
\* repaired have reached the cap of their signature.
THEOREM PaidRepairsAreUsed == Spec => []RepairBringsRetry
<1>1. LineageInv /\ [Next]_vars => LineageInv'
  BY StepKeepsLineage
<1>2. LineageInv => RepairBringsRetry
  BY DEF LineageInv
<1> QED
  BY InitKeepsLineage, <1>1, <1>2, PTL DEF Spec

-----------------------------------------------------------------------------
(* Without the rows: RecoveryPolicy implements WorkGraph.                  *)

\* What a step does to the statuses and the attempts: nothing, ...
Rests == UNCHANGED <<item, tries>>
\* ... an execution begins, ...
Begins(i) == Runnable(i) /\ Turning(i, "RUNNING") /\ UNCHANGED tries
\* ... or ends, unrepaired, ...
Ends(i, to) ==
  /\ item[i].status = "RUNNING" /\ Turning(i, to) /\ Adds(i)
  /\ to = "DONE" => IsRepair(i) \/ UNCHANGED tries
\* ... or a retry is brought, for one attempt.
OneMoreTry == Len(tries') = Len(tries) + 1
\* Without an attempt nothing is queued.
Settles(to) ==
  /\ to = "QUEUED" => OneMoreTry /\ Len(item') = Len(item)
  /\ UNCHANGED tries => Len(item') = Len(item)
Retried(fix, old, new) == Brings(fix, old, new) /\ OneMoreTry

LEMMA QueueTurns ==
  ASSUME JobInv
  PROVE  /\ \A w \in Workers, i \in Ids : Claim(w, i) => Begins(i)
         /\ \A i \in Ids : Reclaim(i) => Ends(i, "QUEUED")
<1>1. TypeOK
  BY DEF JobInv
<1>2. ASSUME NEW w \in Workers, NEW i \in Ids, Claim(w, i)
      PROVE  Begins(i)
  <2> DEFINE r == [item[i] EXCEPT !.status = "RUNNING"]
  <2>1. r.status = "RUNNING"
    BY <1>1, RowFields DEF ItemRow
  <2>2. item' = [item EXCEPT ![i] = r] /\ Runnable(i) /\ UNCHANGED tries
    BY <1>2 DEF Claim
  <2> HIDE DEF r
  <2> QED
    BY <1>1, <2>1, <2>2, RowTurns DEF Begins
<1>3. ASSUME NEW i \in Ids, Reclaim(i)
      PROVE  Ends(i, "QUEUED")
  <2> DEFINE r == [item[i] EXCEPT !.status = "QUEUED"]
  <2>1. r.status = "QUEUED"
    BY <1>1, RowFields DEF ItemRow
  <2>2. item' = [item EXCEPT ![i] = r] /\ item[i].status = "RUNNING" /\ UNCHANGED tries
    BY <1>3 DEF Reclaim, Leased
  <2> HIDE DEF r
  <2> QED
    BY <1>1, <2>1, <2>2, RowTurns DEF Ends, Adds
<1> QED
  BY <1>2, <1>3

LEMMA TriedOnce ==
  ASSUME TypeOK, NEW w \in Workers, Attempted(w)
  PROVE  OneMoreTry /\ ~UNCHANGED tries
<1>1. ASSUME NEW row, tries' = Append(tries, row)
      PROVE  OneMoreTry
  BY <1>1 DEF OneMoreTry, TypeOK
<1>2. OneMoreTry
  BY <1>1 DEF Attempted, Try
<1>3. Len(tries) \in Nat
  BY DEF TypeOK
<1> QED
  BY <1>2, <1>3 DEF OneMoreTry

LEMMA FailureTurns ==
  ASSUME JobInv, NEW w \in Workers,
         \/ \E text \in Texts, raised \in BOOLEAN : FailUnrecovered(w, text, raised)
         \/ Escalate(w)
         \/ CommitRetry(w)
         \/ CommitBlock(w)
         \/ CommitFix(w)
  PROVE  \E i \in Ids, to \in {"FAILED", "QUEUED"} : Ends(i, to) /\ Settles(to)
<1>1. TypeOK /\ Busy(w) /\ worker[w].job \in Ids
  BY DEF FailUnrecovered, Escalate, CommitRetry, CommitBlock, CommitFix, JobInv, JobIsRunning, Busy
<1>2. PICK i \in Ids : worker[w].job = i
  BY <1>1
<1>3. Adds(i) /\ item[i].status = "RUNNING"
  BY <1>1, <1>2, AttemptAdds DEF FailUnrecovered, Escalate, CommitRetry, CommitBlock, CommitFix,
     Adds, JobInv, JobIsRunning
<1> DEFINE row == FailedRow(w)
<1>4. row.status = "FAILED"
  BY <1>1, FailedRowIs
<1>0. ASSUME NEW r, item' = [item EXCEPT ![i] = r]
      PROVE  Len(item') = Len(item)
  BY <1>0, <1>1 DEF TypeOK, Ids
<1>5. CASE \E text \in Texts, raised \in BOOLEAN : FailUnrecovered(w, text, raised)
  <2>1. PICK text, same : item' = [item EXCEPT ![i] = Reported(i, "FAILED", text, same)]
    BY <1>2, <1>5 DEF FailUnrecovered
  <2>2. Reported(i, "FAILED", text, same).status = "FAILED"
    BY ReportedKeeps
  <2> QED
    BY <1>0, <1>1, <1>3, <2>1, <2>2, RowTurns DEF Ends, Settles
<1>6. CASE Escalate(w) \/ CommitBlock(w) \/ (CommitFix(w) /\ ~worker[w].room)
  <2>1. item' = [item EXCEPT ![i] = row]
    BY <1>2, <1>6 DEF Escalate, CommitBlock, CommitFix
  <2> HIDE DEF row
  <2> QED
    BY <1>0, <1>1, <1>3, <1>4, <2>1, RowTurns DEF Ends, Settles
<1>7. CASE CommitFix(w) /\ worker[w].room
  <2> DEFINE fix == Fix(w)
  <2>1. item' = Append([item EXCEPT ![i] = row], fix)
    BY <1>2, <1>7 DEF CommitFix
  <2> HIDE DEF row, fix
  <2>2. Turning(i, "FAILED")
    BY <1>1, <1>4, <2>1 DEF Turning, TypeOK, Ids
  <2>3. ~UNCHANGED tries
    BY <1>1, <1>7, TriedOnce DEF CommitFix
  <2> QED
    BY <1>3, <2>2, <2>3 DEF Ends, Settles
<1>8. CASE CommitRetry(w)
  <2>1. CASE ~RetriesLeft(i)
    <3>1. item' = [item EXCEPT ![i] = row]
      BY <1>2, <1>8, <2>1 DEF CommitRetry
    <3> HIDE DEF row
    <3> QED
      BY <1>0, <1>1, <1>3, <1>4, <3>1, RowTurns DEF Ends, Settles
  <2>2. CASE RetriesLeft(i)
    <3> DEFINE attempt == row.attempt + 1
               r == [row EXCEPT !.status = "QUEUED", !.attempt = attempt, !.action = "retry"]
    <3>1. item' = [item EXCEPT ![i] = r]
      BY <1>2, <1>8, <2>2 DEF CommitRetry
    <3>2. row \in ItemRow(Len(item))
      BY <1>1, FailedRowIs
    <3>3. r.status = "QUEUED"
      <4> HIDE DEF row, attempt
      <4> QED
        BY <3>2 DEF ItemRow
    <3>4. OneMoreTry
      BY <1>1, <1>8, TriedOnce DEF CommitRetry
    <3> HIDE DEF r, row
    <3> QED
      BY <1>0, <1>1, <1>3, <3>1, <3>3, <3>4, RowTurns DEF Ends, Settles
  <2> QED
    BY <2>1, <2>2
<1> QED
  BY <1>5, <1>6, <1>7, <1>8

LEMMA SuccessTurns ==
  ASSUME JobInv, NEW w \in Workers, ReportDone(w) \/ ReportFixEscalated(w)
  PROVE  \E i \in Ids : Ends(i, "DONE") /\ Settles("DONE")
<1>1. TypeOK /\ Busy(w) /\ worker[w].job \in Ids
  BY DEF ReportDone, ReportFixEscalated, JobInv, JobIsRunning, Busy
<1>2. PICK i \in Ids : worker[w].job = i
  BY <1>1
<1>3. UNCHANGED tries /\ item[i].status = "RUNNING"
  BY <1>1, <1>2 DEF ReportDone, ReportFixEscalated, JobInv, JobIsRunning
<1>4. PICK same : item' = [item EXCEPT ![i] = Reported(i, "DONE", {}, same)]
  BY <1>2 DEF ReportDone, ReportFixEscalated, Finish
<1>5. Reported(i, "DONE", {}, same).status = "DONE"
  BY ReportedKeeps
<1>6. Len(item') = Len(item)
  BY <1>1, <1>4 DEF TypeOK, Ids
<1> QED
  BY <1>1, <1>3, <1>4, <1>5, <1>6, RowTurns DEF Ends, Adds, Settles

LEMMA FixTurns ==
  ASSUME LineageInv, NEW w \in Workers, ReportFix(w)
  PROVE  \/ Passes /\ \E i \in Ids : Ends(i, "DONE") /\ Settles("DONE")
         \/ \E fix \in Ids : \E old, new : Retried(fix, old, new)
<1>1. PICK fix \in Ids :
         /\ worker[w].job = fix /\ IsRepair(fix)
         /\ (Passes /\ Turning(fix, "DONE")) \/ \E old, new : Brings(fix, old, new)
  BY FixBrings
<1>2. item[fix].status = "RUNNING"
  BY <1>1 DEF ReportFix, LineageInv, JobInv, JobIsRunning, Busy
<1>3. tries' = Try(fix, FailureType("fix_applied"))
  BY <1>1 DEF ReportFix
<1>4. Adds(fix)
  BY <1>3, FailureTypeIs DEF Adds
<1>5. OneMoreTry
  BY <1>3 DEF OneMoreTry, Try, LineageInv, JobInv, TypeOK
<1>6. ~UNCHANGED tries
  BY <1>5 DEF OneMoreTry, LineageInv, JobInv, TypeOK
<1> QED
  BY <1>1, <1>2, <1>4, <1>5, <1>6 DEF Ends, Retried, Settles

LEMMA StepTurns ==
  ASSUME LineageInv, [Next]_vars
  PROVE  \/ Passes /\ Rests
         \/ Passes /\ \E i \in Ids : Begins(i)
         \/ Passes /\ \E i \in Ids, to \in {"QUEUED", "DONE", "FAILED"} : Ends(i, to)
         \/ \E fix \in Ids : \E old, new : Retried(fix, old, new)
<1>0. JobInv
  BY DEF LineageInv
<1>2. PICK someone \in Workers : TRUE
  OBVIOUS
<1>3. CASE PassLimit \/ UNCHANGED vars
  BY <1>2, <1>3, AdmissionPasses DEF PassLimit, vars, Rests
<1>4. CASE \E w \in Workers, i \in Ids : Claim(w, i)
  BY <1>0, <1>4, QueuePasses, QueueTurns
<1>5. CASE \E i \in Ids : Reclaim(i)
  BY <1>0, <1>5, QueuePasses, QueueTurns
<1>6. CASE \E w \in Workers : Abandon(w)
  BY <1>6, AdmissionPasses DEF Abandon, Rests
<1>7. ASSUME NEW w \in Workers, Report(w)
      PROVE  \/ Passes /\ Rests
             \/ Passes /\ \E i \in Ids, to \in {"QUEUED", "DONE", "FAILED"} : Ends(i, to)
             \/ \E fix \in Ids : \E old, new : Retried(fix, old, new)
  <2>1. CASE (\E text \in Texts, raised \in BOOLEAN : CheckBudget(w, text, raised)) \/ CountFixes(w)
    <3>1. Rests
      <4>1. CASE CountFixes(w)
        BY <4>1 DEF CountFixes, Rests
      <4>2. ASSUME NEW text \in Texts, NEW raised \in BOOLEAN, CheckBudget(w, text, raised)
            PROVE  Rests
        BY <4>2 DEF CheckBudget, Rests
      <4> QED
        BY <2>1, <4>1, <4>2
    <3> QED
      BY <2>1, <3>1, AdmissionPasses
  <2>2. CASE CommitFix(w) /\ worker[w].room
    BY <1>0, <2>2, RepairPasses, FailureTurns
  <2>3. CASE \/ \E text \in Texts, raised \in BOOLEAN : FailUnrecovered(w, text, raised)
             \/ Escalate(w) \/ CommitRetry(w) \/ CommitBlock(w)
             \/ CommitFix(w) /\ ~worker[w].room
    BY <1>0, <2>3, FailurePasses, FailureTurns
  <2>4. CASE ReportDone(w) \/ ReportFixEscalated(w)
    BY <1>0, <2>4, SuccessPasses, SuccessTurns
  <2>5. CASE ReportFix(w)
    BY <2>5, FixTurns
  <2> QED
    BY <1>7, <2>1, <2>2, <2>3, <2>4, <2>5 DEF Report, ReportFailed
<1> QED
  BY <1>3, <1>4, <1>5, <1>6, <1>7 DEF Next

LEMMA RepairsDoNoWork ==
  ASSUME LineageInv, NEW i \in Ids, IsRepair(i)
  PROVE  item[i].of = {}
<1>1. item[i].of \subseteq DOMAIN Graph
  BY RowFields DEF LineageInv, JobInv, ItemRow
<1> QED
  BY <1>1, GraphAssumption DEF LineageInv, WorkKeepsItsType, IsRepair

\* Who may start finds done, or failed without blocking, all that the node waits for.
LEMMA RunnableIsReady ==
  ASSUME LineageInv, NEW i \in Ids, Runnable(i), NEW e \in GraphEdges, e[2] = i
  PROVE  \E j \in Ids : e[1] \in item[j].of /\ Passed(item[j]) /\ ~Superseded(j)
<1>1. PICK j \in Ids : e[1] \in item[j].of /\ <<j, i>> \in edges
  BY DEF LineageInv, DependentsFollow
<1>2. Satisfied(j)
  BY <1>1 DEF Runnable
<1>3. ~Superseded(j)
  BY <1>1 DEF LineageInv, DependentsFollow
<1> QED
  BY <1>1, <1>2, <1>3 DEF Satisfied, Blocking, Passed

LEMMA PassingKeepsStanding ==
  ASSUME LineageInv, RowsFollow, Passes
  PROVE  \A n : Standing(n)' = Standing(n) /\ Standing(n) \subseteq Ids
<1> SUFFICES ASSUME NEW n PROVE Standing(n)' = Standing(n)
  BY DEF Standing
<1>1. Ids \subseteq Ids'
  BY MoreIds DEF LineageInv
<1>2. \A i \in Ids : item'[i].of = item[i].of /\ item'[i].by = item[i].by
  BY DEF Passes, Keeps
<1>3. \A i \in Ids' : i \notin Ids => item'[i].of = {}
  BY DEF Passes, IsNewRepair
<1> QED
  BY <1>1, <1>2, <1>3 DEF Standing, Superseded

StartsReady == \A i \in Ids : item[i].status = "QUEUED" /\ item'[i].status # "QUEUED" => Runnable(i)

LEMMA PassingKeepsGraph ==
  ASSUME LineageInv, GraphInv, RowsFollow, Passes, StartsReady
  PROVE  GraphInv'
<1>1. Ids \subseteq Ids'
  BY MoreIds DEF LineageInv
<1>2. \A i \in Ids : item'[i].of = item[i].of /\ (Passed(item[i]) => Passed(item'[i]))
  BY DEF Passes, Keeps, IsOpen, Passed
<1>3. \A i \in Ids' : i \notin Ids => item'[i].of = {}
  BY DEF Passes, IsNewRepair
<1>4. NobodyIsLost'
  BY PassingKeepsStanding DEF GraphInv, NobodyIsLost
<1>5. OneNode' /\ NodesAreRows'
  BY <1>1, <1>2, <1>3 DEF GraphInv, OneNode, NodesAreRows
<1>6. ASSUME NEW e \in GraphEdges, NEW i \in Ids', e[2] \in item'[i].of,
             i # e[2] \/ item'[i].status # "QUEUED"
      PROVE  \E j \in Ids' : e[1] \in item'[j].of /\ Passed(item'[j])
  <2>1. i \in Ids /\ e[2] \in item[i].of
    BY <1>2, <1>3, <1>6
  <2>2. \E j \in Ids : e[1] \in item[j].of /\ Passed(item[j])
    <3>1. CASE i # e[2] \/ item[i].status # "QUEUED"
      BY <2>1, <3>1 DEF GraphInv, OrderKept
    <3>2. CASE i = e[2] /\ item[i].status = "QUEUED"
      <4>1. Runnable(i)
        BY <1>6, <2>1, <3>2 DEF StartsReady
      <4> QED
        BY <2>1, <3>2, <4>1, RunnableIsReady
    <3> QED
      BY <3>1, <3>2
  <2> QED
    BY <1>1, <1>2, <2>2
<1> QED
  BY <1>4, <1>5, <1>6 DEF GraphInv, OrderKept

\* The retry stands for the nodes of the superseded, which is at most one.
LEMMA RetryStands ==
  ASSUME LineageInv, GraphInv, NEW fix, NEW old, NEW new, Brings(fix, old, new), NEW n
  PROVE  /\ Standing(n)' = IF n \in item'[new].of THEN {new} ELSE Standing(n)
         /\ n \in item'[new].of => Standing(n) \subseteq old
<1>1. /\ Ids' = Ids \cup {new} /\ new \notin Ids /\ old \subseteq Ids /\ new # NoId /\ fix \in Ids \ old
      /\ item'[new].by = NoId
  <2>1. new # NoId
    BY DEF Brings, Ids, NoId, LineageInv, JobInv, TypeOK
  <2> QED
    BY <2>1 DEF Brings
<1>2. /\ \A i \in Ids : item'[i].of = item[i].of
      /\ \A i \in Ids \ old : item'[i].by = item[i].by
      /\ \A i \in old : item'[i].by = new
  BY DEF Brings
<1>3. \A i \in old : item[i].of \subseteq item'[new].of
  BY DEF Brings
<1>4. \A i \in Ids \ old : i \in Standing(n) => n \notin item'[new].of
  BY OldIsAll DEF Standing
<1>5. \A i \in Ids \ old : i \in Standing(n)' <=> i \in Standing(n)
  BY <1>1, <1>2 DEF Standing, Superseded
<1>6. \A i \in old : i \notin Standing(n)' /\ (i \in Standing(n) => n \in item'[new].of)
  BY <1>1, <1>2, <1>3 DEF Standing, Superseded
<1>7. new \in Standing(n)' <=> n \in item'[new].of
  BY <1>1 DEF Standing, Superseded
<1>8. Standing(n) \subseteq Ids /\ Standing(n)' \subseteq Ids'
  BY DEF Standing
<1>9. CASE n \in item'[new].of
  BY <1>1, <1>4, <1>5, <1>6, <1>7, <1>8, <1>9
<1>10. CASE n \notin item'[new].of
  <2>1. new \notin Standing(n)' /\ Standing(n)' \subseteq Ids
    BY <1>1, <1>7, <1>8, <1>10
  <2>2. \A i \in Ids : i \in Standing(n)' <=> i \in Standing(n)
    BY <1>5, <1>6, <1>10
  <2>3. Standing(n)' = Standing(n)
    BY <1>8, <2>1, <2>2
  <2> QED
    BY <1>10, <2>3
<1> QED
  BY <1>9, <1>10

LEMMA RetryKeepsGraph ==
  ASSUME LineageInv, GraphInv, NEW fix, NEW old, NEW new, Brings(fix, old, new)
  PROVE  GraphInv'
<1>1. /\ Ids' = Ids \cup {new} /\ old \subseteq Ids /\ fix \in Ids /\ item[fix].status = "RUNNING"
      /\ item'[new].of = UNION {item[j].of : j \in old}
      /\ \A i \in Ids : item'[i].of = item[i].of
      /\ \A i \in old : /\ item[i].status = "FAILED" /\ item'[i].status = "FAILED"
                        /\ item'[i].type = item[i].type /\ item'[i].text = item[i].text
      /\ \A i \in Ids \ old : i # fix => item'[i] = item[i]
  BY DEF Brings
<1>2. NobodyIsLost'
  <2> SUFFICES ASSUME NEW n \in DOMAIN Graph PROVE Standing(n)' # {}
    BY DEF NobodyIsLost
  <2>1. Standing(n)' = IF n \in item'[new].of THEN {new} ELSE Standing(n)
    BY RetryStands
  <2> QED
    BY <2>1 DEF GraphInv, NobodyIsLost
<1>3. \A m, n \in item'[new].of : m = n
  <2>1. CASE item'[new].type = "RUN_TESTS"
    <3> SUFFICES ASSUME NEW m \in item'[new].of, NEW n \in item'[new].of PROVE m = n
      OBVIOUS
    <3>1. PICK i \in old, j \in old : m \in item[i].of /\ n \in item[j].of
      BY <1>1
    <3>2. item[i].type = "RUN_TESTS" /\ item[j].type = "RUN_TESTS"
      BY <2>1, <3>1 DEF Brings
    <3>3. i \in Ids /\ j \in Ids /\ Graph[m] = "RUN_TESTS" /\ Graph[n] = "RUN_TESTS"
      BY <1>1, <3>1, <3>2 DEF LineageInv, WorkKeepsItsType
    <3>4. m \in DOMAIN Graph /\ n \in DOMAIN Graph
      BY <3>1, <3>3, RowFields DEF LineageInv, JobInv, ItemRow
    <3> QED
      BY <3>3, <3>4, GraphAssumption
  <2>2. CASE item'[new].type # "RUN_TESTS"
    <3>1. old = {item[fix].failed}
      BY <2>2 DEF Brings
    <3>2. item'[new].of = item[item[fix].failed].of /\ item[fix].failed \in Ids
      BY <1>1, <3>1
    <3> QED
      BY <3>2 DEF GraphInv, OneNode
  <2> QED
    BY <2>1, <2>2
<1>4. OneNode' /\ NodesAreRows'
  BY <1>1, <1>3 DEF GraphInv, OneNode, NodesAreRows
<1>5. ASSUME NEW e \in GraphEdges, NEW i \in Ids', e[2] \in item'[i].of,
             i # e[2] \/ item'[i].status # "QUEUED"
      PROVE  \E j \in Ids' : e[1] \in item'[j].of /\ Passed(item'[j])
  <2>1. \E j \in Ids : e[1] \in item[j].of /\ Passed(item[j])
    <3>1. CASE i = new
      <4>1. PICK k \in old : e[2] \in item[k].of
        BY <1>1, <1>5, <3>1
      <4> QED
        BY <1>1, <4>1 DEF GraphInv, OrderKept
    <3>2. CASE i \in Ids
      <4>1. e[2] \in item[i].of /\ (i # e[2] \/ item[i].status # "QUEUED")
        BY <1>1, <1>5, <3>2
      <4> QED
        BY <3>2, <4>1 DEF GraphInv, OrderKept
    <3> QED
      BY <1>1, <3>1, <3>2
  <2>2. PICK j \in Ids : e[1] \in item[j].of /\ Passed(item[j])
    BY <2>1
  <2>3. item'[j].of = item[j].of /\ Passed(item'[j])
    BY <1>1, <2>2 DEF Passed, Excused
  <2> QED
    BY <1>1, <2>2, <2>3
<1> QED
  BY <1>2, <1>4, <1>5 DEF GraphInv, OrderKept

LEMMA StepKeepsGraph ==
  ASSUME LineageInv, GraphInv, [Next]_vars
  PROVE  GraphInv'
<1>1. RowsFollow
  BY StepKeeps DEF LineageInv
<1>2. CASE Passes /\ Rests
  <2>1. StartsReady
    BY <1>2 DEF Rests, StartsReady
  <2> QED
    BY <1>1, <1>2, <2>1, PassingKeepsGraph
<1>3. CASE Passes /\ \E i \in Ids : Begins(i)
  <2>1. StartsReady
    BY <1>3 DEF Begins, Turning, StartsReady
  <2> QED
    BY <1>1, <1>3, <2>1, PassingKeepsGraph
<1>4. CASE Passes /\ \E i \in Ids, to \in {"QUEUED", "DONE", "FAILED"} : Ends(i, to)
  <2>1. StartsReady
    BY <1>4 DEF Ends, Turning, StartsReady
  <2> QED
    BY <1>1, <1>4, <2>1, PassingKeepsGraph
<1>5. CASE \E fix \in Ids : \E old, new : Retried(fix, old, new)
  BY <1>5, RetryKeepsGraph DEF Retried
<1> QED
  BY <1>2, <1>3, <1>4, <1>5, StepTurns

LEMMA InitKeepsGraph == Init => GraphInv
<1> SUFFICES ASSUME Init PROVE GraphInv
  OBVIOUS
<1>1. /\ Ids = 1 .. Len(Graph) /\ DOMAIN Graph = 1 .. Len(Graph) /\ Len(Graph) \in Nat
      /\ \A i \in Ids : /\ item[i].of = {i} /\ item[i].by = NoId /\ item[i].status = "QUEUED"
  BY DEF Init, Ids, NewItem
<1>2. \A n \in DOMAIN Graph : n \in Standing(n)
  BY <1>1 DEF Standing, Superseded
<1>3. NobodyIsLost
  BY <1>2 DEF NobodyIsLost
<1> QED
  BY <1>1, <1>3 DEF GraphInv, OneNode, OrderKept, NodesAreRows

LEMMA CurrentStands ==
  ASSUME LineageInv, GraphInv, NEW n \in DOMAIN Graph
  PROVE  Current(n) \in Standing(n) /\ Current(n) \in Ids
  BY DEF GraphInv, NobodyIsLost, Current, Standing

LEMMA OneStands ==
  ASSUME LineageInv, GraphInv, NEW i \in Ids, NEW n \in item[i].of, ~Superseded(i)
  PROVE  n \in DOMAIN Graph /\ Standing(n) = {i} /\ Current(n) = i
<1>1. n \in DOMAIN Graph
  BY RowFields DEF LineageInv, JobInv, ItemRow
<1>2. i \in Standing(n) /\ \A j \in Standing(n) : j = i
  BY DEF Standing, LineageInv, DependentsFollow
<1> QED
  BY <1>1, <1>2 DEF Current

\* A node keeps its stage while its row keeps its status.
LEMMA StageStays ==
  ASSUME Passes, NEW j \in Ids, item'[j].status = item[j].status
  PROVE  Stage(item'[j]) = Stage(item[j])
<1>1. CASE IsOpen(item[j])
  BY <1>1 DEF IsOpen, Stage
<1>2. CASE ~IsOpen(item[j])
  BY <1>2 DEF Passes, Keeps
<1> QED
  BY <1>1, <1>2

LEMMA OthersStay ==
  ASSUME LineageInv, GraphInv, RowsFollow, Passes, NEW i, NEW n \in DOMAIN Graph, n \notin item[i].of,
         \A j \in Ids \ {i} : item'[j].status = item[j].status
  PROVE  NodeState'[n] = NodeState[n]
<1>1. Current(n) \in Ids /\ Current(n) # i
  BY CurrentStands DEF Standing
<1>2. Current(n)' = Current(n)
  BY PassingKeepsStanding DEF Current
<1>3. Stage(item'[Current(n)']) = Stage(item[Current(n)])
  BY <1>1, <1>2, StageStays
<1> QED
  BY <1>3 DEF NodeState

\* A node is in the state of the row that stands for it.
LEMMA NodeTurns ==
  ASSUME LineageInv, GraphInv, RowsFollow, Passes, NEW i \in Ids, IsOpen(item[i]), NEW to, Turning(i, to)
  PROVE  \/ item[i].of = {} /\ UNCHANGED NodeState
         \/ \E n \in item[i].of : n \in DOMAIN Graph /\ Work!Turns(n, Stage(item[i]), Stage(item'[i]))
<1>1. \A n \in DOMAIN Graph : n \notin item[i].of => NodeState'[n] = NodeState[n]
  BY OthersStay DEF Turning
<1>2. CASE item[i].of = {}
  BY <1>1, <1>2 DEF NodeState
<1>3. ASSUME NEW n \in item[i].of
      PROVE  n \in DOMAIN Graph /\ Work!Turns(n, Stage(item[i]), Stage(item'[i]))
  <2>1. n \in DOMAIN Graph /\ Current(n) = i
    BY OpenIsCurrent, OneStands DEF LineageInv
  <2>2. Current(n)' = i
    BY <2>1, PassingKeepsStanding DEF Current
  <2>3. NodeState[n] = Stage(item[i]) /\ NodeState'[n] = Stage(item'[i])
    BY <2>1, <2>2 DEF NodeState
  <2>4. \A m \in DOMAIN Graph : m # n => NodeState'[m] = NodeState[m]
    BY <1>1 DEF GraphInv, OneNode
  <2>5. NodeState' = [NodeState EXCEPT ![n] = Stage(item'[i])]
    BY <2>1, <2>3, <2>4 DEF NodeState
  <2> QED
    BY <2>1, <2>3, <2>5 DEF Work!Turns
<1> QED
  BY <1>2, <1>3

LEMMA PassingRedoesNothing ==
  ASSUME LineageInv, GraphInv, RowsFollow, Passes
  PROVE  UNCHANGED Redone
<1>1. Ids \subseteq Ids'
  BY MoreIds DEF LineageInv
<1>2. \A i \in Ids : item'[i].of = item[i].of
  BY DEF Passes, Keeps
<1>3. \A i \in Ids' : i \notin Ids => item'[i].of = {}
  BY DEF Passes, IsNewRepair
<1> QED
  BY <1>1, <1>2, <1>3 DEF Redone

LEMMA AttemptPays ==
  ASSUME TypeOK, BudgetsHold'
  PROVE  /\ OneMoreTry => Work!Pays
         /\ \A i : Adds(i) => UNCHANGED Len(tries) \/ Work!Pays
<1>1. Len(tries) \in Nat /\ MaxRun + Overrun \in Int
  BY Crew DEF TypeOK
<1>2. OneMoreTry => Work!Pays
  BY <1>1 DEF OneMoreTry, Work!Pays, BudgetsHold
<1>3. ASSUME NEW i, Adds(i)
      PROVE  UNCHANGED Len(tries) \/ OneMoreTry
  <2>1. ASSUME NEW row, tries' = Append(tries, row)
        PROVE  OneMoreTry
    BY <2>1 DEF OneMoreTry, TypeOK
  <2> QED
    BY <1>3, <2>1 DEF Adds, Try
<1> QED
  BY <1>2, <1>3

\* All that its node waits for is done or excused when an execution begins, or is
\* begun again as the node is.
LEMMA BegunIsReady ==
  ASSUME LineageInv, GraphInv, NEW i \in Ids, Runnable(i), NEW n \in item[i].of
  PROVE  Work!Ready(n)
<1> SUFFICES ASSUME NEW e \in GraphEdges, e[2] = n
             PROVE  \/ NodeState[e[1]] \in {"done", "excused"}
                    \/ n \in Redone /\ e[1] \in Redone
  BY DEF Work!Ready
<1>0. e[1] \in DOMAIN Graph /\ n \in DOMAIN Graph
  BY ConstantsAssumption
<1>1. ASSUME NEW j \in Ids, e[1] \in item[j].of, Passed(item[j]), ~Superseded(j)
      PROVE  NodeState[e[1]] \in {"done", "excused"}
  <2>1. Current(e[1]) = j
    BY <1>1, OneStands
  <2> QED
    BY <1>0, <1>1, <2>1 DEF NodeState, Stage, Passed
<1>2. CASE i = n
  <2>1. PICK j \in Ids : e[1] \in item[j].of /\ Passed(item[j]) /\ ~Superseded(j)
    BY <1>2, RunnableIsReady
  <2> QED
    BY <1>1, <2>1
<1>3. CASE i # n
  <2>1. PICK j \in Ids : e[1] \in item[j].of /\ Passed(item[j])
    BY <1>3 DEF GraphInv, OrderKept
  <2>2. CASE ~Superseded(j)
    BY <1>1, <2>1, <2>2
  <2>3. CASE Superseded(j)
    <3>1. PICK k \in Ids : e[1] \in item[k].of /\ ~Superseded(k)
      BY <1>0, CurrentStands DEF Standing
    <3>2. j # e[1] \/ k # e[1]
      BY <2>3, <3>1
    <3> QED
      BY <1>0, <1>3, <2>1, <3>1, <3>2 DEF Redone
  <2> QED
    BY <2>2, <2>3
<1> QED
  BY <1>2, <1>3

\* A step of WorkGraph, or one that it does not see.
WorkGoesOn == Work!GNext \/ UNCHANGED <<NodeState, Redone, Len(tries)>>

LEMMA BeginsFollows ==
  ASSUME LineageInv, GraphInv, RowsFollow, Passes, NEW i \in Ids, Begins(i)
  PROVE  WorkGoesOn
<1>1. /\ item[i].status = "QUEUED" /\ Turning(i, "RUNNING") /\ UNCHANGED Len(tries)
      /\ item'[i].status = "RUNNING" /\ UNCHANGED Redone
  BY PassingRedoesNothing DEF Begins, Runnable, Turning
<1>2. CASE item[i].of = {} /\ UNCHANGED NodeState
  BY <1>1, <1>2 DEF WorkGoesOn
<1>3. ASSUME NEW n \in item[i].of, n \in DOMAIN Graph, Work!Turns(n, Stage(item[i]), Stage(item'[i]))
      PROVE  WorkGoesOn
  <2>1. Work!Ready(n)
    BY BegunIsReady DEF Begins
  <2>2. Work!Begin(n)
    BY <1>1, <1>3, <2>1 DEF Work!Begin, Stage
  <2> QED
    BY <1>3, <2>2 DEF WorkGoesOn, Work!GNext
<1>4. IsOpen(item[i])
  BY <1>1 DEF IsOpen
<1> QED
  BY <1>1, <1>2, <1>3, <1>4, NodeTurns

\* Only an optional node is always excused.
LEMMA FailsAsExcused ==
  ASSUME LineageInv, RowsFollow, NEW i \in Ids, NEW n \in item[i].of, n \in DOMAIN Graph,
         item'[i].status = "FAILED",
         Work!Turns(n, "running", Stage(item'[i])), UNCHANGED Redone,
         UNCHANGED Len(tries) \/ Work!Pays
  PROVE  Work!Fail(n)
<1>1. item'[i].type = Graph[n]
  BY DEF RowsFollow, LineageInv, WorkKeepsItsType
<1>2. \/ Stage(item'[i]) = "excused"
      \/ Stage(item'[i]) = "failed" /\ n \notin {m \in DOMAIN Graph : Graph[m] \in Optional}
  BY <1>1 DEF Stage, Excused
<1> QED
  BY <1>2 DEF Work!Fail

LEMMA EndsFollows ==
  ASSUME LineageInv, GraphInv, BudgetsHold', RowsFollow, Passes,
         NEW i \in Ids, NEW to \in {"QUEUED", "DONE", "FAILED"}, Ends(i, to)
  PROVE  WorkGoesOn
<1>1. /\ item[i].status = "RUNNING" /\ Turning(i, to) /\ item'[i].status = to
      /\ UNCHANGED Redone
  BY PassingRedoesNothing DEF Ends, Turning
<1>2. UNCHANGED Len(tries) \/ Work!Pays
  BY AttemptPays DEF Ends, LineageInv, JobInv
<1>3. CASE item[i].of = {} /\ UNCHANGED NodeState
  BY <1>1, <1>2, <1>3 DEF WorkGoesOn, Work!GNext, Work!Attempt
<1>4. ASSUME NEW n \in item[i].of, n \in DOMAIN Graph, Work!Turns(n, Stage(item[i]), Stage(item'[i]))
      PROVE  WorkGoesOn
  <2>0. Stage(item[i]) = "running"
    BY <1>1 DEF Stage
  <2>1. CASE to = "QUEUED"
    BY <1>1, <1>2, <1>4, <2>0, <2>1 DEF WorkGoesOn, Work!GNext, Work!Return, Stage
  <2>2. CASE to = "FAILED"
    <3>1. Work!Fail(n)
      BY <1>1, <1>2, <1>4, <2>0, <2>2, FailsAsExcused
    <3> QED
      BY <1>4, <3>1 DEF WorkGoesOn, Work!GNext
  <2>3. CASE to = "DONE"
    <3>1. UNCHANGED Len(tries)
      BY <2>3, <1>4, RepairsDoNoWork DEF Ends
    <3> QED
      BY <1>1, <1>4, <2>0, <2>3, <3>1 DEF WorkGoesOn, Work!GNext, Work!Finish, Stage
  <2> QED
    BY <2>1, <2>2, <2>3
<1>5. IsOpen(item[i])
  BY <1>1 DEF IsOpen
<1> QED
  BY <1>1, <1>3, <1>4, <1>5, NodeTurns

LEMMA RetryFollows ==
  ASSUME LineageInv, GraphInv, GraphInv', BudgetsHold',
         NEW fix, NEW old, NEW new, Retried(fix, old, new)
  PROVE  WorkGoesOn
<1> DEFINE works == item'[new].of
<1>1. Brings(fix, old, new) /\ Work!Pays
  BY AttemptPays DEF Retried, LineageInv, JobInv
<1>2. /\ item'[new].status = "QUEUED" /\ new \in Ids' /\ fix \in Ids /\ IsRepair(fix)
      /\ new \notin Ids /\ Ids' = Ids \cup {new}
      /\ \A i \in Ids : item'[i].of = item[i].of
      /\ \A i \in old : item[i].status = "FAILED" /\ item'[i].status = "FAILED"
      /\ \A i \in Ids \ old : i # fix => item'[i] = item[i]
  BY <1>1 DEF Brings
<1>3. \A m, n \in works : m = n
  BY <1>2 DEF GraphInv, OneNode
<1>0. Redone' = Redone \cup (works \cap DOMAIN Graph)
  <2>1. \A n \in DOMAIN Graph : n # new
    BY <1>2 DEF GraphInv, NodesAreRows
  <2>2. \A n \in DOMAIN Graph : n \in Redone' <=> n \in Redone \/ n \in works
    BY <1>2, <2>1 DEF Redone
  <2>3. Redone' \subseteq DOMAIN Graph /\ Redone \subseteq DOMAIN Graph
    BY DEF Redone
  <2> QED
    BY <2>2, <2>3
<1>4. ASSUME NEW n \in DOMAIN Graph, n \notin works
      PROVE  NodeState'[n] = NodeState[n]
  <2>1. Standing(n)' = Standing(n) /\ Standing(n) \cap old = {}
    <3>1. Standing(n)' = Standing(n)
      BY <1>1, <1>4, RetryStands
    <3>2. \A i \in old : n \notin item[i].of
      BY <1>1, <1>4 DEF Brings
    <3> QED
      BY <3>1, <3>2 DEF Standing
  <2>2. Current(n)' = Current(n)
    BY <2>1 DEF Current
  <2>3. Current(n) \in Ids \ old /\ Current(n) # fix
    BY <1>2, <2>1, CurrentStands, RepairsDoNoWork DEF Standing
  <2>4. item'[Current(n)] = item[Current(n)]
    BY <1>2, <2>3
  <2> QED
    BY <2>2, <2>4 DEF NodeState
<1>5. ASSUME NEW n \in DOMAIN Graph, n \in works
      PROVE  NodeState[n] \in {"failed", "excused"} /\ NodeState'[n] = "waiting"
  <2>1. Standing(n)' = {new} /\ Standing(n) \subseteq old
    BY <1>1, <1>5, RetryStands
  <2>2. Current(n)' = new
    BY <2>1 DEF Current
  <2>3. Current(n) \in old
    BY <2>1, CurrentStands
  <2> QED
    BY <1>2, <2>2, <2>3 DEF NodeState, Stage
<1>6. CASE \E n \in DOMAIN Graph : n \in works
  <2>1. PICK n \in DOMAIN Graph : n \in works
    BY <1>6
  <2>2. \A m \in DOMAIN Graph : m # n => NodeState'[m] = NodeState[m]
    BY <1>3, <1>4, <2>1
  <2>3. NodeState' = [NodeState EXCEPT ![n] = "waiting"]
    BY <1>5, <2>1, <2>2 DEF NodeState
  <2>4. Redone' = Redone \cup {n}
    BY <1>0, <1>3, <2>1
  <2>5. Work!Redo(n)
    BY <1>1, <1>5, <2>1, <2>3, <2>4 DEF Work!Redo, Work!Turns
  <2> QED
    BY <2>5 DEF WorkGoesOn, Work!GNext
<1>7. CASE ~\E n \in DOMAIN Graph : n \in works
  <2>1. UNCHANGED NodeState /\ UNCHANGED Redone
    BY <1>0, <1>4, <1>7 DEF NodeState
  <2> QED
    BY <1>1, <2>1 DEF WorkGoesOn, Work!GNext, Work!Attempt
<1> QED
  BY <1>6, <1>7

LEMMA StepFollows ==
  ASSUME LineageInv, GraphInv, GraphInv', BudgetsHold', [Next]_vars
  PROVE  WorkGoesOn
<1>1. RowsFollow
  BY StepKeeps DEF LineageInv
<1>2. CASE Passes /\ Rests
  BY <1>2 DEF Rests, WorkGoesOn, NodeState, Redone, Current, Standing, Ids, Superseded
<1>3. CASE Passes /\ \E i \in Ids : Begins(i)
  BY <1>1, <1>3, BeginsFollows
<1>4. CASE Passes /\ \E i \in Ids, to \in {"QUEUED", "DONE", "FAILED"} : Ends(i, to)
  BY <1>1, <1>4, EndsFollows
<1>5. CASE \E fix \in Ids : \E old, new : Retried(fix, old, new)
  BY <1>5, RetryFollows
<1> QED
  BY <1>2, <1>3, <1>4, <1>5, StepTurns

LEMMA InitFollows == Init => Work!GInit
<1> SUFFICES ASSUME Init PROVE Work!GInit
  OBVIOUS
<1>1. /\ Ids = 1 .. Len(Graph) /\ DOMAIN Graph = 1 .. Len(Graph) /\ Len(Graph) \in Nat
      /\ \A i \in Ids : /\ item[i].of = {i} /\ item[i].by = NoId /\ item[i].status = "QUEUED"
  BY DEF Init, Ids, NewItem
<1>2. \A n \in DOMAIN Graph : Standing(n) = {n}
  BY <1>1 DEF Standing, Superseded
<1>3. \A n \in DOMAIN Graph : Current(n) = n
  BY <1>2 DEF Current
<1>4. NodeState = [n \in DOMAIN Graph |-> "waiting"]
  BY <1>1, <1>3 DEF NodeState, Stage
<1>5. Len(tries) = 0
  BY DEF Init
<1>6. Redone = {}
  BY <1>1 DEF Redone
<1> QED
  BY <1>4, <1>5, <1>6 DEF Work!GInit

\* Whatever rows recovery appends, supersedes and points elsewhere, and whoever dies
\* on the way, RecoveryPolicy implements WorkGraph: a node of the run's graph begins
\* only when all that it waits for is done or has failed without blocking, what is
\* done stays done, and a failed node begins again only by an attempt, of which there
\* is a limited number.
THEOREM GraphFollowed == Spec => FollowsTheGraph
<1>1. LineageInv /\ GraphInv /\ [Next]_vars => LineageInv' /\ GraphInv'
  BY StepKeepsLineage, StepKeepsGraph
<1>2. LineageInv /\ GraphInv /\ GraphInv' /\ BudgetsHold' /\ [Next]_vars =>
         [Work!GNext]_(Work!gvars)
  BY StepFollows DEF WorkGoesOn, Work!gvars
<1> QED
  BY InitKeepsLineage, InitKeepsGraph, InitFollows, BudgetsKept, <1>1, <1>2, PTL
     DEF Spec, FollowsTheGraph, Work!GSpec

-----------------------------------------------------------------------------
(* Every step uses up something.                                           *)

Bit(b) == IF b THEN 1 ELSE 0

\* Sets that agree but for one element.
LEMMA Recount ==
  ASSUME NEW S, IsFiniteSet(S), NEW A \in SUBSET S, NEW B \in SUBSET S, NEW x,
         \A y \in S : y # x => (y \in A <=> y \in B)
  PROVE  /\ Cardinality(A) \in Nat /\ Cardinality(B) \in Nat
         /\ Cardinality(B) = Cardinality(A) + Bit(x \in B) - Bit(x \in A)
<1> DEFINE C == A \ {x}
<1>1. IsFiniteSet(A) /\ IsFiniteSet(B) /\ IsFiniteSet(C)
  <2>1. C \subseteq S
    OBVIOUS
  <2> QED
    BY <2>1, FS_Subset
<1>2. Cardinality(A) \in Nat /\ Cardinality(B) \in Nat /\ Cardinality(C) \in Nat
  BY <1>1, FS_CardinalityType
<1>3. C = B \ {x}
  OBVIOUS
<1>4. ASSUME NEW D \in SUBSET S, IsFiniteSet(D), C = D \ {x}
      PROVE  Cardinality(D) = Cardinality(C) + Bit(x \in D)
  <2>1. CASE x \in D
    <3>1. Cardinality(C) = Cardinality(D) - 1
      BY <1>4, <2>1, FS_RemoveElement
    <3>2. Cardinality(D) \in Nat
      BY <1>4, FS_CardinalityType
    <3> HIDE DEF C
    <3> QED
      BY <1>2, <2>1, <3>1, <3>2 DEF Bit
  <2>2. CASE x \notin D
    <3>1. D = C
      BY <1>4, <2>2
    <3> HIDE DEF C
    <3> QED
      BY <1>2, <2>2, <3>1 DEF Bit
  <2> QED
    BY <2>1, <2>2
<1>5. Cardinality(A) = Cardinality(C) + Bit(x \in A) /\ Cardinality(B) = Cardinality(C) + Bit(x \in B)
  BY <1>1, <1>3, <1>4
<1> HIDE DEF C
<1> QED
  BY <1>2, <1>5 DEF Bit

\* What a worker's step to another place of its report is worth.
Weight(pc) ==
  CASE pc = "idle" -> 4
    [] pc = "executing" -> 2
    [] pc = "counted" -> 1
    [] OTHER -> 0

LEMMA EffortChanges ==
  ASSUME NEW w \in Workers, \A v \in Workers \ {w} : worker'[v] = worker[v]
  PROVE  /\ Effort \in Nat /\ Effort' \in Nat
         /\ Effort' = Effort + Weight(worker'[w].pc) - Weight(worker[w].pc)
<1>1. ASSUME NEW pcs
      PROVE  /\ Cardinality(WorkersAt(pcs)) \in Nat /\ Cardinality(WorkersAt(pcs))' \in Nat
             /\ Cardinality(WorkersAt(pcs))' = Cardinality(WorkersAt(pcs))
                    + Bit(worker'[w].pc \in pcs) - Bit(worker[w].pc \in pcs)
  <2> DEFINE A == WorkersAt(pcs)
             B == WorkersAt(pcs)'
  <2>1. A \in SUBSET Workers /\ B \in SUBSET Workers
    BY DEF WorkersAt
  <2>2. \A v \in Workers : v # w => (v \in A <=> v \in B)
    BY DEF WorkersAt
  <2>3. (w \in A <=> worker[w].pc \in pcs) /\ (w \in B <=> worker'[w].pc \in pcs)
    BY DEF WorkersAt
  <2> HIDE DEF A, B
  <2>4. /\ Cardinality(A) \in Nat /\ Cardinality(B) \in Nat
        /\ Cardinality(B) = Cardinality(A) + Bit(w \in B) - Bit(w \in A)
    BY <2>1, <2>2, Recount
  <2>5. /\ Cardinality(A) \in Nat /\ Cardinality(B) \in Nat
        /\ Cardinality(B) = Cardinality(A) + Bit(worker'[w].pc \in pcs) - Bit(worker[w].pc \in pcs)
    BY <2>3, <2>4 DEF Bit
  <2> QED
    BY <2>5 DEF A, B
<1>2. PICK a \in Nat, b \in Nat, c \in Nat :
        /\ a = Cardinality(WorkersAt({"idle"}))
        /\ b = Cardinality(WorkersAt({"idle", "executing"}))
        /\ c = Cardinality(WorkersAt({"idle", "executing", "counted"}))
  BY <1>1
<1>3. PICK a2 \in Nat, b2 \in Nat, c2 \in Nat :
        /\ a2 = Cardinality(WorkersAt({"idle"}))'
        /\ b2 = Cardinality(WorkersAt({"idle", "executing"}))'
        /\ c2 = Cardinality(WorkersAt({"idle", "executing", "counted"}))'
  BY <1>1
<1> DEFINE P(pc) == Bit(pc \in {"idle"})
           Q(pc) == Bit(pc \in {"idle", "executing"})
           R(pc) == Bit(pc \in {"idle", "executing", "counted"})
<1>4. /\ a2 = a + P(worker'[w].pc) - P(worker[w].pc)
      /\ b2 = b + Q(worker'[w].pc) - Q(worker[w].pc)
      /\ c2 = c + R(worker'[w].pc) - R(worker[w].pc)
  BY <1>1, <1>2, <1>3
<1>5. Effort = 2 * a + b + c /\ Effort' = 2 * a2 + b2 + c2
  BY <1>2, <1>3 DEF Effort
<1>6. \A pc : P(pc) \in {0, 1} /\ Q(pc) \in {0, 1} /\ R(pc) \in {0, 1}
  BY DEF Bit
<1>7. ASSUME NEW pc
      PROVE  Weight(pc) = 2 * P(pc) + Q(pc) + R(pc)
  <2>1. CASE pc = "idle"
    BY <2>1 DEF Weight, Bit
  <2>2. CASE pc = "executing"
    BY <2>2 DEF Weight, Bit
  <2>3. CASE pc = "counted"
    BY <2>3 DEF Weight, Bit
  <2>4. CASE pc \notin {"idle", "executing", "counted"}
    BY <2>4 DEF Weight, Bit
  <2> QED
    BY <2>1, <2>2, <2>3, <2>4
<1> HIDE DEF P, Q, R
<1>8. PICK p1 \in 0 .. 1, p2 \in 0 .. 1, p3 \in 0 .. 1 :
        p1 = P(worker[w].pc) /\ p2 = Q(worker[w].pc) /\ p3 = R(worker[w].pc)
  BY <1>6
<1>9. PICK q1 \in 0 .. 1, q2 \in 0 .. 1, q3 \in 0 .. 1 :
        q1 = P(worker'[w].pc) /\ q2 = Q(worker'[w].pc) /\ q3 = R(worker'[w].pc)
  BY <1>6
<1>10. Weight(worker[w].pc) = 2 * p1 + p2 + p3 /\ Weight(worker'[w].pc) = 2 * q1 + q2 + q3
  BY <1>7, <1>8, <1>9
<1>11. a2 = a + q1 - p1 /\ b2 = b + q2 - p2 /\ c2 = c + q3 - p3
  BY <1>4, <1>8, <1>9
<1>12. 2 * a2 + b2 + c2 = (2 * a + b + c) + (2 * q1 + q2 + q3) - (2 * p1 + p2 + p3)
  BY <1>11
<1>13. 2 * a + b + c \in Nat /\ 2 * a2 + b2 + c2 \in Nat
  OBVIOUS
<1> QED
  BY <1>5, <1>10, <1>12, <1>13

LEMMA Weights ==
  /\ Weight("idle") = 4 /\ Weight("executing") = 2 /\ Weight("counted") = 1 /\ Weight("sized") = 0
  /\ \A pc : Weight(pc) \in 0 .. 4
  BY DEF Weight

\* What a row in the queue pays for, and one that runs.
Cost(status) ==
  CASE status = "RUNNING" -> 6
    [] status = "QUEUED" -> 5
    [] OTHER -> 0

\* A step adds at most one row, which it queues.
QueuesNew ==
  /\ Len(item') \in {Len(item), Len(item) + 1}
  /\ \A j \in Ids' : j \notin Ids => item'[j].status = "QUEUED"

LEMMA RowsAreFew ==
  ASSUME TypeOK
  PROVE  /\ IsFiniteSet(Ids)
         /\ \A status : Cardinality(RowsAt(status)) \in Nat
<1>1. IsFiniteSet(Ids)
  BY FS_Interval DEF TypeOK, Ids
<1>2. ASSUME NEW status
      PROVE  Cardinality(RowsAt(status)) \in Nat
  <2>1. RowsAt(status) \subseteq Ids
    BY DEF RowsAt
  <2> QED
    BY <1>1, <2>1, FS_Subset, FS_CardinalityType
<1> QED
  BY <1>1, <1>2

LEMMA RowsRecount ==
  ASSUME TypeOK, NEW i \in Ids, NEW to, Turning(i, to), QueuesNew, NEW status
  PROVE  /\ Cardinality(RowsAt(status)) \in Nat /\ Cardinality(RowsAt(status))' \in Nat
         /\ Cardinality(RowsAt(status))' = Cardinality(RowsAt(status))
                + Bit(to = status) - Bit(item[i].status = status)
                + (IF status = "QUEUED" THEN Len(item') - Len(item) ELSE 0)
<1> DEFINE A == RowsAt(status)
           B == {j \in Ids : item'[j].status = status}
           C == RowsAt(status)'
           n == Len(item) + 1
<1>1. IsFiniteSet(Ids) /\ Len(item) \in Nat
  BY RowsAreFew DEF TypeOK
<1>2. /\ Cardinality(A) \in Nat /\ Cardinality(B) \in Nat
      /\ Cardinality(B) = Cardinality(A) + Bit(to = status) - Bit(item[i].status = status)
  <2>1. A \in SUBSET Ids /\ B \in SUBSET Ids
    BY DEF RowsAt
  <2>2. \A j \in Ids : j # i => (j \in A <=> j \in B)
    BY DEF RowsAt, Turning
  <2>3. (i \in A <=> item[i].status = status) /\ (i \in B <=> to = status)
    BY DEF RowsAt, Turning
  <2> HIDE DEF A, B
  <2>4. /\ Cardinality(A) \in Nat /\ Cardinality(B) \in Nat
        /\ Cardinality(B) = Cardinality(A) + Bit(i \in B) - Bit(i \in A)
    BY <1>1, <2>1, <2>2, Recount
  <2> QED
    BY <2>3, <2>4 DEF Bit
<1>3. CASE Len(item') = Len(item)
  <2>1. C = B
    BY <1>3 DEF RowsAt, Ids
  <2> HIDE DEF A, B, C
  <2>2. Cardinality(C) = Cardinality(B) /\ Len(item') - Len(item) = 0
    BY <1>1, <1>3, <2>1
  <2>3. /\ Cardinality(A) \in Nat /\ Cardinality(C) \in Nat
        /\ Cardinality(C) = Cardinality(A) + Bit(to = status) - Bit(item[i].status = status)
               + (IF status = "QUEUED" THEN Len(item') - Len(item) ELSE 0)
    BY <1>2, <2>2 DEF Bit
  <2> QED
    BY <2>3 DEF A, C
<1>4. CASE Len(item') = n
  <2>1. Ids' = Ids \cup {n} /\ n \notin Ids
    BY <1>1, <1>4 DEF Ids
  <2>2. item'[n].status = "QUEUED"
    BY <2>1 DEF QueuesNew
  <2>3. C = {j \in Ids \cup {n} : item'[j].status = status}
    BY <2>1 DEF RowsAt
  <2>4. Len(item') - Len(item) = 1
    BY <1>1, <1>4
  <2>5. IsFiniteSet(B)
    BY <1>1, FS_Subset
  <2>6. CASE status = "QUEUED"
    <3>1. C = B \cup {n} /\ n \notin B
      BY <2>1, <2>2, <2>3, <2>6
    <3> HIDE DEF A, B, C, n
    <3>2. Cardinality(C) = Cardinality(B) + 1
      BY <2>5, <3>1, FS_AddElement
    <3>3. /\ Cardinality(A) \in Nat /\ Cardinality(C) \in Nat
          /\ Cardinality(C) = Cardinality(A) + Bit(to = status) - Bit(item[i].status = status)
                 + (IF status = "QUEUED" THEN Len(item') - Len(item) ELSE 0)
      BY <1>2, <2>4, <2>6, <3>2 DEF Bit
    <3> QED
      BY <3>3 DEF A, C
  <2>7. CASE status # "QUEUED"
    <3>1. C = B
      BY <2>1, <2>2, <2>3, <2>7
    <3> HIDE DEF A, B, C, n
    <3>2. /\ Cardinality(A) \in Nat /\ Cardinality(C) \in Nat
          /\ Cardinality(C) = Cardinality(A) + Bit(to = status) - Bit(item[i].status = status)
                 + (IF status = "QUEUED" THEN Len(item') - Len(item) ELSE 0)
      BY <1>2, <2>7, <3>1 DEF Bit
    <3> QED
      BY <3>2 DEF A, C
  <2> QED
    BY <2>6, <2>7
<1> QED
  BY <1>3, <1>4 DEF QueuesNew

LEMMA LoadChanges ==
  ASSUME TypeOK, NEW i \in Ids, NEW to, Turning(i, to), QueuesNew
  PROVE  /\ Load \in Nat /\ Load' \in Nat
         /\ Load' = Load + Cost(to) - Cost(item[i].status) + 5 * (Len(item') - Len(item))
<1>1. PICK r \in Nat, q \in Nat :
        r = Cardinality(RowsAt("RUNNING")) /\ q = Cardinality(RowsAt("QUEUED"))
  BY RowsAreFew
<1>2. PICK r2 \in Nat, q2 \in Nat :
        r2 = Cardinality(RowsAt("RUNNING"))' /\ q2 = Cardinality(RowsAt("QUEUED"))'
  BY RowsRecount
<1>3. PICK more \in 0 .. 1 : more = Len(item') - Len(item)
  <2>1. Len(item) \in Nat /\ Len(item') \in {Len(item), Len(item) + 1}
    BY DEF QueuesNew, TypeOK
  <2>2. Len(item') - Len(item) \in 0 .. 1
    BY <2>1
  <2> QED
    BY <2>2
<1> DEFINE R(status) == Bit(status = "RUNNING")
           Q(status) == Bit(status = "QUEUED")
<1>4. r2 = r + R(to) - R(item[i].status)
  <2>1. r2 = r + R(to) - R(item[i].status) + 0
    <3>1. "RUNNING" # "QUEUED"
      OBVIOUS
    <3> QED
      BY <1>1, <1>2, <3>1, RowsRecount
  <2>2. R(to) \in Int /\ R(item[i].status) \in Int
    BY DEF Bit
  <2> HIDE DEF R
  <2> QED
    BY <2>1, <2>2
<1>5. q2 = q + Q(to) - Q(item[i].status) + more
  BY <1>1, <1>2, <1>3, RowsRecount
<1>6. ASSUME NEW status
      PROVE  /\ R(status) \in 0 .. 1 /\ Q(status) \in 0 .. 1
             /\ Cost(status) = 6 * R(status) + 5 * Q(status)
  <2>1. CASE status = "RUNNING"
    BY <2>1 DEF Cost, Bit
  <2>2. CASE status = "QUEUED"
    BY <2>2 DEF Cost, Bit
  <2>3. CASE status \notin {"RUNNING", "QUEUED"}
    BY <2>3 DEF Cost, Bit
  <2> QED
    BY <2>1, <2>2, <2>3
<1> HIDE DEF R, Q
<1>7. PICK a \in 0 .. 1, b \in 0 .. 1 :
        a = R(to) /\ b = Q(to) /\ Cost(to) = 6 * a + 5 * b
  BY <1>6
<1>8. PICK c \in 0 .. 1, d \in 0 .. 1 :
        c = R(item[i].status) /\ d = Q(item[i].status) /\ Cost(item[i].status) = 6 * c + 5 * d
  BY <1>6
<1>9. Load = 6 * r + 5 * q /\ Load' = 6 * r2 + 5 * q2
  BY <1>1, <1>2 DEF Load
<1>10. r2 = r + a - c /\ q2 = q + b - d + more
  BY <1>4, <1>5, <1>7, <1>8
<1>11. 6 * r2 + 5 * q2 = 6 * r + 5 * q + (6 * a + 5 * b) - (6 * c + 5 * d) + 5 * more
  BY <1>10
<1> QED
  BY <1>3, <1>7, <1>8, <1>9, <1>11

LEMMA DoneIsCheap ==
  ASSUME TypeOK, RowsFollow, NEW w \in Workers, Done(w)
  PROVE  Effort \in Nat /\ Effort' \in Nat /\ Effort' <= Effort + 4
<1>1. worker'[w].pc = "idle" /\ \A v \in Workers \ {w} : worker'[v] = worker[v]
  BY Idles
<1>2. /\ Effort \in Nat /\ Effort' \in Nat
      /\ Effort' = Effort + Weight(worker'[w].pc) - Weight(worker[w].pc)
  BY <1>1, EffortChanges
<1>3. Weight(worker'[w].pc) = 4 /\ Weight(worker[w].pc) \in 0 .. 4
  BY <1>1, Weights
<1> QED
  BY <1>2, <1>3

\* What a step spends, and what that pays for.
Uses(t, f, load, effort) ==
  /\ Len(tries') = Len(tries) + t /\ faults' = faults + f
  /\ Load \in Nat /\ Load' \in Nat /\ Load' <= Load + load
  /\ Effort \in Nat /\ Effort' \in Nat /\ Effort' <= Effort + effort
  /\ overdue => overdue'
  /\ \/ load + effort < 10 * t + 10 * f
     \/ load + effort <= 10 * t + 10 * f /\ ~overdue /\ overdue'

LEMMA LessIsLeft ==
  ASSUME TypeOK, TypeOK', NEW t \in Nat, NEW f \in Nat, NEW load \in Int, NEW effort \in Int,
         Uses(t, f, load, effort)
  PROVE  StepsLeft' < StepsLeft
<1> USE DEF Uses
<1>1. /\ Len(tries) \in Nat /\ Len(tries') \in Nat /\ faults \in Nat /\ faults' \in Nat
      /\ MaxFaults \in Nat
  BY DEF TypeOK
<1>2. PICK room \in Int : room = MaxRun + (Cardinality(Workers) - 1)
  <2>1. Cardinality(Workers) \in Nat
    BY FS_CardinalityType
  <2> QED
    BY <2>1
<1>3. PICK o \in 0 .. 1, o2 \in 0 .. 1 :
        o = Ticks /\ o2 = Ticks' /\ o2 <= o /\ (~overdue /\ overdue' => o2 < o)
  <2>1. Ticks \in 0 .. 1 /\ Ticks' \in 0 .. 1
    BY DEF Ticks
  <2>2. Ticks' <= Ticks /\ (~overdue /\ overdue' => Ticks' < Ticks)
    BY DEF Ticks
  <2> QED
    BY <2>1, <2>2
<1>4. StepsLeft = 10 * (room - Len(tries)) + 10 * (MaxFaults - faults) + o + Load + Effort
  BY <1>2, <1>3, Zenon DEF StepsLeft, Overrun
<1>5. StepsLeft' = 10 * (room - Len(tries')) + 10 * (MaxFaults - faults') + o2 + Load' + Effort'
  BY <1>2, <1>3, Zenon DEF StepsLeft, Overrun
<1>6. PICK l \in Nat, l2 \in Nat, e \in Nat, e2 \in Nat :
        l = Load /\ l2 = Load' /\ e = Effort /\ e2 = Effort'
  OBVIOUS
<1>7. PICK a \in Nat, a2 \in Nat, b \in Nat, b2 \in Nat :
        a = Len(tries) /\ a2 = Len(tries') /\ b = faults /\ b2 = faults'
  BY <1>1
<1>8. l2 + e2 <= l + e + load + effort
  <2>1. l2 <= l + load /\ e2 <= e + effort
    BY <1>6
  <2> QED
    BY <2>1
<1>9. 10 * (room - a2) + 10 * (MaxFaults - b2) + o2 + l2 + e2
        < 10 * (room - a) + 10 * (MaxFaults - b) + o + l + e
  <2>1. a2 = a + t /\ b2 = b + f
    BY <1>7
  <2>2. 10 * (room - a2) + 10 * (MaxFaults - b2)
          = 10 * (room - a) + 10 * (MaxFaults - b) - 10 * t - 10 * f
    BY <1>1, <2>1
  <2>3. PICK x \in Int, x2 \in Int :
          /\ x = 10 * (room - a) + 10 * (MaxFaults - b)
          /\ x2 = 10 * (room - a2) + 10 * (MaxFaults - b2)
    BY <1>1
  <2>4. x2 = x - 10 * t - 10 * f
    BY <2>2, <2>3
  <2>5. x2 + o2 + l2 + e2 < x + o + l + e
    <3>1. CASE load + effort < 10 * t + 10 * f
      <4>1. o2 <= o
        BY <1>3
      <4>2. x2 + (l2 + e2) <= x - 10 * t - 10 * f + (l + e + load + effort)
        BY <1>8, <2>4
      <4>3. x2 + (l2 + e2) < x + (l + e)
        BY <3>1, <4>2
      <4> QED
        BY <4>1, <4>3
    <3>2. CASE load + effort <= 10 * t + 10 * f /\ ~overdue /\ overdue'
      <4>1. o2 < o
        BY <1>3, <3>2
      <4> QED
        BY <1>8, <2>4, <3>2, <4>1
    <3> QED
      BY <3>1, <3>2
  <2> QED
    BY <2>3, <2>5
<1> QED
  BY <1>4, <1>5, <1>6, <1>7, <1>9

LEMMA PassesQueuesNew ==
  ASSUME JobInv, RowsFollow, Passes
  PROVE  QueuesNew
<1>1. Len(item) \in Nat /\ Len(item') \in Nat /\ Len(item) <= Len(item')
  BY DEF JobInv, TypeOK, RowsFollow
<1>2. ~(Len(item) + 2 <= Len(item'))
  <2> SUFFICES ASSUME Len(item) + 2 <= Len(item')
               PROVE  FALSE
    OBVIOUS
  <2>1. /\ Len(item) + 1 \in Ids' /\ Len(item) + 2 \in Ids'
        /\ Len(item) + 1 \notin Ids /\ Len(item) + 2 \notin Ids
    BY <1>1 DEF Ids
  <2>2. Len(item) + 1 = Len(item) + 2
    BY <2>1 DEF Passes
  <2> QED
    BY <1>1, <2>2
<1>3. Len(item') \in {Len(item), Len(item) + 1}
  BY <1>1, <1>2
<1> QED
  BY <1>3 DEF QueuesNew, Passes, IsNewRepair

LEMMA ClaimUsesUp ==
  ASSUME JobInv, TypeOK', RowsFollow, Passes, NEW w \in Workers, NEW i \in Ids, Claim(w, i)
  PROVE  StepsLeft' < StepsLeft
<1>1. TypeOK /\ QueuesNew
  BY PassesQueuesNew DEF JobInv
<1>2. Turning(i, "RUNNING") /\ item[i].status = "QUEUED"
  BY QueueTurns DEF Begins, Runnable
<1>3. Len(item') - Len(item) = 0
  BY <1>1 DEF Claim, TypeOK, Ids
<1>4. Load \in Nat /\ Load' \in Nat /\ Load' = Load + 1
  <2>1. Cost("RUNNING") = 6 /\ Cost("QUEUED") = 5
    BY DEF Cost
  <2>2. /\ Load \in Nat /\ Load' \in Nat
        /\ Load' = Load + Cost("RUNNING") - Cost(item[i].status) + 5 * (Len(item') - Len(item))
    BY <1>1, <1>2, LoadChanges
  <2>3. Load' = Load + 6 - 5 + 5 * 0
    BY <1>2, <1>3, <2>1, <2>2
  <2> QED
    BY <2>2, <2>3
<1>5. /\ worker[w].pc = "idle" /\ worker'[w].pc = "executing"
      /\ \A v \in Workers \ {w} : worker'[v] = worker[v]
  BY <1>1 DEF Claim, TypeOK, IdleWorker
<1>6. Effort \in Nat /\ Effort' \in Nat /\ Effort' = Effort - 2
  BY <1>5, EffortChanges, Weights
<1>7. Len(tries') = Len(tries) + 0 /\ faults' = faults + 0 /\ overdue' = overdue
  BY <1>1 DEF Claim, TypeOK
<1>8. Uses(0, 0, 1, -2)
  BY <1>4, <1>6, <1>7 DEF Uses
<1> QED
  BY <1>1, <1>8, LessIsLeft

LEMMA LoadRests ==
  ASSUME TypeOK, UNCHANGED item
  PROVE  Load \in Nat /\ Load' = Load
<1>1. \A status : RowsAt(status)' = RowsAt(status)
  BY DEF RowsAt, Ids
<1>2. PICK r \in Nat, q \in Nat :
        r = Cardinality(RowsAt("RUNNING")) /\ q = Cardinality(RowsAt("QUEUED"))
  BY RowsAreFew
<1>3. Load = 6 * r + 5 * q /\ Load' = 6 * r + 5 * q
  BY <1>1, <1>2 DEF Load
<1> QED
  BY <1>3

LEMMA AbandonUsesUp ==
  ASSUME JobInv, TypeOK', RowsFollow, NEW w \in Workers, Abandon(w)
  PROVE  StepsLeft' < StepsLeft
<1>1. TypeOK /\ Done(w)
  BY DEF JobInv, Abandon, Done
<1>2. Load \in Nat /\ Load' \in Nat /\ Load' <= Load + 0
  BY <1>1, LoadRests DEF Abandon
<1>3. Effort \in Nat /\ Effort' \in Nat /\ Effort' <= Effort + 4
  BY <1>1, DoneIsCheap
<1>4. Len(tries') = Len(tries) + 0 /\ faults' = faults + 1 /\ overdue' = overdue
  BY <1>1 DEF Abandon, TypeOK
<1>5. Uses(0, 1, 0, 4)
  BY <1>2, <1>3, <1>4 DEF Uses
<1>6. 0 \in Nat /\ 1 \in Nat /\ 0 \in Int /\ 4 \in Int
  OBVIOUS
<1> QED
  BY <1>1, <1>5, <1>6, LessIsLeft, Zenon

LEMMA ReclaimUsesUp ==
  ASSUME JobInv, TypeOK', RowsFollow, Passes, NEW i \in Ids, Reclaim(i)
  PROVE  StepsLeft' < StepsLeft
<1>1. TypeOK /\ QueuesNew
  BY PassesQueuesNew DEF JobInv
<1>2. Turning(i, "QUEUED") /\ item[i].status = "RUNNING"
  BY QueueTurns DEF Ends
<1>3. Len(item') - Len(item) = 0
  BY <1>1 DEF Reclaim, TypeOK, Ids
<1>4. Load \in Nat /\ Load' \in Nat /\ Load' <= Load + (-1)
  <2>1. Cost("RUNNING") = 6 /\ Cost("QUEUED") = 5
    BY DEF Cost
  <2>2. /\ Load \in Nat /\ Load' \in Nat
        /\ Load' = Load + Cost("QUEUED") - Cost(item[i].status) + 5 * (Len(item') - Len(item))
    BY <1>1, <1>2, LoadChanges
  <2>3. Load' = Load + 5 - 6 + 5 * 0
    BY <1>2, <1>3, <2>1, <2>2
  <2> QED
    BY <2>2, <2>3
<1>5. PICK w \in Workers : TRUE
  OBVIOUS
<1>6. Effort \in Nat /\ Effort' \in Nat /\ Effort' <= Effort + 0
  <2>1. \A v \in Workers : worker'[v] = worker[v]
    BY DEF Reclaim
  <2>2. /\ Effort \in Nat /\ Effort' \in Nat
        /\ Effort' = Effort + Weight(worker[w].pc) - Weight(worker[w].pc)
    BY <2>1, EffortChanges
  <2>3. Weight(worker[w].pc) \in 0 .. 4
    BY Weights
  <2> QED
    BY <2>2, <2>3
<1>7. Len(tries') = Len(tries) + 0 /\ faults' = faults + 0 /\ overdue' = overdue
  BY <1>1 DEF Reclaim, TypeOK
<1>8. Uses(0, 0, -1, 0)
  BY <1>4, <1>6, <1>7 DEF Uses
<1>9. 0 \in Nat /\ 0 \in Int /\ -1 \in Int
  OBVIOUS
<1> QED
  BY <1>1, <1>8, <1>9, LessIsLeft, Zenon

LEMMA LimitUsesUp ==
  ASSUME JobInv, TypeOK', RowsFollow, PassLimit
  PROVE  StepsLeft' < StepsLeft
<1>1. TypeOK
  BY DEF JobInv
<1>2. Load \in Nat /\ Load' \in Nat /\ Load' <= Load + 0
  BY <1>1, LoadRests DEF PassLimit
<1>3. PICK w \in Workers : TRUE
  OBVIOUS
<1>4. Effort \in Nat /\ Effort' \in Nat /\ Effort' <= Effort + 0
  <2>1. \A v \in Workers : worker'[v] = worker[v]
    BY DEF PassLimit
  <2>2. /\ Effort \in Nat /\ Effort' \in Nat
        /\ Effort' = Effort + Weight(worker[w].pc) - Weight(worker[w].pc)
    BY <2>1, EffortChanges
  <2>3. Weight(worker[w].pc) \in 0 .. 4
    BY Weights
  <2> QED
    BY <2>2, <2>3
<1>5. Len(tries') = Len(tries) + 0 /\ faults' = faults + 0 /\ ~overdue /\ overdue'
  BY <1>1 DEF PassLimit, TypeOK
<1>6. Uses(0, 0, 0, 0)
  BY <1>2, <1>4, <1>5 DEF Uses
<1>7. 0 \in Nat /\ 0 \in Int
  OBVIOUS
<1> QED
  BY <1>1, <1>6, <1>7, LessIsLeft, Zenon

\* A report goes on.
LEMMA ReadingUsesUp ==
  ASSUME JobInv, TypeOK', RowsFollow, NEW w \in Workers,
         \/ \E text \in Texts, raised \in BOOLEAN : CheckBudget(w, text, raised)
         \/ CountFixes(w)
  PROVE  StepsLeft' < StepsLeft
<1>1. TypeOK
  BY DEF JobInv
<1>2. UNCHANGED <<item, tries, overdue, faults>>
  <2>1. CASE CountFixes(w)
    BY <2>1 DEF CountFixes
  <2>2. ASSUME NEW text \in Texts, NEW raised \in BOOLEAN, CheckBudget(w, text, raised)
        PROVE  UNCHANGED <<item, tries, overdue, faults>>
    BY <2>2 DEF CheckBudget
  <2> QED
    BY <2>1, <2>2
<1>3. Load \in Nat /\ Load' \in Nat /\ Load' <= Load + 0
  BY <1>1, <1>2, LoadRests
<1>4. /\ \/ worker[w].pc = "executing" /\ worker'[w].pc = "counted"
         \/ worker[w].pc = "counted" /\ worker'[w].pc = "sized"
      /\ \A v \in Workers \ {w} : worker'[v] = worker[v]
  <2>1. worker[w] \in WorkerRow(Len(item))
    BY <1>1, WorkerFields
  <2>2. CASE CountFixes(w)
    <3>1. PICK k : k = RoomForFix
      OBVIOUS
    <3>2. /\ worker[w].pc = "counted"
          /\ worker' = [worker EXCEPT ![w] = [worker[w] EXCEPT !.pc = "sized", !.room = k]]
      BY <2>2, <3>1 DEF CountFixes
    <3> QED
      BY <1>1, <2>1, <3>2 DEF TypeOK, WorkerRow
  <2>3. ASSUME NEW text \in Texts, NEW raised \in BOOLEAN, CheckBudget(w, text, raised)
        PROVE  /\ worker[w].pc = "executing" /\ worker'[w].pc = "counted"
               /\ \A v \in Workers \ {w} : worker'[v] = worker[v]
    <3>1. PICK k : k = WithinBudget(worker[w].job, FailureType(Class(worker[w].job, text)))
      OBVIOUS
    <3>2. PICK same : same = NextSame(worker[w].job, raised)
      OBVIOUS
    <3>3. /\ worker[w].pc = "executing"
          /\ worker' = [worker EXCEPT ![w] = [worker[w] EXCEPT !.pc = "counted", !.text = text,
                                                               !.same = same, !.allowed = k]]
      BY <2>3, <3>1, <3>2 DEF CheckBudget
    <3> QED
      BY <1>1, <2>1, <3>3 DEF TypeOK, WorkerRow
  <2> QED
    BY <2>2, <2>3
<1>5. Effort \in Nat /\ Effort' \in Nat /\ Effort' <= Effort + (-1)
  <2>1. /\ Effort \in Nat /\ Effort' \in Nat
        /\ Effort' = Effort + Weight(worker'[w].pc) - Weight(worker[w].pc)
    BY <1>4, EffortChanges
  <2>2. CASE worker[w].pc = "executing" /\ worker'[w].pc = "counted"
    BY <2>1, <2>2, Weights
  <2>3. CASE worker[w].pc = "counted" /\ worker'[w].pc = "sized"
    BY <2>1, <2>3, Weights
  <2> QED
    BY <1>4, <2>2, <2>3
<1>6. Len(tries') = Len(tries) + 0 /\ faults' = faults + 0 /\ overdue' = overdue
  BY <1>1, <1>2 DEF TypeOK
<1>7. Uses(0, 0, 0, -1)
  BY <1>3, <1>5, <1>6 DEF Uses
<1>8. 0 \in Nat /\ 0 \in Int /\ -1 \in Int
  OBVIOUS
<1> QED
  BY <1>1, <1>7, <1>8, LessIsLeft, Zenon

\* A report ends, unrepaired or not ...
LEMMA EndUsesUp ==
  ASSUME JobInv, TypeOK', RowsFollow, QueuesNew, NEW w \in Workers, Done(w), UNCHANGED <<overdue, faults>>,
         NEW i \in Ids, NEW to \in {"QUEUED", "DONE", "FAILED"}, Ends(i, to), Settles(to)
  PROVE  StepsLeft' < StepsLeft
<1>1. TypeOK
  BY DEF JobInv
<1>2. Effort \in Nat /\ Effort' \in Nat /\ Effort' <= Effort + 4
  BY <1>1, DoneIsCheap
<1>3. PICK more \in 0 .. 1 : more = Len(item') - Len(item)
  <2>1. Len(item) \in Nat /\ Len(item') \in {Len(item), Len(item) + 1}
    BY <1>1 DEF QueuesNew, TypeOK
  <2>2. Len(item') - Len(item) \in 0 .. 1
    BY <2>1
  <2> QED
    BY <2>2
<1>4. Cost(item[i].status) = 6
  BY DEF Ends, Cost
<1>5. Load \in Nat /\ Load' \in Nat /\ Load' = Load + Cost(to) - 6 + 5 * more
  BY <1>1, <1>3, <1>4, LoadChanges DEF Ends
<1>6. faults' = faults + 0 /\ overdue' = overdue /\ Len(tries) \in Nat
  BY <1>1 DEF TypeOK
<1>7. /\ 0 \in Nat /\ 1 \in Nat /\ 4 \in Int /\ -1 \in Int /\ -6 \in Int
  OBVIOUS
<1>8. Cost("QUEUED") = 5 /\ Cost("DONE") = 0 /\ Cost("FAILED") = 0
  BY DEF Cost
<1>9. CASE UNCHANGED tries
  <2>1. to # "QUEUED" /\ more = 0
    <3>1. Len(item') = Len(item) /\ Len(item) \in Nat
      BY <1>1, <1>9 DEF Settles, TypeOK
    <3>2. ~OneMoreTry
      BY <1>6, <1>9 DEF OneMoreTry
    <3> QED
      BY <1>3, <3>1, <3>2 DEF Settles
  <2>2. Load' <= Load + (-6)
    BY <1>5, <1>8, <2>1
  <2>3. Len(tries') = Len(tries) + 0
    BY <1>6, <1>9
  <2>4. Uses(0, 0, -6, 4)
    BY <1>2, <1>5, <1>6, <2>2, <2>3 DEF Uses
  <2> QED
    BY <1>1, <1>7, <2>4, LessIsLeft, Zenon
<1>10. CASE ~UNCHANGED tries
  <2>1. Len(tries') = Len(tries) + 1
    <3>1. ASSUME NEW row, tries' = Append(tries, row)
          PROVE  Len(tries') = Len(tries) + 1
      BY <1>1, <3>1 DEF TypeOK
    <3> QED
      BY <1>10, <3>1 DEF Ends, Adds, Try
  <2>2. Load' <= Load + (-1)
    <3>1. CASE to = "QUEUED"
      <4>1. more = 0
        BY <1>1, <1>3, <3>1 DEF Settles, TypeOK
      <4> QED
        BY <1>5, <1>8, <3>1, <4>1
    <3>2. CASE to # "QUEUED"
      <4>1. Cost(to) = 0
        BY <1>8, <3>2
      <4> QED
        BY <1>5, <4>1
    <3> QED
      BY <3>1, <3>2
  <2>3. Uses(1, 0, -1, 4)
    BY <1>2, <1>5, <1>6, <2>1, <2>2 DEF Uses
  <2> QED
    BY <1>1, <1>7, <2>3, LessIsLeft, Zenon
<1> QED
  BY <1>9, <1>10

\* ... and that of a repair brings a retry.
LEMMA RetryUsesUp ==
  ASSUME JobInv, TypeOK', RowsFollow, NEW w \in Workers, Done(w), UNCHANGED <<overdue, faults>>,
         NEW fix, NEW old, NEW new, Retried(fix, old, new)
  PROVE  StepsLeft' < StepsLeft
<1>1. TypeOK
  BY DEF JobInv
<1>2. Effort \in Nat /\ Effort' \in Nat /\ Effort' <= Effort + 4
  BY <1>1, DoneIsCheap
<1>3. fix \in Ids /\ item[fix].status = "RUNNING" /\ Turning(fix, "DONE")
  BY DEF Retried, Brings, Turning
<1>4. Len(item') = Len(item) + 1 /\ Len(item) \in Nat
  <2>1. Len(item) \in Nat /\ Len(item') \in Nat
    BY <1>1 DEF TypeOK, RowsFollow
  <2>2. Ids' = Ids \cup {new} /\ new \notin Ids
    BY DEF Retried, Brings
  <2>3. Len(item') # Len(item)
    BY <2>2 DEF Ids
  <2>4. Len(item') < Len(item) + 2
    <3> SUFFICES ASSUME Len(item) + 2 <= Len(item')
                 PROVE  FALSE
      BY <2>1
    <3>1. /\ Len(item) + 1 \in Ids' /\ Len(item) + 2 \in Ids'
          /\ Len(item) + 1 \notin Ids /\ Len(item) + 2 \notin Ids
      BY <2>1 DEF Ids
    <3>2. Len(item) + 1 = Len(item) + 2
      BY <2>2, <3>1
    <3> QED
      BY <2>1, <3>2
  <2> QED
    BY <2>1, <2>3, <2>4 DEF RowsFollow
<1>5. QueuesNew
  BY <1>4 DEF QueuesNew, Retried, Brings
<1>6. Cost("RUNNING") = 6 /\ Cost("DONE") = 0
  BY DEF Cost
<1>7. Load \in Nat /\ Load' \in Nat /\ Load' <= Load + (-1)
  <2>1. /\ Load \in Nat /\ Load' \in Nat
        /\ Load' = Load + Cost("DONE") - Cost(item[fix].status) + 5 * (Len(item') - Len(item))
    BY <1>1, <1>3, <1>5, LoadChanges
  <2>2. Len(item') - Len(item) = 1
    BY <1>4
  <2>3. Load' = Load + 0 - 6 + 5 * 1
    BY <1>3, <1>6, <2>1, <2>2
  <2> QED
    BY <2>1, <2>3
<1>8. Len(tries') = Len(tries) + 1 /\ faults' = faults + 0 /\ overdue' = overdue
  BY <1>1 DEF Retried, OneMoreTry, TypeOK
<1>9. Uses(1, 0, -1, 4)
  BY <1>2, <1>7, <1>8 DEF Uses
<1>10. 0 \in Nat /\ 1 \in Nat /\ 4 \in Int /\ -1 \in Int
  OBVIOUS
<1> QED
  BY <1>1, <1>9, <1>10, LessIsLeft, Zenon

LEMMA ReportUsesUp ==
  ASSUME LineageInv, TypeOK', RowsFollow, NEW w \in Workers, Report(w)
  PROVE  StepsLeft' < StepsLeft
<1>1. JobInv
  BY DEF LineageInv
<1>2. CASE (\E text \in Texts, raised \in BOOLEAN : CheckBudget(w, text, raised)) \/ CountFixes(w)
  BY <1>1, <1>2, ReadingUsesUp
<1>3. CASE \/ \E text \in Texts, raised \in BOOLEAN : FailUnrecovered(w, text, raised)
           \/ Escalate(w) \/ CommitRetry(w) \/ CommitBlock(w) \/ CommitFix(w)
  <2>1. Done(w) /\ UNCHANGED <<overdue, faults>>
    BY <1>3 DEF FailUnrecovered, Escalate, CommitRetry, CommitBlock, CommitFix
  <2>2. QueuesNew
    <3>1. Passes
      BY <1>3, FailurePasses, RepairPasses
    <3> QED
      BY <1>1, <3>1, PassesQueuesNew
  <2>3. PICK i \in Ids, to \in {"FAILED", "QUEUED"} : Ends(i, to) /\ Settles(to)
    BY <1>1, <1>3, FailureTurns
  <2> QED
    BY <1>1, <2>1, <2>2, <2>3, EndUsesUp
<1>4. CASE ReportDone(w) \/ ReportFixEscalated(w)
  <2>1. Done(w) /\ UNCHANGED <<overdue, faults>>
    BY <1>4 DEF ReportDone, ReportFixEscalated
  <2>2. QueuesNew
    BY <1>1, <1>4, SuccessPasses, PassesQueuesNew
  <2>3. PICK i \in Ids : Ends(i, "DONE") /\ Settles("DONE")
    BY <1>1, <1>4, SuccessTurns
  <2> QED
    BY <1>1, <2>1, <2>2, <2>3, EndUsesUp
<1>5. CASE ReportFix(w)
  <2>1. Done(w) /\ UNCHANGED <<overdue, faults>>
    BY <1>5 DEF ReportFix
  <2>2. ASSUME Passes, NEW i \in Ids, Ends(i, "DONE"), Settles("DONE")
        PROVE  StepsLeft' < StepsLeft
    BY <1>1, <2>1, <2>2, PassesQueuesNew, EndUsesUp
  <2>3. ASSUME NEW fix, NEW old, NEW new, Retried(fix, old, new)
        PROVE  StepsLeft' < StepsLeft
    BY <1>1, <2>1, <2>3, RetryUsesUp
  <2> QED
    BY <1>5, <2>2, <2>3, FixTurns
<1> QED
  BY <1>2, <1>3, <1>4, <1>5 DEF Report, ReportFailed

LEMMA StepUsesUp ==
  ASSUME LineageInv, Next
  PROVE  StepsLeft' < StepsLeft
<1>1. JobInv /\ JobInv' /\ RowsFollow
  BY StepKeeps DEF LineageInv
<1>2. TypeOK'
  BY <1>1 DEF JobInv
<1>3. ASSUME NEW w \in Workers, NEW i \in Ids, Claim(w, i)
      PROVE  StepsLeft' < StepsLeft
  BY <1>1, <1>2, <1>3, QueuePasses, ClaimUsesUp
<1>4. ASSUME NEW w \in Workers, Abandon(w)
      PROVE  StepsLeft' < StepsLeft
  BY <1>1, <1>2, <1>4, AbandonUsesUp
<1>5. ASSUME NEW i \in Ids, Reclaim(i)
      PROVE  StepsLeft' < StepsLeft
  BY <1>1, <1>2, <1>5, QueuePasses, ReclaimUsesUp
<1>6. CASE PassLimit
  BY <1>1, <1>2, <1>6, LimitUsesUp
<1>7. ASSUME NEW w \in Workers, Report(w)
      PROVE  StepsLeft' < StepsLeft
  BY <1>1, <1>2, <1>7, ReportUsesUp
<1> QED
  BY <1>3, <1>4, <1>5, <1>6, <1>7 DEF Next

\* What is left is never less than nothing ...
LEMMA SomethingIsLeft ==
  ASSUME JobInv, BudgetsHold
  PROVE  StepsLeft \in Nat
<1>1. TypeOK
  BY DEF JobInv
<1>2. /\ Len(tries) \in Nat /\ faults \in 0 .. MaxFaults /\ MaxFaults \in Nat
      /\ Len(tries) <= MaxRun + Overrun
  BY <1>1 DEF TypeOK, BudgetsHold
<1>3. Overrun \in Int
  BY FS_CardinalityType DEF Overrun
<1>4. Ticks \in Nat
  BY DEF Ticks
<1>5. Load \in Nat
  <2>1. PICK r \in Nat, q \in Nat :
          r = Cardinality(RowsAt("RUNNING")) /\ q = Cardinality(RowsAt("QUEUED"))
    BY <1>1, RowsAreFew
  <2> QED
    BY <2>1 DEF Load
<1>6. ASSUME NEW pcs
      PROVE  Cardinality(WorkersAt(pcs)) \in Nat
  <2>1. WorkersAt(pcs) \subseteq Workers
    BY DEF WorkersAt
  <2> QED
    BY <2>1, FS_Subset, FS_CardinalityType
<1>7. Effort \in Nat
  <2>1. PICK a \in Nat, b \in Nat, c \in Nat :
          /\ a = Cardinality(WorkersAt({"idle"}))
          /\ b = Cardinality(WorkersAt({"idle", "executing"}))
          /\ c = Cardinality(WorkersAt({"idle", "executing", "counted"}))
    BY <1>6
  <2> QED
    BY <2>1 DEF Effort
<1>8. 10 * ((MaxRun + Overrun) - Len(tries)) \in Nat /\ 10 * (MaxFaults - faults) \in Nat
  BY <1>2, <1>3
<1> QED
  BY <1>4, <1>5, <1>7, <1>8 DEF StepsLeft

\* ... and was, when the run began, what the constants say.
LEMMA AtFirst ==
  ASSUME Init
  PROVE  StepsLeft = 10 * (MaxRun + Overrun) + 10 * MaxFaults + 1
                       + 5 * Len(Graph) + 4 * Cardinality(Workers)
<1>1. Len(Graph) \in Nat /\ Len(item) = Len(Graph)
  BY DEF Init
<1>2. \A i \in Ids : item[i].status = "QUEUED"
  BY <1>1 DEF Init, Ids, NewItem
<1>3. PICK n \in Nat : n = Len(Graph)
  BY <1>1
<1>4. Load = 5 * n
  <2>1. RowsAt("RUNNING") = {} /\ RowsAt("QUEUED") = Ids
    BY <1>2 DEF RowsAt
  <2>2. Cardinality(Ids) = n
    <3>1. Ids = 1 .. n
      BY <1>1, <1>3 DEF Ids
    <3>2. Cardinality(1 .. n) = IF 1 > n THEN 0 ELSE n - 1 + 1
      BY FS_Interval
    <3> QED
      BY <3>1, <3>2
  <2>3. PICK r, q : r = Cardinality(RowsAt("RUNNING")) /\ q = Cardinality(RowsAt("QUEUED"))
    OBVIOUS
  <2>4. r = 0 /\ q = n
    BY <2>1, <2>2, <2>3, FS_EmptySet
  <2>5. Load = 6 * r + 5 * q
    BY <2>3 DEF Load
  <2> QED
    BY <2>4, <2>5
<1>5. PICK c \in Nat : c = Cardinality(Workers)
  BY FS_CardinalityType
<1>6. Effort = 4 * c
  <2>1. \A w \in Workers : worker[w].pc = "idle"
    BY DEF Init, IdleWorker
  <2>2. /\ WorkersAt({"idle"}) = Workers
        /\ WorkersAt({"idle", "executing"}) = Workers
        /\ WorkersAt({"idle", "executing", "counted"}) = Workers
    BY <2>1 DEF WorkersAt
  <2> QED
    BY <1>5, <2>2 DEF Effort
<1>7. Len(tries) = 0 /\ faults = 0 /\ Ticks = 1
  BY DEF Init, Ticks
<1>8. PICK room \in Int : room = MaxRun + Overrun
  <2>1. Overrun \in Int
    BY FS_CardinalityType DEF Overrun
  <2> QED
    BY <2>1
<1>9. StepsLeft = 10 * (room - 0) + 10 * (MaxFaults - 0) + 1 + 5 * n + 4 * c
  BY <1>4, <1>6, <1>7, <1>8 DEF StepsLeft
<1>10. MaxFaults \in Nat
  OBVIOUS
<1> QED
  BY <1>3, <1>5, <1>8, <1>9, <1>10

\* Whatever executions print, however many workers report at once and however often
\* they die, a run takes no more steps than these: every step, whoever takes it, leaves
\* fewer of them, and there are never less than none.
THEOREM RecoveryIsFinite ==
  Spec => /\ StepsLeft = 10 * (MaxRun + Overrun) + 10 * MaxFaults + 1
                           + 5 * Len(Graph) + 4 * Cardinality(Workers)
          /\ StepsAreUsedUp
          /\ [](StepsLeft \in Nat)
<1>1. LineageInv /\ [Next]_vars => LineageInv'
  BY StepKeepsLineage
<1>2. LineageInv /\ [Next]_vars => [StepsLeft' < StepsLeft]_vars
  BY StepUsesUp
<1>3. LineageInv /\ BudgetsHold => StepsLeft \in Nat
  BY SomethingIsLeft DEF LineageInv
<1> QED
  BY InitKeepsLineage, AtFirst, BudgetsKept, <1>1, <1>2, <1>3, PTL DEF Spec, StepsAreUsedUp

=============================================================================
