-------------------------- MODULE EmbeddedRun_proofs --------------------------
(***************************************************************************)
(* However many tasks drive a run in the API process, however batches,     *)
(* priorities and repairs are, and whatever is lost: no item is executed   *)
(* by two of them at once; and a task alone on its run executes nothing    *)
(* twice whose success it kept, and comes to the right verdict.            *)
(***************************************************************************)
EXTENDS EmbeddedRunProps, WellFoundedInduction, TLAPS

USE ConstantsAssumption

-----------------------------------------------------------------------------
(* The next item of a batch.                                               *)

LEMMA Smallest ==
  ASSUME NEW S, S \subseteq Nat, S # {}
  PROVE  \E i \in S : \A j \in S : i <= j
<1> DEFINE Less == {p \in Nat \X Nat : p[1] < p[2]}
<1>1. IsWellFoundedOn(Less, Nat)
  BY NatLessThanWellFounded DEF OpToRel
<1>2. PICK i \in S : \A j \in S : ~(<<j, i>> \in Less)
  <2> HIDE DEF Less
  <2> QED
    BY <1>1, WFMin
<1>3. \A j \in S : j \in Nat /\ i \in Nat
  OBVIOUS
<1>4. \A j \in S : ~(j < i)
  BY <1>2, <1>3
<1> QED
  BY <1>3, <1>4

LEMMA FirstIsIn ==
  ASSUME NEW S \in SUBSET Items, S # {}
  PROVE  First(S) \in S
<1>1. S \subseteq Nat
  OBVIOUS
<1> QED
  BY <1>1, Smallest DEF First

LEMMA CurrentIsNext ==
  ASSUME TypeOK, NEW l \in Loops, loop[l].at \in AtItem
  PROVE  Current(l) \in loop[l].rest /\ Current(l) \in Items
<1>1. loop[l].rest \in SUBSET Items /\ loop[l].rest # {}
  BY DEF TypeOK, Task
<1> QED
  BY <1>1, FirstIsIn DEF Current

\* What tasks become.
LEMMA Turns ==
  /\ Nothing \in [Items -> OwnRows \cup {NoRow}]
  /\ Off \in Task
  /\ \A seen \in Concluded \cup {"RUNNING", "-"} :
        Turn(seen) \in Task /\ [Turn(seen) EXCEPT !.at = "count"] \in Task
        /\ [Turn(seen) EXCEPT !.at = "finalize"] \in Task
  BY DEF Nothing, Off, Turn, Task, Places

-----------------------------------------------------------------------------
(* No item is executed by two tasks at once.                               *)

\* What a step of one task has to keep.
LEMMA StepKeeps ==
  ASSUME ExecutionInv, NEW l \in Loops, NEW turn \in Task, Becomes(l, turn),
         TypeOK', turn.at \in AtItem <=> turn.rest # {},
         \A i \in Items : item'[i].status = "NONE" => item[i].status = "NONE",
         turn.at = "execute" => turn.own[First(turn.rest)] # NoRow,
         \A i \in Items : turn.own[i] # NoRow =>
            loop[l].own[i] # NoRow \/ \A m \in Others(l) : i \notin Held(m),
         \A i \in DOMAIN RepairOf :
            turn.own[RepairOf[i]] # NoRow /\ item'[RepairOf[i]].status = "NONE" => turn.own[i] # NoRow,
         \A i \in Items :
            turn.own[i].status = "RUNNING" => turn.at = "execute" /\ i = First(turn.rest),
         \A i \in turn.rest : item'[i].status # "NONE",
         turn.at \in Looking => turn.own = Nothing
  PROVE  ExecutionInv'
<1>1. /\ loop'[l] = turn
      /\ \A m \in Loops : m # l => loop'[m] = loop[m]
  BY DEF ExecutionInv, TypeOK, Becomes
<1>2. /\ \A m \in Loops : m # l => Held(m)' = Held(m) /\ Current(m)' = Current(m)
      /\ Held(l)' = {i \in Items : turn.own[i] # NoRow}
      /\ Current(l)' = First(turn.rest)
  BY <1>1 DEF Held, Current
<1>3. HoldsCurrent'
  <2>1. ASSUME turn.at = "execute" PROVE First(turn.rest) \in Items
    BY <2>1, FirstIsIn DEF Task, AtItem
  <2> QED
    BY <1>1, <1>2, <2>1 DEF ExecutionInv, HoldsCurrent
<1>4. HeldByOne'
  BY <1>1, <1>2 DEF ExecutionInv, HeldByOne, Others, Held
<1>5. HoldsRepaired'
  BY <1>1, <1>2 DEF ExecutionInv, HoldsRepaired, Held
<1>6. RunningIsCurrent'
  BY <1>1, <1>2 DEF ExecutionInv, RunningIsCurrent
<1>7. BatchIsKnown'
  BY <1>1, <1>2 DEF ExecutionInv, BatchIsKnown, TypeOK, Task
<1>8. LookingHoldsNothing'
  BY <1>1 DEF ExecutionInv, LookingHoldsNothing
<1> QED
  BY <1>3, <1>4, <1>5, <1>6, <1>7, <1>8 DEF ExecutionInv

\* Rows that a task has changed can be committed when none is RUNNING.
LEMMA CommitKeeps ==
  ASSUME ExecutionInv, NEW l \in Loops, loop[l].at # "execute", Commits(l)
  PROVE  /\ item' \in [Items -> Rows]
         /\ \A i \in Items : item'[i].status = "NONE" => item[i].status = "NONE"
<1>1. \A i \in Held(l) : loop[l].own[i] \in Rows /\ loop[l].own[i].status # "NONE"
  BY DEF ExecutionInv, TypeOK, RunningIsCurrent, Held, Task, OwnRows, Rows, Statuses
<1> QED
  BY <1>1 DEF Commits, ExecutionInv, TypeOK, Held

\* A task that holds nothing keeps everything.
LEMMA IdleKeeps ==
  ASSUME ExecutionInv, NEW l \in Loops, NEW turn \in Task, Becomes(l, turn),
         run' \in Concluded \cup {"RUNNING"}, item' \in [Items -> Rows],
         \A i \in Items : item'[i].status = "NONE" => item[i].status = "NONE",
         calls' \in 0 .. MaxCalls, mishaps' \in 0 .. MaxMishaps, crossed' \in BOOLEAN,
         done' \subseteq Items, redone' \subseteq Items, undone' \subseteq Items,
         turn.own = Nothing, turn.at # "execute", turn.at \in AtItem <=> turn.rest # {},
         \A i \in turn.rest : item'[i].status # "NONE"
  PROVE  ExecutionInv'
<1>1. TypeOK'
  BY DEF ExecutionInv, TypeOK, Becomes
<1>2. \A i \in Items : turn.own[i] = NoRow /\ turn.own[i].status # "RUNNING"
  BY DEF Nothing, NoRow, Row
<1>3. \A i \in DOMAIN RepairOf : RepairOf[i] \in Items
  BY DEF ConstantsAssumption
<1>4. /\ \A i \in Items : turn.own[i] # NoRow =>
            loop[l].own[i] # NoRow \/ \A m \in Others(l) : i \notin Held(m)
      /\ \A i \in DOMAIN RepairOf :
            turn.own[RepairOf[i]] # NoRow /\ item'[RepairOf[i]].status = "NONE" => turn.own[i] # NoRow
      /\ \A i \in Items :
            turn.own[i].status = "RUNNING" => turn.at = "execute" /\ i = First(turn.rest)
  BY <1>2, <1>3
<1> QED
  BY <1>1, <1>4, StepKeeps

LEMMA TopKeeps == ASSUME ExecutionInv, NEW l \in Loops, Top(l) PROVE ExecutionInv'
<1> DEFINE turn == [Turn(loop[l].seen) EXCEPT
                       !.at = IF loop[l].seen \in Concluded THEN "finalize" ELSE "count"]
<1>0. loop[l].seen \in Concluded \cup {"RUNNING", "-"}
  BY DEF ExecutionInv, TypeOK, Task
<1>1. turn \in Task /\ turn.own = Nothing /\ turn.rest = {} /\ turn.at \in {"finalize", "count"}
  BY <1>0, Turns DEF Turn
<1>2. Becomes(l, turn)
  BY DEF Top
<1> HIDE DEF turn
<1> QED
  BY <1>1, <1>2, CommitKeeps, IdleKeeps DEF Top, bounds, history, ExecutionInv, TypeOK, AtItem

LEMMA FinalizeKeeps == ASSUME ExecutionInv, NEW l \in Loops, Finalize(l) PROVE ExecutionInv'
<1>1. Off \in Task /\ Off.own = Nothing /\ Off.rest = {} /\ Off.at = "off"
  BY Turns DEF Off, Turn
<1>2. run' \in Concluded \cup {"RUNNING"}
  BY DEF Finalize, Verdict, Concluded, ExecutionInv, TypeOK
<1>3. /\ item' \in [Items -> Rows]
      /\ \A i \in Items : item'[i].status = "NONE" => item[i].status = "NONE"
  BY CommitKeeps DEF Finalize
<1>4. Becomes(l, Off) /\ UNCHANGED <<calls, mishaps, crossed, done, redone, undone>>
  BY DEF Finalize, bounds, history
<1> HIDE DEF Off
<1> QED
  BY <1>1, <1>2, <1>3, <1>4, IdleKeeps DEF ExecutionInv, TypeOK, AtItem

\* What the steps that only read, or that give up what they hold, have in common.
LEMMA LookKeeps ==
  ASSUME ExecutionInv, NEW l \in Loops, Count(l) \/ Failures(l) \/ Select(l) \/ Blocked(l)
  PROVE  ExecutionInv'
<1>0. loop[l].own = Nothing
  BY DEF Count, Failures, Select, Blocked, ExecutionInv, LookingHoldsNothing, Looking
<1>1. UNCHANGED <<run, item, calls, mishaps, crossed, done, redone, undone>>
  BY DEF Count, Failures, Select, Blocked, bounds, history
<1>2. \E turn \in Task :
         /\ Becomes(l, turn)
         /\ turn.own = Nothing
         /\ turn.at # "execute"
         /\ turn.at \in AtItem <=> turn.rest # {}
         /\ \A i \in turn.rest : item[i].status # "NONE"
  <2>1. loop[l] \in Task /\ loop[l].own = Nothing /\ (loop[l].at \in AtItem <=> loop[l].rest # {})
    BY <1>0 DEF ExecutionInv, TypeOK
  <2>2. CASE Count(l)
    <3>1. [loop[l] EXCEPT !.at = "failures", !.queued = Is("QUEUED") # {}] \in Task
      BY <2>1 DEF Task, Places
    <3> QED
      BY <2>1, <2>2, <3>1 DEF Count, Task, AtItem
  <2>3. CASE Failures(l)
    <3> DEFINE turn == [loop[l] EXCEPT !.queued = FALSE,
                                       !.failed = \E i \in Items : Blocks(i),
                                       !.at = IF loop[l].queued THEN "select" ELSE "finalize"]
    <3>1. (\E i \in Items : Blocks(i)) \in BOOLEAN
      OBVIOUS
    <3>2. turn \in Task
      BY <2>1, <3>1 DEF Task, Places
    <3> QED
      BY <2>1, <2>3, <3>2 DEF Failures, Task, AtItem
  <2>4. CASE Select(l)
    <3> DEFINE turn == [loop[l] EXCEPT !.rest = Runnable,
                                       !.at = IF Runnable # {} THEN "start"
                                              ELSE IF loop[l].failed THEN "blocked" ELSE "top"]
    <3>1. Runnable \subseteq Items /\ \A i \in Runnable : item[i].status = "QUEUED"
      BY DEF Runnable, FirstQueued, Is
    <3>2. turn \in Task /\ turn.own = Nothing /\ turn.rest = Runnable
      BY <2>1, <3>1 DEF Task, Places
    <3>3. turn.at # "execute" /\ (turn.at \in AtItem <=> Runnable # {})
      BY <2>1 DEF Task, AtItem
    <3>4. Becomes(l, turn)
      BY <2>4 DEF Select
    <3> HIDE DEF turn
    <3> QED
      BY <3>1, <3>2, <3>3, <3>4
  <2>5. CASE Blocked(l)
    <3> DEFINE turn == [loop[l] EXCEPT !.rest = Is("QUEUED"),
                                       !.at = IF Is("QUEUED") = {} THEN "finalize" ELSE "cancel"]
    <3>1. Is("QUEUED") \subseteq Items /\ \A i \in Is("QUEUED") : item[i].status = "QUEUED"
      BY DEF Is
    <3>2. turn \in Task /\ turn.own = Nothing /\ turn.rest = Is("QUEUED")
      BY <2>1, <3>1 DEF Task, Places
    <3>3. turn.at # "execute" /\ (turn.at \in AtItem <=> Is("QUEUED") # {})
      BY <2>1 DEF Task, AtItem
    <3>4. Becomes(l, turn)
      BY <2>5 DEF Blocked
    <3> HIDE DEF turn
    <3> QED
      BY <3>1, <3>2, <3>3, <3>4
  <2> QED
    BY <2>2, <2>3, <2>4, <2>5
<1> QED
  BY <1>1, <1>2, IdleKeeps DEF ExecutionInv, TypeOK

\* A step that changes the row of the item under way.
LEMMA RowKeeps ==
  ASSUME ExecutionInv, NEW l \in Loops, loop[l].at \in AtItem,
         loop[l].at = "execute" \/ ForItem(l, Current(l)) = {},
         UNCHANGED <<item, run, calls, mishaps, crossed>>,
         done' \subseteq Items, redone' \subseteq Items, undone' \subseteq Items,
         NEW row \in OwnRows, NEW turn \in Task, Becomes(l, turn),
         turn.own = [loop[l].own EXCEPT ![Current(l)] = row],
         turn.rest \subseteq loop[l].rest,
         turn.at \in AtItem <=> turn.rest # {}, turn.at \notin Looking,
         turn.at = "execute" => First(turn.rest) = Current(l),
         row.status = "RUNNING" => turn.at = "execute"
  PROVE  ExecutionInv'
<1> DEFINE cur == Current(l)
<1>1. /\ cur \in Items /\ cur \in loop[l].rest
      /\ loop[l] \in Task
      /\ row # NoRow
  BY CurrentIsNext DEF ExecutionInv, TypeOK, OwnRows, NoRow, Row, Statuses
<1>2. /\ turn.own[cur] = row
      /\ \A i \in Items : i # cur => turn.own[i] = loop[l].own[i]
  BY <1>1 DEF Task
<1>3. TypeOK'
  BY DEF ExecutionInv, TypeOK, Becomes
<1>4. \A i \in Items : turn.own[i] # NoRow =>
         loop[l].own[i] # NoRow \/ \A m \in Others(l) : i \notin Held(m)
  <2>1. CASE loop[l].at = "execute"
    BY <1>1, <1>2, <2>1 DEF ExecutionInv, HoldsCurrent, Held
  <2>2. CASE ForItem(l, cur) = {}
    BY <1>1, <1>2, <2>2 DEF ForItem
  <2> QED
    BY <2>1, <2>2
<1>5. \A i \in DOMAIN RepairOf :
         turn.own[RepairOf[i]] # NoRow /\ item'[RepairOf[i]].status = "NONE" => turn.own[i] # NoRow
  <2> SUFFICES ASSUME NEW i \in DOMAIN RepairOf,
                      turn.own[RepairOf[i]] # NoRow, item[RepairOf[i]].status = "NONE"
               PROVE  turn.own[i] # NoRow
    OBVIOUS
  <2>1. i \in Items /\ RepairOf[i] \in Items
    BY DEF ConstantsAssumption
  <2>2. RepairOf[i] # cur
    BY <1>1 DEF ExecutionInv, BatchIsKnown
  <2>3. loop[l].own[i] # NoRow
    BY <1>2, <2>1, <2>2 DEF ExecutionInv, HoldsRepaired, Held
  <2> QED
    BY <1>1, <1>2, <2>1, <2>3
<1>6. \A i \in Items : turn.own[i].status = "RUNNING" => turn.at = "execute" /\ i = First(turn.rest)
  BY <1>1, <1>2 DEF ExecutionInv, RunningIsCurrent
<1>7. turn.at = "execute" => turn.own[First(turn.rest)] # NoRow
  BY <1>1, <1>2
<1>8. \A i \in turn.rest : item'[i].status # "NONE"
  BY DEF ExecutionInv, BatchIsKnown
<1> HIDE DEF cur
<1> QED
  BY <1>3, <1>4, <1>5, <1>6, <1>7, <1>8, StepKeeps

LEMMA CancelBlockedKeeps ==
  ASSUME ExecutionInv, NEW l \in Loops, CancelBlocked(l) PROVE ExecutionInv'
<1> DEFINE row == [item[Current(l)] EXCEPT !.status = "CANCELED"]
           turn == [loop[l] EXCEPT !.own[Current(l)] = row,
                                   !.rest = Rest(l),
                                   !.at = IF Rest(l) = {} THEN "finalize" ELSE "cancel"]
<1>1. loop[l].at \in AtItem /\ loop[l] \in Task /\ ForItem(l, Current(l)) = {}
  BY DEF CancelBlocked, AtItem, ExecutionInv, TypeOK
<1>2. row \in OwnRows /\ row.status = "CANCELED"
  BY <1>1, CurrentIsNext DEF ExecutionInv, TypeOK, Rows, OwnRows, Statuses
<1>3. Rest(l) \subseteq loop[l].rest /\ Rest(l) \subseteq Items
  BY <1>1 DEF Rest, Task
<1> HIDE DEF row
<1>4. /\ turn \in Task
      /\ turn.own = [loop[l].own EXCEPT ![Current(l)] = row]
      /\ turn.rest = Rest(l)
      /\ turn.at \in AtItem <=> turn.rest # {}
      /\ turn.at \notin Looking /\ turn.at # "execute"
  BY <1>1, <1>2, <1>3 DEF Task, Places, AtItem, Looking
<1>5. Becomes(l, turn)
  BY DEF CancelBlocked, row
<1>6. UNCHANGED <<item, run, calls, mishaps, crossed, done, redone, undone>>
  BY DEF CancelBlocked, bounds, history
<1>7. done \subseteq Items /\ redone \subseteq Items /\ undone \subseteq Items
  BY DEF ExecutionInv, TypeOK
<1> HIDE DEF turn
<1> QED
  BY <1>1, <1>2, <1>3, <1>4, <1>5, <1>6, <1>7, RowKeeps

LEMMA StartKeeps == ASSUME ExecutionInv, NEW l \in Loops, Start(l) PROVE ExecutionInv'
<1> DEFINE row == [item[Current(l)] EXCEPT !.status = "RUNNING"]
           turn == [loop[l] EXCEPT !.own[Current(l)] = row, !.at = "execute"]
<1>1. /\ loop[l].at \in AtItem /\ loop[l] \in Task /\ ForItem(l, Current(l)) = {}
      /\ loop[l].rest # {}
  BY DEF Start, AtItem, ExecutionInv, TypeOK
<1>2. row \in OwnRows
  BY <1>1, CurrentIsNext DEF ExecutionInv, TypeOK, Rows, OwnRows
<1> HIDE DEF row
<1>3. /\ turn \in Task
      /\ turn.own = [loop[l].own EXCEPT ![Current(l)] = row]
      /\ turn.rest = loop[l].rest
      /\ turn.at = "execute" /\ turn.at \in AtItem /\ turn.at \notin Looking
  BY <1>1, <1>2 DEF Task, Places, AtItem, Looking
<1>4. First(turn.rest) = Current(l)
  BY <1>3 DEF Current
<1>5. Becomes(l, turn)
  BY DEF Start, row
<1>6. UNCHANGED <<item, run, calls, mishaps, crossed, done, redone, undone>>
  BY DEF Start, bounds, history
<1>7. done \subseteq Items /\ redone \subseteq Items /\ undone \subseteq Items
  BY DEF ExecutionInv, TypeOK
<1> HIDE DEF turn
<1> QED
  BY <1>1, <1>2, <1>3, <1>4, <1>5, <1>6, <1>7, RowKeeps

\* What is left of the batch once an item is through.
LEMMA AfterItemIs ==
  ASSUME NEW l \in Loops, loop[l] \in Task, NEW own \in [Items -> OwnRows \cup {NoRow}]
  PROVE  /\ AfterItem(l, own) \in Task
         /\ AfterItem(l, own).own = own
         /\ AfterItem(l, own).rest = Rest(l)
         /\ AfterItem(l, own).at = IF Rest(l) = {} THEN "top" ELSE "start"
<1>1. Rest(l) \subseteq Items
  BY DEF Rest, Task
<1> QED
  BY <1>1 DEF AfterItem, Task, Places

\* What the end of an item makes of the rows that its task holds: another row of
\* the item, and maybe a first row of its repair.
Ended(l, own) ==
  \/ \E new \in OwnRows : new.status # "RUNNING" /\ own = [loop[l].own EXCEPT ![Current(l)] = new]
  \/ /\ Current(l) \in DOMAIN RepairOf /\ item[RepairOf[Current(l)]].status = "NONE"
     /\ \E new \in OwnRows : new.status # "RUNNING"
           /\ own = [loop[l].own EXCEPT ![Current(l)] = new, ![RepairOf[Current(l)]] = Row("QUEUED")]

LEMMA RecoveredRows ==
  ASSUME NEW l \in Loops,
         NEW row \in [status : Statuses \cup {"RUNNING"}, attempt : Attempts],
         NEW own \in Recovered(loop[l].own, Current(l), row)
  PROVE  Ended(l, own)
<1>1. /\ [row EXCEPT !.status = "FAILED"] \in OwnRows
      /\ [row EXCEPT !.status = "FAILED"].status # "RUNNING"
      /\ [row EXCEPT !.status = "SUPERSEDED"] \in OwnRows
      /\ [row EXCEPT !.status = "SUPERSEDED"].status # "RUNNING"
  BY DEF OwnRows, Statuses
<1>2. ASSUME row.attempt + 1 < MaxAttempts
      PROVE  /\ [status |-> "QUEUED", attempt |-> row.attempt + 1] \in OwnRows
             /\ [status |-> "QUEUED", attempt |-> row.attempt + 1].status # "RUNNING"
  BY <1>2 DEF OwnRows, Statuses, Attempts
<1> QED
  BY <1>1, <1>2 DEF Recovered, Ended

LEMMA EndedRows ==
  ASSUME NEW l \in Loops, loop[l] \in Task, NEW own, Ended(l, own)
  PROVE  own \in [Items -> OwnRows \cup {NoRow}]
<1>1. Row("QUEUED") \in OwnRows
  BY DEF Row, OwnRows, Statuses, Attempts, ConstantsAssumption
<1> QED
  BY <1>1 DEF Ended, Task, ConstantsAssumption

\* A step that ends an item.
LEMMA ItemEnds ==
  ASSUME ExecutionInv, NEW l \in Loops, loop[l].at \in {"execute", "raised"},
         loop[l].at = "execute" \/ ForItem(l, Current(l)) = {},
         UNCHANGED <<item, run, calls, mishaps, crossed>>,
         done' \subseteq Items, redone' \subseteq Items, undone' \subseteq Items,
         NEW turn \in Task, Becomes(l, turn),
         turn.at = (IF Rest(l) = {} THEN "top" ELSE "start"), turn.rest = Rest(l),
         Ended(l, turn.own)
  PROVE  ExecutionInv'
<1> DEFINE cur == Current(l)
<1>1. /\ loop[l].at \in AtItem /\ loop[l] \in Task /\ cur \in Items /\ cur \in loop[l].rest
      /\ Rest(l) \subseteq loop[l].rest
      /\ turn.at \in {"top", "start"} /\ (turn.at \in AtItem <=> turn.rest # {}) /\ turn.at \notin Looking
  BY CurrentIsNext DEF AtItem, Looking, Rest, ExecutionInv, TypeOK
<1>2. CASE \E new \in OwnRows : new.status # "RUNNING" /\ turn.own = [loop[l].own EXCEPT ![Current(l)] = new]
  BY <1>1, <1>2, RowKeeps
<1>3. ASSUME cur \in DOMAIN RepairOf, item[RepairOf[cur]].status = "NONE",
             NEW new \in OwnRows, new.status # "RUNNING",
             turn.own = [loop[l].own EXCEPT ![cur] = new, ![RepairOf[cur]] = Row("QUEUED")]
      PROVE  ExecutionInv'
  <2> DEFINE fix == RepairOf[cur]
  <2>1. /\ fix \in Items /\ fix # cur
        /\ \A j \in DOMAIN RepairOf : j \in Items /\ RepairOf[j] \in Items
        /\ \A j \in DOMAIN RepairOf : RepairOf[j] = fix => j = cur
    BY <1>3 DEF ConstantsAssumption
  <2>2. /\ turn.own[cur] = new /\ turn.own[fix] = Row("QUEUED")
        /\ \A i \in Items \ {cur, fix} : turn.own[i] = loop[l].own[i]
        /\ new # NoRow /\ Row("QUEUED") # NoRow /\ Row("QUEUED").status # "RUNNING"
    BY <1>1, <1>3, <2>1 DEF Task, Row, NoRow, OwnRows, Statuses
  <2> HIDE DEF cur, fix
  <2>3. TypeOK'
    BY <1>1 DEF ExecutionInv, TypeOK, Becomes
  <2>4. \A m \in Others(l) : cur \notin Held(m)
    <3>1. CASE loop[l].at = "execute"
      BY <1>1, <3>1 DEF ExecutionInv, HoldsCurrent, HeldByOne, Others, cur
    <3>2. CASE ForItem(l, Current(l)) = {}
      BY <3>2 DEF ForItem, cur
    <3> QED
      BY <3>1, <3>2
  <2>5. \A m \in Others(l) : fix \notin Held(m)
    BY <1>3, <2>4 DEF ExecutionInv, HoldsRepaired, Others, fix
  <2>6. \A i \in Items : turn.own[i] # NoRow =>
           loop[l].own[i] # NoRow \/ \A m \in Others(l) : i \notin Held(m)
    BY <2>2, <2>4, <2>5
  <2>7. \A i \in DOMAIN RepairOf :
           turn.own[RepairOf[i]] # NoRow /\ item'[RepairOf[i]].status = "NONE" => turn.own[i] # NoRow
    <3> SUFFICES ASSUME NEW i \in DOMAIN RepairOf,
                        turn.own[RepairOf[i]] # NoRow, item[RepairOf[i]].status = "NONE"
                 PROVE  turn.own[i] # NoRow
      OBVIOUS
    <3>1. CASE RepairOf[i] = fix
      BY <2>1, <2>2, <3>1
    <3>2. CASE RepairOf[i] # fix
      <4>1. RepairOf[i] # cur
        BY <1>1 DEF ExecutionInv, BatchIsKnown
      <4>2. loop[l].own[i] # NoRow
        BY <2>1, <2>2, <3>2, <4>1 DEF ExecutionInv, HoldsRepaired, Held
      <4> QED
        BY <2>1, <2>2, <4>2
    <3> QED
      BY <3>1, <3>2
  <2>8. \A i \in Items : turn.own[i].status = "RUNNING" => turn.at = "execute" /\ i = First(turn.rest)
    <3>1. \A i \in Items \ {cur, fix} : turn.own[i].status # "RUNNING"
      BY <2>2 DEF ExecutionInv, RunningIsCurrent, cur
    <3> QED
      BY <1>3, <2>2, <3>1
  <2>9. \A i \in turn.rest : item'[i].status # "NONE"
    BY <1>1 DEF ExecutionInv, BatchIsKnown
  <2> QED
    BY <1>1, <2>3, <2>6, <2>7, <2>8, <2>9, StepKeeps
<1> QED
  BY <1>2, <1>3 DEF Ended

\* A task that asks a model changes nothing else.
LEMMA AskKeeps == ASSUME ExecutionInv, NEW l \in Loops, Ask(l) PROVE ExecutionInv'
<1> DEFINE turn == [loop[l] EXCEPT !.asking = TRUE]
<1>0. loop[l] \in Task /\ loop[l].at = "execute"
  BY DEF Ask, ExecutionInv, TypeOK
<1>1. /\ turn \in Task /\ turn.at = loop[l].at /\ turn.own = loop[l].own
      /\ turn.rest = loop[l].rest /\ turn.at = "execute"
  BY <1>0 DEF Task
<1>2. /\ Becomes(l, turn)
      /\ UNCHANGED <<item, run, calls, mishaps, crossed, done, redone, undone>>
  BY DEF Ask, bounds, history
<1> HIDE DEF turn
<1>3. TypeOK'
  BY <1>1, <1>2 DEF ExecutionInv, TypeOK, Becomes
<1>4. /\ turn.at \in AtItem <=> turn.rest # {}
      /\ turn.own[First(turn.rest)] # NoRow
      /\ turn.at \notin Looking
  BY <1>1 DEF ExecutionInv, TypeOK, HoldsCurrent, Held, Current, Looking
<1>5. \A i \in DOMAIN RepairOf :
         turn.own[RepairOf[i]] # NoRow /\ item'[RepairOf[i]].status = "NONE" => turn.own[i] # NoRow
  BY <1>1, <1>2 DEF ExecutionInv, HoldsRepaired, Held, ConstantsAssumption
<1>6. /\ \A i \in Items : turn.own[i].status = "RUNNING" => i = First(turn.rest)
      /\ \A i \in turn.rest : item'[i].status # "NONE"
  BY <1>1, <1>2 DEF ExecutionInv, RunningIsCurrent, BatchIsKnown, Current
<1> QED
  BY <1>1, <1>2, <1>3, <1>4, <1>5, <1>6, StepKeeps

LEMMA DoneKeeps == ASSUME ExecutionInv, NEW l \in Loops, Done(l) PROVE ExecutionInv'
<1> DEFINE new == [loop[l].own[Current(l)] EXCEPT !.status = "DONE"]
           own == [loop[l].own EXCEPT ![Current(l)].status = "DONE"]
<1>1. /\ loop[l].at = "execute" /\ loop[l] \in Task /\ Current(l) \in Items
      /\ Current(l) \in Held(l)
  BY CurrentIsNext DEF Done, AtItem, ExecutionInv, TypeOK, HoldsCurrent
<1>2. new \in OwnRows /\ new.status # "RUNNING"
  BY <1>1 DEF Held, Task, OwnRows, Statuses
<1>3. Ended(l, own)
  BY <1>1, <1>2 DEF Ended
<1>4. /\ Becomes(l, AfterItem(l, own))
      /\ UNCHANGED <<item, run, calls, mishaps, crossed>>
      /\ done' \subseteq Items /\ redone' \subseteq Items /\ undone' \subseteq Items
  BY <1>1 DEF Done, bounds, ExecutionInv, TypeOK
<1> HIDE DEF new, own
<1>5. /\ AfterItem(l, own) \in Task
      /\ AfterItem(l, own).own = own
      /\ AfterItem(l, own).rest = Rest(l)
      /\ AfterItem(l, own).at = IF Rest(l) = {} THEN "top" ELSE "start"
  BY <1>1, <1>3, AfterItemIs, EndedRows
<1> QED
  BY <1>1, <1>3, <1>4, <1>5, ItemEnds

LEMMA FailKeeps == ASSUME ExecutionInv, NEW l \in Loops, Fail(l) PROVE ExecutionInv'
<1>1. /\ loop[l].at = "execute" /\ loop[l] \in Task /\ Current(l) \in Items
      /\ Current(l) \in Held(l)
  BY CurrentIsNext DEF Fail, AtItem, ExecutionInv, TypeOK, HoldsCurrent
<1>2. loop[l].own[Current(l)] \in [status : Statuses \cup {"RUNNING"}, attempt : Attempts]
  BY <1>1 DEF Held, Task, OwnRows
<1>3. PICK own \in Recovered(loop[l].own, Current(l), loop[l].own[Current(l)]) :
         Becomes(l, AfterItem(l, own))
  BY DEF Fail
<1>4. Ended(l, own)
  BY <1>2, RecoveredRows
<1>5. /\ UNCHANGED <<item, run, calls, mishaps, crossed>>
      /\ done' \subseteq Items /\ redone' \subseteq Items /\ undone' \subseteq Items
  BY DEF Fail, bounds, history, ExecutionInv, TypeOK
<1>6. /\ AfterItem(l, own) \in Task
      /\ AfterItem(l, own).own = own
      /\ AfterItem(l, own).rest = Rest(l)
      /\ AfterItem(l, own).at = IF Rest(l) = {} THEN "top" ELSE "start"
  BY <1>1, <1>4, AfterItemIs, EndedRows
<1> QED
  BY <1>1, <1>3, <1>4, <1>5, <1>6, ItemEnds

LEMMA RecoverKeeps == ASSUME ExecutionInv, NEW l \in Loops, Recover(l) PROVE ExecutionInv'
<1>1. /\ loop[l].at = "raised" /\ loop[l] \in Task /\ Current(l) \in Items
      /\ ForItem(l, Current(l)) = {}
  BY CurrentIsNext DEF Recover, WaitsFor, AtItem, ExecutionInv, TypeOK
<1>2. item[Current(l)] \in [status : Statuses \cup {"RUNNING"}, attempt : Attempts]
  BY <1>1 DEF ExecutionInv, TypeOK, Rows
<1>3. PICK own \in Recovered(loop[l].own, Current(l), item[Current(l)]) :
         Becomes(l, [AfterItem(l, own) EXCEPT !.seen = run])
  BY DEF Recover
<1>4. Ended(l, own)
  BY <1>2, RecoveredRows
<1>5. /\ UNCHANGED <<item, run, calls, mishaps, crossed>>
      /\ done' \subseteq Items /\ redone' \subseteq Items /\ undone' \subseteq Items
  BY DEF Recover, bounds, history, ExecutionInv, TypeOK
<1>6. /\ AfterItem(l, own) \in Task
      /\ AfterItem(l, own).own = own
      /\ AfterItem(l, own).rest = Rest(l)
      /\ AfterItem(l, own).at = IF Rest(l) = {} THEN "top" ELSE "start"
  BY <1>1, <1>4, AfterItemIs, EndedRows
<1> DEFINE turn == [AfterItem(l, own) EXCEPT !.seen = run]
<1>7. run \in Concluded \cup {"RUNNING", "-"}
  BY DEF ExecutionInv, TypeOK
<1>8. /\ turn \in Task /\ turn.own = own /\ turn.rest = Rest(l)
      /\ turn.at = IF Rest(l) = {} THEN "top" ELSE "start"
  BY <1>6, <1>7 DEF Task
<1>9. Becomes(l, turn)
  BY <1>3
<1> HIDE DEF turn
<1> QED
  BY <1>1, <1>4, <1>5, <1>8, <1>9, ItemEnds

LEMMA RaiseKeeps == ASSUME ExecutionInv, NEW l \in Loops, Raise(l) PROVE ExecutionInv'
<1> DEFINE turn == [loop[l] EXCEPT !.at = "raised", !.own = Nothing, !.synced = FALSE,
                                  !.asking = FALSE]
<1>1. loop[l] \in Task /\ loop[l].rest # {}
  BY DEF Raise, ExecutionInv, TypeOK, AtItem
<1>2. /\ turn \in Task /\ turn.own = Nothing /\ turn.at = "raised" /\ turn.rest = loop[l].rest
      /\ turn.at \in AtItem
  <2>1. Nothing \in [Items -> OwnRows \cup {NoRow}] /\ "raised" \in Places
    BY Turns DEF Places
  <2>2. turn \in Task
    BY <1>1, <2>1 DEF Task
  <2>3. turn.own = Nothing /\ turn.at = "raised" /\ turn.rest = loop[l].rest
    BY <1>1 DEF Task
  <2> QED
    BY <2>2, <2>3 DEF AtItem
<1>3. Becomes(l, turn)
  BY DEF Raise
<1>4. /\ UNCHANGED <<item, run, calls, mishaps, crossed, done, redone>>
      /\ undone' \subseteq Items
  BY DEF Raise, Discards, bounds, Held, ExecutionInv, TypeOK
<1> HIDE DEF turn
<1> QED
  BY <1>1, <1>2, <1>3, <1>4, IdleKeeps DEF ExecutionInv, TypeOK, BatchIsKnown

\* A task that ends, or loses its commit, gives up all it holds.
LEMMA LossKeeps ==
  ASSUME ExecutionInv, NEW l \in Loops, LoseCommit(l) \/ Die(l) \/ BreakCycle(l)
  PROVE  ExecutionInv'
<1>1. /\ Off.own = Nothing /\ Off.at = "off" /\ Off.rest = {}
      /\ Turn(run).own = Nothing /\ Turn(run).at = "top" /\ Turn(run).rest = {}
  BY DEF Off, Turn
<1>2. Off \in Task /\ Turn(run) \in Task
  BY Turns DEF ExecutionInv, TypeOK
<1>3. UNCHANGED <<item, run, calls, crossed, done, redone>> /\ undone' \subseteq Items
  BY DEF LoseCommit, Die, BreakCycle, Ends, Discards, Held, ExecutionInv, TypeOK
<1>4. mishaps' \in 0 .. MaxMishaps
  BY DEF LoseCommit, Die, BreakCycle, ExecutionInv, TypeOK, ConstantsAssumption
<1>5. Becomes(l, Off) \/ Becomes(l, Turn(run))
  BY DEF LoseCommit, Die, BreakCycle, Ends
<1> HIDE DEF Off, Turn
<1> QED
  BY <1>1, <1>2, <1>3, <1>4, <1>5, IdleKeeps DEF ExecutionInv, TypeOK, AtItem

LEMMA CancelKeeps == ASSUME ExecutionInv, Cancel PROVE ExecutionInv'
<1>1. UNCHANGED <<item, loop, mishaps, crossed, done, redone, undone>>
  BY DEF Cancel, Requests, history
<1>2. TypeOK'
  BY <1>1 DEF ExecutionInv, TypeOK, Cancel, Requests, Concluded, ConstantsAssumption
<1> QED
  BY <1>1, <1>2
  DEF ExecutionInv, HoldsCurrent, HeldByOne, HoldsRepaired, RunningIsCurrent, BatchIsKnown,
      LookingHoldsNothing, Held, Current

LEMMA ResumeKeeps == ASSUME ExecutionInv, NEW l \in Loops, Resume(l) PROVE ExecutionInv'
<1>1. /\ Turn("RUNNING").own = Nothing /\ Turn("RUNNING").at = "top"
      /\ Turn("RUNNING").rest = {} /\ Turn("RUNNING") \in Task
  BY Turns DEF Turn
<1>2. /\ item' \in [Items -> Rows]
      /\ \A i \in Items : item'[i].status = "NONE" => item[i].status = "NONE"
  BY DEF Resume, ExecutionInv, TypeOK, Rows, Statuses
<1>3. crossed' \in BOOLEAN
  BY DEF Resume, ExecutionInv, TypeOK
<1>4. /\ run' \in Concluded \cup {"RUNNING"} /\ mishaps' \in 0 .. MaxMishaps
      /\ calls' \in 0 .. MaxCalls
      /\ done' \subseteq Items /\ redone' \subseteq Items /\ undone' \subseteq Items
  BY DEF Resume, Requests, ExecutionInv, TypeOK, ConstantsAssumption
<1>5. Becomes(l, Turn("RUNNING"))
  BY DEF Resume
<1> HIDE DEF Turn
<1> QED
  BY <1>1, <1>2, <1>3, <1>4, <1>5, IdleKeeps DEF AtItem

LEMMA ExecutionStart == Init => ExecutionInv
<1> SUFFICES ASSUME Init PROVE ExecutionInv
  OBVIOUS
<1>1. \A l \in Loops : /\ loop[l].own = Nothing /\ loop[l].rest = {}
                       /\ loop[l].at \in {"top", "off"} /\ loop[l] \in Task
  BY Turns DEF Init, Turn, Off
<1>2. TypeOK
  <2>1. item \in [Items -> Rows]
    BY DEF Init, Row, Rows, Statuses, Attempts, ConstantsAssumption
  <2>2. loop \in [Loops -> Task]
    <3>1. Turn("RUNNING") \in Task /\ Off \in Task
      BY Turns
    <3> QED
      BY <3>1 DEF Init
  <2>3. \A l \in Loops : loop[l].at \in AtItem <=> loop[l].rest # {}
    BY <1>1 DEF AtItem
  <2>4. calls \in 0 .. MaxCalls /\ mishaps \in 0 .. MaxMishaps
    BY DEF Init, ConstantsAssumption
  <2>5. /\ run \in Concluded \cup {"RUNNING"} /\ crossed \in BOOLEAN
        /\ done \subseteq Items /\ redone \subseteq Items /\ undone \subseteq Items
    BY DEF Init
  <2> QED
    BY <2>1, <2>2, <2>3, <2>4, <2>5 DEF TypeOK
<1>3. \A l \in Loops, i \in Items : loop[l].own[i] = NoRow /\ NoRow.status # "RUNNING"
  BY <1>1 DEF Nothing, NoRow, Row
<1>4. \A l \in Loops : Held(l) = {}
  BY <1>3 DEF Held
<1>5. \A i \in DOMAIN RepairOf : RepairOf[i] \in Items
  BY DEF ConstantsAssumption
<1> QED
  BY <1>1, <1>2, <1>3, <1>4, <1>5
  DEF ExecutionInv, HoldsCurrent, HeldByOne, HoldsRepaired, RunningIsCurrent, BatchIsKnown,
      LookingHoldsNothing

LEMMA ExecutionStep == ExecutionInv /\ [Next]_vars => ExecutionInv'
<1> SUFFICES ASSUME ExecutionInv, [Next]_vars PROVE ExecutionInv'
  OBVIOUS
<1>1. ASSUME NEW l \in Loops, Step(l) PROVE ExecutionInv'
  BY <1>1, TopKeeps, LookKeeps, CancelBlockedKeeps, FinalizeKeeps, StartKeeps, AskKeeps,
     DoneKeeps, FailKeeps, RaiseKeeps, RecoverKeeps, LossKeeps DEF Step
<1>2. ASSUME NEW l \in Loops, LoseCommit(l) \/ Die(l) \/ Resume(l) PROVE ExecutionInv'
  BY <1>2, LossKeeps, ResumeKeeps
<1>3. CASE Cancel
  BY <1>3, CancelKeeps
<1>4. CASE UNCHANGED vars
  BY <1>4
  DEF vars, bounds, history, ExecutionInv, TypeOK, HoldsCurrent, HeldByOne, HoldsRepaired,
      RunningIsCurrent, BatchIsKnown, LookingHoldsNothing, Held, Current
<1> QED
  BY <1>1, <1>2, <1>3, <1>4 DEF Next

LEMMA Executions == Spec => []ExecutionInv
  BY ExecutionStart, ExecutionStep, PTL DEF Spec

\* The types of the rows, the tasks and the history (start, _process_work_item).
THEOREM TypeCorrect == Spec => []TypeOK
<1>1. ExecutionInv => TypeOK
  BY DEF ExecutionInv
<1> QED
  BY <1>1, Executions, PTL

\* However many tasks drive a run, with whatever crashes, lost commits and
\* resumed runs: no two execute the same item at the same time.  Both would hold
\* the item's row, from the update that _process_work_item begins with.
THEOREM OneAtATime == Spec => []OneExecutionEach
<1>1. ExecutionInv => OneExecutionEach
  <2> SUFFICES ASSUME ExecutionInv, NEW l \in Loops, NEW m \in Loops,
                      loop[l].at = "execute", loop[m].at = "execute", Current(l) = Current(m)
               PROVE  l = m
    BY DEF OneExecutionEach
  <2>1. Current(l) \in Held(l) \cap Held(m)
    BY DEF ExecutionInv, HoldsCurrent
  <2> QED
    BY <2>1 DEF ExecutionInv, HeldByOne
<1> QED
  BY <1>1, Executions, PTL

-----------------------------------------------------------------------------
(* A task alone on its run, whatever raises, whatever it loses and however *)
(* often it is stopped and resumed: what its steps have to keep.           *)

\* Of what a task alone succeeded in, a turn of it keeps what is not discarded.
KeepsDone(turn) ==
  \A i \in done' \ undone' :
     /\ i \notin turn.rest
     /\ \/ item'[i].status = "DONE" /\ turn.own[i] = NoRow
        \/ item'[i].status # "NONE" /\ turn.own[i].status = "DONE"

KeepsUncanceled(turn) ==
  turn.at # "off" =>
     /\ \A i \in Items : item'[i].status # "CANCELED"
     /\ turn.at \notin {"cancel", "finalize"} => \A i \in Items : turn.own[i].status # "CANCELED"

\* Tasks that are off do nothing, and when one runs the others are off.
LEMMA OthersAreOff ==
  ASSUME ExecutionInv, AloneInv, ~crossed, NEW l \in Loops, loop[l].at # "off", NEW m \in Others(l)
  PROVE  m \in Loops /\ m # l /\ loop[m].at = "off" /\ loop[m].rest = {} /\ Held(m) = {}
<1>1. m \in Loops /\ m # l /\ loop[m].at = "off"
  BY DEF AloneInv, OnlyOne, Others
<1>2. loop[m].rest = {} /\ loop[m].own = Nothing
  BY <1>1 DEF ExecutionInv, TypeOK, AtItem, LookingHoldsNothing, Looking
<1> QED
  BY <1>1, <1>2 DEF Held, Nothing

\* What the task holds of the items it succeeded in.
LEMMA KeptSoFar ==
  ASSUME ExecutionInv, AloneInv, ~crossed, NEW l \in Loops, loop[l].at # "off",
         NEW i \in done \ undone
  PROVE  /\ i \in Items /\ i \notin loop[l].rest /\ item[i].status # "NONE"
         /\ \/ item[i].status = "DONE" /\ loop[l].own[i] = NoRow
            \/ loop[l].own[i].status = "DONE" /\ i \in Held(l)
<1>1. i \in Items
  BY DEF ExecutionInv, TypeOK
<1>2. i \notin loop[l].rest
  BY DEF AloneInv, DoneIsKept
<1>3. CASE item[i].status = "DONE" /\ \A m \in Loops : i \notin Held(m)
  BY <1>1, <1>2, <1>3 DEF Held
<1>4. CASE item[i].status # "NONE" /\ \E m \in Loops : loop[m].own[i].status = "DONE"
  <2>1. PICK m \in Loops : loop[m].own[i].status = "DONE"
    BY <1>4
  <2>2. i \in Held(m)
    BY <1>1, <2>1 DEF Held, NoRow, Row
  <2>3. m = l
    BY <2>2, OthersAreOff DEF Others
  <2> QED
    BY <1>1, <1>2, <1>4, <2>1, <2>2, <2>3
<1> QED
  BY <1>3, <1>4 DEF AloneInv, DoneIsKept

LEMMA AloneKeeps ==
  ASSUME ExecutionInv, ExecutionInv', AloneInv, ~crossed, NEW l \in Loops, loop[l].at # "off",
         NEW turn \in Task, Becomes(l, turn), ~crossed',
         KeepsDone(turn), KeepsUncanceled(turn), redone' \subseteq undone',
         turn.at # "off" /\ turn.seen \in Concluded => run' \in Concluded,
         FoundOut(l)'
  PROVE  AloneInv'
<1>1. /\ loop'[l] = turn
      /\ \A m \in Loops : m # l => loop'[m] = loop[m]
  BY DEF ExecutionInv, TypeOK, Becomes
<1>2. \A m \in Loops : m # l => loop'[m].at = "off" /\ loop'[m].rest = {} /\ Held(m)' = {}
  BY <1>1, OthersAreOff DEF Others, Held
<1>3. OnlyOne'
  BY <1>2 DEF OnlyOne
<1>4. DoneIsKept'
  <2> SUFFICES ASSUME NEW i \in done' \ undone'
               PROVE  /\ \A m \in Loops : i \notin loop'[m].rest
                      /\ \/ item'[i].status = "DONE" /\ \A m \in Loops : i \notin Held(m)'
                         \/ item'[i].status # "NONE" /\ \E m \in Loops : loop'[m].own[i].status = "DONE"
    BY DEF DoneIsKept
  <2>1. \A m \in Loops : i \notin loop'[m].rest
    BY <1>1, <1>2 DEF KeepsDone
  <2>2. Held(l)' = {j \in Items : turn.own[j] # NoRow}
    BY <1>1 DEF Held
  <2> QED
    BY <1>1, <1>2, <2>1, <2>2 DEF KeepsDone
<1>5. SeenIsTrue'
  BY <1>1, <1>2 DEF SeenIsTrue
<1>6. NoneCanceled'
  BY <1>1, <1>2 DEF NoneCanceled, KeepsUncanceled, Is
<1>7. \A m \in Loops : FoundOut(m)'
  BY <1>2 DEF FoundOut
<1> QED
  BY <1>3, <1>4, <1>5, <1>6, <1>7 DEF AloneInv, DoneOnce

\* A step that leaves the items and the history alone.
LEMMA QuietKeeps ==
  ASSUME ExecutionInv, ExecutionInv', AloneInv, ~crossed, NEW l \in Loops, loop[l].at # "off",
         NEW turn \in Task, Becomes(l, turn),
         UNCHANGED <<run, item, crossed, done, redone, undone>>,
         \A i \in Items : i \in done \ undone => i \notin turn.rest,
         \A i \in Items : i \in done \ undone => turn.own[i] = loop[l].own[i],
         turn.at \notin {"cancel", "finalize"} => \A i \in Items : turn.own[i].status # "CANCELED",
         turn.seen \in {loop[l].seen, run}, FoundOut(l)'
  PROVE  AloneInv'
<1>1. KeepsDone(turn)
  <2> SUFFICES ASSUME NEW i \in done \ undone
               PROVE  /\ i \notin turn.rest
                      /\ \/ item[i].status = "DONE" /\ turn.own[i] = NoRow
                         \/ item[i].status # "NONE" /\ turn.own[i].status = "DONE"
    BY DEF KeepsDone
  <2>1. i \in Items /\ turn.own[i] = loop[l].own[i]
    BY KeptSoFar
  <2> QED
    BY <2>1, KeptSoFar
<1>2. KeepsUncanceled(turn)
  BY DEF KeepsUncanceled, AloneInv, NoneCanceled, Is
<1>3. redone' \subseteq undone' /\ (turn.seen \in Concluded => run' \in Concluded)
  BY DEF AloneInv, DoneOnce, SeenIsTrue
<1> QED
  BY <1>1, <1>2, <1>3, AloneKeeps

LEMMA LookAlone ==
  ASSUME ExecutionInv, ExecutionInv', AloneInv, ~crossed, NEW l \in Loops,
         Count(l) \/ Failures(l) \/ Select(l) \/ Blocked(l)
  PROVE  AloneInv'
<1>1. /\ loop[l] \in Task /\ loop[l].own = Nothing /\ loop[l].rest = {} /\ loop[l].at # "off"
      /\ \A i \in Items : Nothing[i].status # "CANCELED" /\ Nothing[i] = NoRow
  BY DEF Count, Failures, Select, Blocked, ExecutionInv, TypeOK, AtItem, LookingHoldsNothing,
         Looking, Nothing, NoRow, Row
<1>2. UNCHANGED <<run, item, crossed, done, redone, undone>>
  BY DEF Count, Failures, Select, Blocked, history
<1>3. \A i \in Items : i \in done \ undone => item[i].status = "DONE"
  BY <1>1, KeptSoFar DEF NoRow, Row
<1>4. \A turn : Becomes(l, turn) => loop'[l] = turn
  BY DEF ExecutionInv, TypeOK, Becomes
<1>5. CASE Count(l)
  <2> DEFINE turn == [loop[l] EXCEPT !.at = "failures", !.queued = Is("QUEUED") # {}]
  <2>1. turn \in Task /\ turn.own = Nothing /\ turn.rest = {} /\ turn.seen = loop[l].seen
        /\ turn.at = "failures" /\ turn.queued = (Is("QUEUED") # {})
    BY <1>1 DEF Task, Places
  <2>2. Becomes(l, turn)
    BY <1>5 DEF Count
  <2> HIDE DEF turn
  <2>3. FoundOut(l)'
    BY <1>2, <1>4, <2>1, <2>2 DEF FoundOut, Is
  <2> QED
    BY <1>1, <1>2, <2>1, <2>2, <2>3, QuietKeeps
<1>6. CASE Failures(l)
  <2> DEFINE turn == [loop[l] EXCEPT !.queued = FALSE,
                                     !.failed = \E i \in Items : Blocks(i),
                                     !.at = IF loop[l].queued THEN "select" ELSE "finalize"]
  <2>1. (\E i \in Items : Blocks(i)) \in BOOLEAN
    OBVIOUS
  <2>2. turn \in Task /\ turn.own = Nothing /\ turn.rest = {} /\ turn.seen = loop[l].seen
        /\ turn.at = (IF loop[l].queued THEN "select" ELSE "finalize")
        /\ turn.failed = \E i \in Items : Blocks(i)
    BY <1>1, <2>1 DEF Task, Places
  <2>3. Becomes(l, turn)
    BY <1>6 DEF Failures
  <2> HIDE DEF turn
  <2>4. (\E i \in Items : Blocks(i))' = \E i \in Items : Blocks(i)
    BY <1>2 DEF Blocks
  <2>5. FoundOut(l)'
    <3>1. CASE loop[l].queued
      BY <1>4, <2>2, <2>3, <2>4, <3>1 DEF FoundOut
    <3>2. CASE ~loop[l].queued
      <4>1. Is("QUEUED") = {} /\ Is("QUEUED")' = {}
        BY <1>2, <1>6, <3>2 DEF Failures, AloneInv, FoundOut, Is
      <4>2. Held(l)' = {}
        BY <1>1, <1>4, <2>2, <2>3 DEF Held
      <4>3. (\E i \in Items : Blocks(i)) => Canceling(l)'
        BY <1>4, <2>2, <2>3, <2>4, <4>1, <4>2 DEF Canceling
      <4> QED
        BY <1>4, <2>2, <2>3, <2>4, <3>2, <4>1, <4>3 DEF FoundOut
    <3> QED
      BY <1>1, <3>1, <3>2 DEF Task
  <2> QED
    BY <1>1, <1>2, <2>2, <2>3, <2>5, QuietKeeps
<1>7. CASE Select(l)
  <2> DEFINE turn == [loop[l] EXCEPT !.rest = Runnable,
                                     !.at = IF Runnable # {} THEN "start"
                                            ELSE IF loop[l].failed THEN "blocked" ELSE "top"]
  <2>1. Runnable \subseteq Items /\ \A i \in Runnable : item[i].status = "QUEUED"
    BY DEF Runnable, FirstQueued, Is
  <2>2. turn \in Task /\ turn.own = Nothing /\ turn.rest = Runnable /\ turn.seen = loop[l].seen
        /\ turn.failed = loop[l].failed
        /\ turn.at = IF Runnable # {} THEN "start" ELSE IF loop[l].failed THEN "blocked" ELSE "top"
    BY <1>1, <2>1 DEF Task, Places
  <2>3. Becomes(l, turn)
    BY <1>7 DEF Select
  <2> HIDE DEF turn
  <2>4. (\E i \in Items : Blocks(i))' = \E i \in Items : Blocks(i)
    BY <1>2 DEF Blocks
  <2>5. FoundOut(l)'
    BY <1>4, <1>7, <2>2, <2>3, <2>4 DEF Select, AloneInv, FoundOut
  <2> QED
    BY <1>1, <1>2, <1>3, <2>1, <2>2, <2>3, <2>5, QuietKeeps
<1>8. CASE Blocked(l)
  <2> DEFINE turn == [loop[l] EXCEPT !.rest = Is("QUEUED"),
                                     !.at = IF Is("QUEUED") = {} THEN "finalize" ELSE "cancel"]
  <2>1. Is("QUEUED") \subseteq Items /\ \A i \in Is("QUEUED") : item[i].status = "QUEUED"
    BY DEF Is
  <2>2. turn \in Task /\ turn.own = Nothing /\ turn.rest = Is("QUEUED") /\ turn.seen = loop[l].seen
        /\ turn.failed = loop[l].failed
        /\ turn.at = IF Is("QUEUED") = {} THEN "finalize" ELSE "cancel"
    BY <1>1, <2>1 DEF Task, Places
  <2>3. Becomes(l, turn)
    BY <1>8 DEF Blocked
  <2> HIDE DEF turn
  <2>4. /\ (\E i \in Items : Blocks(i))' = \E i \in Items : Blocks(i)
        /\ Is("QUEUED")' = Is("QUEUED")
    BY <1>2 DEF Blocks, Is
  <2>5. Held(l)' = {}
    BY <1>1, <1>4, <2>2, <2>3 DEF Held
  <2>6. loop[l].failed /\ \E i \in Items : Blocks(i)
    BY <1>8 DEF Blocked, AloneInv, FoundOut
  <2>7. Canceling(l)' /\ loop'[l].failed
    BY <1>4, <2>2, <2>3, <2>4, <2>5, <2>6 DEF Canceling
  <2>8. FoundOut(l)'
    BY <1>4, <2>2, <2>3, <2>7 DEF FoundOut
  <2> QED
    BY <1>1, <1>2, <1>3, <2>1, <2>2, <2>3, <2>8, QuietKeeps
<1> QED
  BY <1>5, <1>6, <1>7, <1>8

LEMMA CancelBlockedAlone ==
  ASSUME ExecutionInv, ExecutionInv', AloneInv, ~crossed, NEW l \in Loops, CancelBlocked(l)
  PROVE  AloneInv'
<1> DEFINE cur == Current(l)
           row == [item[cur] EXCEPT !.status = "CANCELED"]
           turn == [loop[l] EXCEPT !.own[cur] = row,
                                   !.rest = Rest(l),
                                   !.at = IF Rest(l) = {} THEN "finalize" ELSE "cancel"]
<1>1. /\ loop[l].at = "cancel" /\ loop[l] \in Task /\ cur \in Items /\ cur \in loop[l].rest
      /\ Rest(l) = loop[l].rest \ {cur}
  BY CurrentIsNext DEF CancelBlocked, AtItem, ExecutionInv, TypeOK, Rest
<1>2. row \in OwnRows /\ row.status = "CANCELED" /\ row # NoRow
  BY <1>1 DEF ExecutionInv, TypeOK, Rows, OwnRows, Statuses, NoRow, Row
<1> HIDE DEF row
<1>3. /\ turn \in Task /\ turn.rest = loop[l].rest \ {cur} /\ turn.seen = loop[l].seen
      /\ turn.failed = loop[l].failed
      /\ turn.own = [loop[l].own EXCEPT ![cur] = row]
      /\ turn.at \in {"finalize", "cancel"}
  BY <1>1, <1>2 DEF Task, Places
<1>4. /\ Becomes(l, turn)
      /\ UNCHANGED <<run, item, crossed, done, redone, undone>>
  BY DEF CancelBlocked, row, history
<1> HIDE DEF cur, turn
<1>5. /\ turn.own[cur] = row
      /\ \A i \in Items : i # cur => turn.own[i] = loop[l].own[i]
  BY <1>1, <1>3 DEF Task
<1>6. loop'[l] = turn
  BY <1>4 DEF ExecutionInv, TypeOK, Becomes
<1>7. Held(l)' = Held(l) \cup {cur}
  BY <1>1, <1>2, <1>5, <1>6 DEF Held
<1>8. Canceling(l) /\ loop[l].failed
  BY <1>1 DEF AloneInv, FoundOut
<1>9. Canceling(l)'
  <2>1. (\E i \in Items : Blocks(i))' /\ Is("QUEUED")' = Is("QUEUED")
    BY <1>4, <1>8 DEF Canceling, Blocks, Is
  <2>2. \A i \in Items : i \in Is("QUEUED")' <=> i \in loop'[l].rest \cup Held(l)'
    BY <1>1, <1>3, <1>6, <1>7, <1>8, <2>1 DEF Canceling
  <2>3. \A i \in Held(l)' : loop'[l].own[i].status = "CANCELED"
    BY <1>2, <1>5, <1>6, <1>7, <1>8 DEF Canceling, Held
  <2> QED
    BY <2>1, <2>2, <2>3 DEF Canceling
<1>10. FoundOut(l)'
  BY <1>3, <1>6, <1>8, <1>9 DEF FoundOut
<1>11. \A i \in Items : i \in done \ undone => i \notin turn.rest /\ turn.own[i] = loop[l].own[i]
  BY <1>1, <1>3, <1>5, KeptSoFar
<1>12. /\ loop[l].at # "off" /\ turn \in Task /\ turn.at \in {"cancel", "finalize"}
       /\ turn.seen \in {loop[l].seen, run}
  BY <1>1, <1>3
<1>13. \A i \in Items : i \in done \ undone => i \notin turn.rest
  BY <1>11
<1>14. \A i \in Items : i \in done \ undone => turn.own[i] = loop[l].own[i]
  BY <1>11
<1> QED
  BY <1>4, <1>10, <1>12, <1>13, <1>14, QuietKeeps

LEMMA StartAlone ==
  ASSUME ExecutionInv, ExecutionInv', AloneInv, ~crossed, NEW l \in Loops, Start(l)
  PROVE  AloneInv'
<1> DEFINE cur == Current(l)
           row == [item[cur] EXCEPT !.status = "RUNNING"]
           turn == [loop[l] EXCEPT !.own[cur] = row, !.at = "execute"]
<1>1. /\ loop[l].at = "start" /\ loop[l] \in Task /\ cur \in Items /\ cur \in loop[l].rest
  BY CurrentIsNext DEF Start, AtItem, ExecutionInv, TypeOK
<1>2. row \in OwnRows /\ row.status = "RUNNING"
  BY <1>1 DEF ExecutionInv, TypeOK, Rows, OwnRows
<1> HIDE DEF row
<1>3. /\ turn \in Task /\ turn.rest = loop[l].rest /\ turn.seen = loop[l].seen
      /\ turn.own = [loop[l].own EXCEPT ![cur] = row]
      /\ turn.at = "execute"
  BY <1>1, <1>2 DEF Task, Places
<1>4. /\ Becomes(l, turn)
      /\ UNCHANGED <<run, item, crossed, done, redone, undone>>
  BY DEF Start, row, history
<1> HIDE DEF cur, turn
<1>5. /\ turn.own[cur] = row
      /\ \A i \in Items : i # cur => turn.own[i] = loop[l].own[i]
  BY <1>1, <1>3 DEF Task
<1>6. FoundOut(l)'
  BY <1>3, <1>4 DEF FoundOut, ExecutionInv, TypeOK, Becomes
<1>7. \A i \in Items : i \in done \ undone => i \notin turn.rest /\ turn.own[i] = loop[l].own[i]
  BY <1>1, <1>3, <1>5, KeptSoFar
<1>8. \A i \in Items : turn.own[i].status # "CANCELED"
  BY <1>1, <1>2, <1>5 DEF AloneInv, NoneCanceled
<1> QED
  BY <1>1, <1>3, <1>4, <1>6, <1>7, <1>8, QuietKeeps

\* The end of an item leaves what it made of the other rows.
LEMMA EndedElsewhere ==
  ASSUME NEW l \in Loops, loop[l] \in Task, NEW own, Ended(l, own), Current(l) \in Items
  PROVE  /\ \A i \in Items : i # Current(l) /\ item[i].status # "NONE" => own[i] = loop[l].own[i]
         /\ \A i \in Items : own[i].status = "CANCELED" => loop[l].own[i].status = "CANCELED" \/ i = Current(l)
<1>1. Row("QUEUED").status # "CANCELED"
  BY DEF Row
<1>2. \A i \in DOMAIN RepairOf : RepairOf[i] \in Items
  BY DEF ConstantsAssumption
<1> QED
  BY <1>1, <1>2 DEF Ended, Task

LEMMA AskAlone ==
  ASSUME ExecutionInv, ExecutionInv', AloneInv, ~crossed, NEW l \in Loops, Ask(l)
  PROVE  AloneInv'
<1> DEFINE turn == [loop[l] EXCEPT !.asking = TRUE]
<1>1. /\ turn \in Task /\ turn.at = "execute" /\ turn.own = loop[l].own
      /\ turn.rest = loop[l].rest /\ turn.seen = loop[l].seen /\ loop[l].at = "execute"
  <2>1. loop[l] \in Task /\ loop[l].at = "execute"
    BY DEF Ask, ExecutionInv, TypeOK
  <2> QED
    BY <2>1 DEF Task
<1>2. /\ Becomes(l, turn)
      /\ UNCHANGED <<run, item, crossed, done, redone, undone>>
  BY DEF Ask, history
<1> HIDE DEF turn
<1>3. FoundOut(l)'
  BY <1>1, <1>2 DEF FoundOut, ExecutionInv, TypeOK, Becomes
<1>4. \A i \in Items : turn.own[i].status # "CANCELED"
  <2>1. loop[l].at \notin {"cancel", "finalize", "off"}
    BY <1>1
  <2> QED
    BY <1>1, <2>1 DEF AloneInv, NoneCanceled
<1>5. \A i \in Items : i \in done \ undone => i \notin turn.rest
  BY <1>1, KeptSoFar
<1>6. loop[l].at # "off" /\ turn.seen \in {loop[l].seen, run}
  BY <1>1
<1> QED
  BY <1>1, <1>2, <1>3, <1>4, <1>5, <1>6, QuietKeeps

LEMMA DoneAlone ==
  ASSUME ExecutionInv, ExecutionInv', AloneInv, ~crossed, NEW l \in Loops, Done(l)
  PROVE  AloneInv'
<1> DEFINE cur == Current(l)
           own == [loop[l].own EXCEPT ![cur].status = "DONE"]
           turn == AfterItem(l, own)
<1>1. /\ loop[l].at = "execute" /\ loop[l] \in Task /\ cur \in Items /\ cur \in loop[l].rest
      /\ cur \in Held(l) /\ Rest(l) = loop[l].rest \ {cur} /\ item[cur].status # "NONE"
  BY CurrentIsNext DEF Done, AtItem, ExecutionInv, TypeOK, HoldsCurrent, Rest, BatchIsKnown
<1>2. /\ own \in [Items -> OwnRows \cup {NoRow}]
      /\ own[cur].status = "DONE"
      /\ \A i \in Items : i # cur => own[i] = loop[l].own[i]
  BY <1>1 DEF Held, Task, OwnRows, Statuses
<1>3. /\ Becomes(l, turn)
      /\ UNCHANGED <<run, item, crossed, undone>>
      /\ done' = done \cup {cur}
      /\ redone' = redone \cup ({cur} \cap done)
  BY DEF Done
<1>4. turn \in Task /\ turn.own = own /\ turn.rest = Rest(l)
      /\ turn.at \in {"top", "start"}
  BY <1>1, <1>2, AfterItemIs
<1>5. turn.seen = loop[l].seen
  BY <1>1 DEF AfterItem, Task
<1> HIDE DEF cur, own, turn
<1>6. cur \notin done \ undone
  BY <1>1, KeptSoFar
<1>7. KeepsDone(turn)
  <2> SUFFICES ASSUME NEW i \in done' \ undone'
               PROVE  /\ i \notin turn.rest
                      /\ \/ item[i].status = "DONE" /\ turn.own[i] = NoRow
                         \/ item[i].status # "NONE" /\ turn.own[i].status = "DONE"
    BY <1>3 DEF KeepsDone
  <2>1. CASE i = cur
    BY <1>1, <1>2, <1>4, <2>1
  <2>2. CASE i # cur
    <3>1. i \in done \ undone
      BY <1>3, <2>2
    <3>2. i \in Items /\ turn.own[i] = loop[l].own[i]
      BY <1>2, <1>4, <2>2, <3>1, KeptSoFar, <1>1
    <3> QED
      BY <1>1, <1>4, <3>1, <3>2, KeptSoFar
  <2> QED
    BY <2>1, <2>2
<1>8. KeepsUncanceled(turn)
  <2>1. \A i \in Items : own[i].status # "CANCELED"
    BY <1>1, <1>2 DEF AloneInv, NoneCanceled
  <2> QED
    BY <1>1, <1>3, <1>4, <2>1 DEF KeepsUncanceled, AloneInv, NoneCanceled, Is
<1>9. redone' \subseteq undone'
  BY <1>3, <1>6 DEF AloneInv, DoneOnce
<1>10. turn.seen \in Concluded => run' \in Concluded
  BY <1>1, <1>3, <1>5 DEF AloneInv, SeenIsTrue
<1>11. FoundOut(l)'
  BY <1>3, <1>4 DEF FoundOut, ExecutionInv, TypeOK, Becomes
<1> QED
  BY <1>1, <1>3, <1>4, <1>7, <1>8, <1>9, <1>10, <1>11, AloneKeeps

\* A failed item, whether its turn goes on or the run has been read again.
LEMMA FailureAlone ==
  ASSUME ExecutionInv, ExecutionInv', AloneInv, ~crossed, NEW l \in Loops,
         loop[l].at \in {"execute", "raised"},
         UNCHANGED <<run, item, crossed, done, redone, undone>>,
         NEW row \in [status : Statuses \cup {"RUNNING"}, attempt : Attempts],
         NEW own \in Recovered(loop[l].own, Current(l), row),
         NEW turn \in Task, Becomes(l, turn), turn.own = own, turn.rest = Rest(l),
         turn.at \in {"top", "start"}, turn.seen \in {loop[l].seen, run}
  PROVE  AloneInv'
<1>1. /\ loop[l] \in Task /\ Current(l) \in Items /\ Current(l) \in loop[l].rest
      /\ Rest(l) \subseteq loop[l].rest /\ loop[l].at # "off"
  BY CurrentIsNext DEF AtItem, ExecutionInv, TypeOK, Rest
<1>2. Ended(l, own)
  BY RecoveredRows
<1>3. own[Current(l)].status # "CANCELED"
  <2>1. Row("QUEUED").status # "CANCELED"
    BY DEF Row
  <2> QED
    BY <1>1, <2>1 DEF Recovered, Task, ConstantsAssumption
<1>4. \A i \in Items : own[i].status # "CANCELED"
  BY <1>1, <1>2, <1>3, EndedElsewhere DEF AloneInv, NoneCanceled
<1>5. \A i \in Items : i \in done \ undone => i \notin turn.rest /\ turn.own[i] = loop[l].own[i]
  BY <1>1, <1>2, EndedElsewhere, KeptSoFar
<1>6. FoundOut(l)'
  BY DEF FoundOut, ExecutionInv, TypeOK, Becomes
<1> QED
  BY <1>1, <1>4, <1>5, <1>6, QuietKeeps

LEMMA FailAlone ==
  ASSUME ExecutionInv, ExecutionInv', AloneInv, ~crossed, NEW l \in Loops, Fail(l)
  PROVE  AloneInv'
<1>1. /\ loop[l].at = "execute" /\ loop[l] \in Task /\ Current(l) \in Items
      /\ Current(l) \in Held(l)
  BY CurrentIsNext DEF Fail, AtItem, ExecutionInv, TypeOK, HoldsCurrent
<1>2. loop[l].own[Current(l)] \in [status : Statuses \cup {"RUNNING"}, attempt : Attempts]
  BY <1>1 DEF Held, Task, OwnRows
<1>3. PICK own \in Recovered(loop[l].own, Current(l), loop[l].own[Current(l)]) :
         Becomes(l, AfterItem(l, own))
  BY DEF Fail
<1>4. own \in [Items -> OwnRows \cup {NoRow}]
  BY <1>1, <1>2, RecoveredRows, EndedRows
<1> DEFINE turn == AfterItem(l, own)
<1>5. turn \in Task /\ turn.own = own /\ turn.rest = Rest(l) /\ turn.at \in {"top", "start"}
  BY <1>1, <1>4, AfterItemIs
<1>6. turn.seen = loop[l].seen
  BY <1>1 DEF AfterItem, Task
<1>7. UNCHANGED <<run, item, crossed, done, redone, undone>>
  BY DEF Fail, history
<1>8. Becomes(l, turn)
  BY <1>3
<1> HIDE DEF turn
<1> QED
  BY <1>1, <1>2, <1>5, <1>6, <1>7, <1>8, FailureAlone

LEMMA RecoverAlone ==
  ASSUME ExecutionInv, ExecutionInv', AloneInv, ~crossed, NEW l \in Loops, Recover(l)
  PROVE  AloneInv'
<1>1. /\ loop[l].at = "raised" /\ loop[l] \in Task /\ Current(l) \in Items
  BY CurrentIsNext DEF Recover, AtItem, ExecutionInv, TypeOK
<1>2. item[Current(l)] \in [status : Statuses \cup {"RUNNING"}, attempt : Attempts]
  BY <1>1 DEF ExecutionInv, TypeOK, Rows
<1>3. PICK own \in Recovered(loop[l].own, Current(l), item[Current(l)]) :
         Becomes(l, [AfterItem(l, own) EXCEPT !.seen = run])
  BY DEF Recover
<1>4. own \in [Items -> OwnRows \cup {NoRow}]
  BY <1>1, <1>2, RecoveredRows, EndedRows
<1>5. /\ AfterItem(l, own) \in Task /\ AfterItem(l, own).own = own
      /\ AfterItem(l, own).rest = Rest(l) /\ AfterItem(l, own).at \in {"top", "start"}
  BY <1>1, <1>4, AfterItemIs
<1> DEFINE turn == [AfterItem(l, own) EXCEPT !.seen = run]
<1>6. run \in Concluded \cup {"RUNNING", "-"}
  BY DEF ExecutionInv, TypeOK
<1>7. /\ turn \in Task /\ turn.own = own /\ turn.rest = Rest(l) /\ turn.at \in {"top", "start"}
      /\ turn.seen = run
  BY <1>5, <1>6 DEF Task
<1>8. UNCHANGED <<run, item, crossed, done, redone, undone>>
  BY DEF Recover, history
<1>9. Becomes(l, turn)
  BY <1>3
<1> HIDE DEF turn
<1> QED
  BY <1>1, <1>2, <1>7, <1>8, <1>9, FailureAlone

\* What gives up all that a task holds: the successes among it are discarded.
LEMMA DiscardAlone ==
  ASSUME ExecutionInv, ExecutionInv', AloneInv, ~crossed, NEW l \in Loops, loop[l].at # "off",
         Discards(l), UNCHANGED <<run, item>>, NEW turn \in Task, Becomes(l, turn),
         turn.own = Nothing, turn.rest \subseteq loop[l].rest,
         turn.at \in {"top", "raised", "off"},
         turn.seen \in {loop[l].seen, run, "-"}
  PROVE  AloneInv'
<1>1. \A i \in Items : Nothing[i] = NoRow /\ NoRow.status # "CANCELED"
  BY DEF Nothing, NoRow, Row
<1>2. KeepsDone(turn)
  <2> SUFFICES ASSUME NEW i \in done' \ undone'
               PROVE  i \notin turn.rest /\ item[i].status = "DONE" /\ turn.own[i] = NoRow
    BY DEF KeepsDone
  <2>1. i \in done \ undone /\ ~(i \in Held(l) /\ loop[l].own[i].status = "DONE")
    BY DEF Discards
  <2> QED
    BY <1>1, <2>1, KeptSoFar
<1>3. KeepsUncanceled(turn)
  BY <1>1 DEF KeepsUncanceled, AloneInv, NoneCanceled, Is
<1>4. redone' \subseteq undone'
  BY DEF Discards, AloneInv, DoneOnce
<1>5. turn.seen \in Concluded => run' \in Concluded
  BY DEF AloneInv, SeenIsTrue, Concluded
<1>6. FoundOut(l)'
  BY DEF FoundOut, ExecutionInv, TypeOK, Becomes
<1>7. ~crossed'
  BY DEF Discards
<1> QED
  BY <1>2, <1>3, <1>4, <1>5, <1>6, <1>7, AloneKeeps

LEMMA LossAlone ==
  ASSUME ExecutionInv, ExecutionInv', AloneInv, ~crossed, NEW l \in Loops,
         Raise(l) \/ LoseCommit(l) \/ Die(l) \/ BreakCycle(l)
  PROVE  AloneInv'
<1>1. /\ Off.own = Nothing /\ Off.at = "off" /\ Off.rest = {} /\ Off.seen = "-"
      /\ Turn(run).own = Nothing /\ Turn(run).at = "top" /\ Turn(run).rest = {}
      /\ Turn(run).seen = run
  BY DEF Off, Turn
<1>2. Off \in Task /\ Turn(run) \in Task /\ loop[l] \in Task
  BY Turns DEF ExecutionInv, TypeOK
<1>3. Discards(l) /\ UNCHANGED <<run, item>> /\ loop[l].at # "off"
  <2>1. CASE BreakCycle(l)
    <3>1. WaitsFor(l) # {}
      BY <2>1 DEF BreakCycle, Cycle
    <3> QED
      BY <2>1, <3>1 DEF BreakCycle, Ends, WaitsFor
  <2> QED
    BY <2>1 DEF Raise, LoseCommit, Die, Ends
<1>4. CASE Raise(l)
  <2> DEFINE turn == [loop[l] EXCEPT !.at = "raised", !.own = Nothing, !.synced = FALSE,
                                    !.asking = FALSE]
  <2>1. turn \in Task /\ turn.own = Nothing /\ turn.rest = loop[l].rest /\ turn.at = "raised"
        /\ turn.seen = loop[l].seen
    <3>1. Nothing \in [Items -> OwnRows \cup {NoRow}] /\ "raised" \in Places
      BY Turns DEF Places
    <3>2. turn \in Task
      BY <1>2, <3>1 DEF Task
    <3>3. turn.own = Nothing /\ turn.rest = loop[l].rest /\ turn.at = "raised"
          /\ turn.seen = loop[l].seen
      BY <1>2 DEF Task
    <3> QED
      BY <3>2, <3>3
  <2>2. Becomes(l, turn)
    BY <1>4 DEF Raise
  <2> HIDE DEF turn
  <2> QED
    BY <1>3, <2>1, <2>2, DiscardAlone
<1>5. CASE LoseCommit(l) \/ Die(l) \/ BreakCycle(l)
  <2>1. Becomes(l, Off) \/ Becomes(l, Turn(run))
    BY <1>5 DEF LoseCommit, Die, BreakCycle, Ends
  <2> HIDE DEF Off, Turn
  <2> QED
    BY <1>1, <1>2, <1>3, <2>1, DiscardAlone
<1> QED
  BY <1>4, <1>5

\* A commit of what a task holds.
LEMMA CommitAlone ==
  ASSUME ExecutionInv, ExecutionInv', AloneInv, ~crossed, NEW l \in Loops,
         loop[l].at \in {"top", "finalize"}, Commits(l),
         NEW turn \in Task, turn.own = Nothing, turn.rest = {},
         UNCHANGED <<done, undone>>
  PROVE  KeepsDone(turn)
<1> SUFFICES ASSUME NEW i \in done \ undone
             PROVE  i \notin turn.rest /\ item'[i].status = "DONE" /\ turn.own[i] = NoRow
  BY DEF KeepsDone
<1>1. /\ i \in Items
      /\ \/ item[i].status = "DONE" /\ loop[l].own[i] = NoRow
         \/ loop[l].own[i].status = "DONE" /\ i \in Held(l)
  BY KeptSoFar
<1>2. item'[i] = IF i \in Held(l) THEN loop[l].own[i] ELSE item[i]
  BY <1>1 DEF Commits
<1> QED
  BY <1>1, <1>2 DEF Held, Nothing

LEMMA TopAlone ==
  ASSUME ExecutionInv, ExecutionInv', AloneInv, ~crossed, NEW l \in Loops, Top(l)
  PROVE  AloneInv'
<1> DEFINE turn == [Turn(loop[l].seen) EXCEPT
                       !.at = IF loop[l].seen \in Concluded THEN "finalize" ELSE "count"]
<1>1. loop[l] \in Task /\ loop[l].at = "top"
  BY DEF Top, ExecutionInv, TypeOK
<1>2. loop[l].seen \in Concluded \cup {"RUNNING", "-"}
  BY <1>1 DEF Task
<1>3. /\ turn \in Task /\ turn.own = Nothing /\ turn.rest = {} /\ turn.seen = loop[l].seen
      /\ turn.at = IF loop[l].seen \in Concluded THEN "finalize" ELSE "count"
  BY <1>2, Turns DEF Turn
<1>4. /\ Becomes(l, turn) /\ Commits(l)
      /\ UNCHANGED <<run, crossed, done, redone, undone>>
  BY DEF Top, history
<1> HIDE DEF turn
<1>5. KeepsDone(turn)
  BY <1>1, <1>3, <1>4, CommitAlone
<1>6. KeepsUncanceled(turn)
  <2>1. \A i \in Items : item'[i].status # "CANCELED"
    BY <1>1, <1>4 DEF Commits, AloneInv, NoneCanceled, Is
  <2>2. \A i \in Items : Nothing[i].status # "CANCELED"
    BY DEF Nothing, NoRow, Row
  <2> QED
    BY <1>3, <2>1, <2>2 DEF KeepsUncanceled
<1>7. redone' \subseteq undone' /\ (turn.seen \in Concluded => run' \in Concluded)
  BY <1>1, <1>3, <1>4 DEF AloneInv, DoneOnce, SeenIsTrue
<1>8. FoundOut(l)'
  BY <1>3, <1>4 DEF FoundOut, ExecutionInv, TypeOK, Becomes
<1> QED
  BY <1>1, <1>3, <1>4, <1>5, <1>6, <1>7, <1>8, AloneKeeps

LEMMA FinalizeAlone ==
  ASSUME ExecutionInv, ExecutionInv', AloneInv, ~crossed, NEW l \in Loops, Finalize(l)
  PROVE  AloneInv'
<1>1. Off \in Task /\ Off.own = Nothing /\ Off.rest = {} /\ Off.at = "off"
  BY Turns DEF Off, Turn
<1>2. /\ Becomes(l, Off) /\ Commits(l) /\ loop[l].at = "finalize"
      /\ UNCHANGED <<crossed, done, redone, undone>>
  BY DEF Finalize, history
<1> HIDE DEF Off
<1>3. KeepsDone(Off) /\ KeepsUncanceled(Off)
  BY <1>1, <1>2, CommitAlone DEF KeepsUncanceled
<1>4. redone' \subseteq undone'
  BY <1>2 DEF AloneInv, DoneOnce
<1>5. FoundOut(l)'
  BY <1>1, <1>2 DEF FoundOut, ExecutionInv, TypeOK, Becomes
<1> QED
  BY <1>1, <1>2, <1>3, <1>4, <1>5, AloneKeeps

LEMMA CancelAlone ==
  ASSUME ExecutionInv, AloneInv, ~crossed, Cancel
  PROVE  AloneInv'
<1>1. UNCHANGED <<item, loop, crossed, done, redone, undone>> /\ run' \in Concluded
  BY DEF Cancel, history, Concluded
<1>2. \A l \in Loops : FoundOut(l)'
  BY <1>1 DEF AloneInv, FoundOut, Canceling, Blocks, Is, Held
<1> QED
  BY <1>1, <1>2 DEF AloneInv, OnlyOne, DoneIsKept, SeenIsTrue, NoneCanceled, DoneOnce, Held, Is

LEMMA ResumeAlone ==
  ASSUME ExecutionInv, ExecutionInv', AloneInv, ~crossed, NEW l \in Loops, Resume(l)
  PROVE  AloneInv'
<1> SUFFICES ASSUME ~crossed' PROVE AloneInv'
  BY DEF AloneInv
<1>1. /\ Turn("RUNNING").own = Nothing /\ Turn("RUNNING").at = "top"
      /\ Turn("RUNNING").rest = {} /\ Turn("RUNNING").seen = "RUNNING"
      /\ Off.at = "off"
  BY DEF Turn, Off
<1>2. \A m \in Loops : loop[m].at = "off" /\ loop[m].rest = {} /\ loop[m].own = Nothing
  <2>1. \A m \in Loops : loop[m].at = "off"
    BY <1>1 DEF Resume, Others
  <2> QED
    BY <2>1 DEF ExecutionInv, TypeOK, AtItem, LookingHoldsNothing, Looking
<1>3. /\ loop'[l] = Turn("RUNNING")
      /\ \A m \in Loops : m # l => loop'[m] = loop[m]
      /\ run' = "RUNNING"
      /\ item' = [i \in Items |-> IF i \in Asked THEN [item[i] EXCEPT !.status = "QUEUED"] ELSE item[i]]
      /\ done' = done \ Asked /\ redone' = redone \ Asked /\ undone' = undone
  BY DEF Resume, Becomes, ExecutionInv, TypeOK
<1> HIDE DEF Turn
<1>4. \A m \in Loops : loop'[m].rest = {} /\ loop'[m].own = Nothing /\ Held(m)' = {}
  <2>1. \A m \in Loops : loop'[m].rest = {} /\ loop'[m].own = Nothing
    BY <1>1, <1>2, <1>3
  <2> QED
    BY <2>1 DEF Held, Nothing
<1>5. OnlyOne'
  BY <1>2, <1>3 DEF OnlyOne
<1>6. DoneIsKept'
  <2> SUFFICES ASSUME NEW i \in done \ undone, i \notin Asked
               PROVE  item'[i].status = "DONE"
    BY <1>3, <1>4 DEF DoneIsKept
  <2>1. i \in Items /\ item[i].status = "DONE"
    BY <1>2 DEF ExecutionInv, TypeOK, AloneInv, DoneIsKept, Nothing, NoRow, Row
  <2> QED
    BY <1>3, <2>1
<1>7. SeenIsTrue'
  BY <1>1, <1>2, <1>3 DEF SeenIsTrue, Concluded
<1>8. NoneCanceled'
  <2>1. \A i \in Items : item'[i].status # "CANCELED"
    BY <1>3 DEF Asked, Is, ExecutionInv, TypeOK, Rows
  <2>2. \A i \in Items : Nothing[i].status # "CANCELED"
    BY DEF Nothing, NoRow, Row
  <2> QED
    BY <1>4, <2>1, <2>2 DEF NoneCanceled, Is
<1>9. redone' \subseteq undone'
  BY <1>3 DEF AloneInv, DoneOnce
<1>10. \A m \in Loops : FoundOut(m)'
  BY <1>1, <1>2, <1>3 DEF FoundOut
<1> QED
  BY <1>5, <1>6, <1>7, <1>8, <1>9, <1>10 DEF AloneInv, DoneOnce

LEMMA AloneStart == Init => AloneInv
<1> SUFFICES ASSUME Init PROVE AloneInv
  OBVIOUS
<1>1. /\ \A l \in Loops : /\ loop[l].at \in {"top", "off"} /\ loop[l].own = Nothing
                          /\ loop[l].at # "off" => l = 1
                          /\ loop[l].seen \in {"RUNNING", "-"}
      /\ done = {} /\ redone = {} /\ undone = {}
  BY DEF Init, Turn, Off
<1>2. \A i \in Items : item[i].status # "CANCELED" /\ Nothing[i].status # "CANCELED"
  BY DEF Init, Row, Nothing, NoRow
<1>3. \A l \in Loops : FoundOut(l)
  BY <1>1 DEF FoundOut
<1> QED
  BY <1>1, <1>2, <1>3
  DEF AloneInv, OnlyOne, DoneIsKept, SeenIsTrue, NoneCanceled, DoneOnce, Is, Concluded

\* Once two tasks have driven the run at the same time, that stays so.
LEMMA CrossedForever == ExecutionInv /\ [Next]_vars /\ crossed => crossed'
  BY DEF Next, vars, Step, Top, Count, Failures, Select, Blocked, CancelBlocked, Finalize, Start,
         Ask, Done, Fail, Raise, Recover, BreakCycle, LoseCommit, Die, Ends, Discards, Resume, Cancel,
         history

LEMMA AloneStep == ExecutionInv /\ ExecutionInv' /\ AloneInv /\ [Next]_vars => AloneInv'
<1> SUFFICES ASSUME ExecutionInv, ExecutionInv', AloneInv, [Next]_vars PROVE AloneInv'
  OBVIOUS
<1>1. CASE crossed
  BY <1>1, CrossedForever DEF AloneInv
<1>2. CASE ~crossed
  <2>1. ASSUME NEW l \in Loops, Step(l) PROVE AloneInv'
    BY <1>2, <2>1, TopAlone, LookAlone, CancelBlockedAlone, FinalizeAlone, StartAlone,
       AskAlone, DoneAlone, FailAlone, RecoverAlone, LossAlone DEF Step
  <2>2. ASSUME NEW l \in Loops, LoseCommit(l) \/ Die(l) \/ Resume(l) PROVE AloneInv'
    BY <1>2, <2>2, LossAlone, ResumeAlone
  <2>3. CASE Cancel
    BY <1>2, <2>3, CancelAlone
  <2>4. CASE UNCHANGED vars
    <3>1. UNCHANGED <<run, item, loop, crossed, done, redone, undone>>
      BY <2>4 DEF vars
    <3>2. (\A l \in Loops : FoundOut(l))' <=> \A l \in Loops : FoundOut(l)
      BY <3>1 DEF FoundOut, Canceling, Blocks, Is, Held
    <3> QED
      BY <3>1, <3>2 DEF AloneInv, OnlyOne, DoneIsKept, SeenIsTrue, NoneCanceled, DoneOnce, Held, Is
  <2> QED
    BY <2>1, <2>2, <2>3, <2>4 DEF Next
<1> QED
  BY <1>1, <1>2

LEMMA Alone == Spec => []AloneInv
<1>1. ExecutionInv /\ ExecutionInv' /\ AloneInv /\ [Next]_vars => AloneInv'
  BY AloneStep
<1> QED
  BY <1>1, AloneStart, Executions, PTL DEF Spec

-----------------------------------------------------------------------------
(* The results.                                                            *)

\* A task alone on its run executes an item again after it succeeded only if the
\* success was discarded by a rollback or in a lost commit (_process_work_item).
THEOREM NothingTwice == Spec => []DoneOnce
<1>1. AloneInv => DoneOnce
  BY DEF AloneInv, DoneOnce
<1> QED
  BY <1>1, Alone, PTL

LEMMA ConclusionIsRight ==
  ASSUME ExecutionInv, AloneInv, ~crossed, NEW l \in Loops, Finalize(l), run' # run
  PROVE  /\ run' = "COMPLETED" => \A i \in Items : Harmless(i)
         /\ run' = "FAILED" => /\ \E i \in Items \ Soft : item'[i].status = "FAILED"
                               /\ \A i \in Items : item'[i].status # "QUEUED"
<1>1. /\ loop[l].at = "finalize" /\ run \notin Concluded /\ run' = Verdict(l) /\ Commits(l)
      /\ loop[l].seen \notin Concluded /\ FoundOut(l) /\ loop[l].rest = {} /\ Is("CANCELED") = {}
  BY DEF Finalize, AloneInv, SeenIsTrue, NoneCanceled, ExecutionInv, TypeOK, AtItem
<1>2. CASE loop[l].failed /\ Canceling(l)
  <2>1. run' = "FAILED"
    BY <1>1, <1>2 DEF Verdict
  <2>2. PICK i \in Items : Blocks(i)
    BY <1>2 DEF Canceling
  <2>3. i \in Items \ Soft /\ item'[i].status = "FAILED"
    BY <1>1, <1>2, <2>2 DEF Blocks, Canceling, Is, Commits
  <2>4. \A j \in Items : item'[j].status # "QUEUED"
    BY <1>1, <1>2 DEF Canceling, Is, Commits
  <2> QED
    BY <2>1, <2>3, <2>4
<1>3. CASE ~loop[l].failed /\ loop[l].own = Nothing /\ Is("QUEUED") = {} /\ \A i \in Items : ~Blocks(i)
  <2>1. run' # "FAILED"
    BY <1>1, <1>3 DEF Verdict
  <2>2. \A i \in Items : item'[i] = item[i]
    BY <1>1, <1>3 DEF Commits, Held, Nothing
  <2>3. \A i \in Items : item[i].status \in Statuses
    BY DEF ExecutionInv, TypeOK, Rows
  <2>4. \A i \in Items : Harmless(i)
    BY <1>1, <1>3, <2>2, <2>3 DEF Harmless, Blocks, Is, Statuses
  <2> QED
    BY <2>1, <2>4
<1> QED
  BY <1>1, <1>2, <1>3 DEF FoundOut

\* A task alone on its run completes it only when every item was done, replaced
\* or failed without harm, and fails it only for a failure that blocks, with
\* nothing left queued (start, _cancel_terminally_blocked_items).
THEOREM RightVerdict == Spec => VerdictIsRight
<1> DEFINE Right == run' # run /\ ~crossed' =>
              /\ run' = "COMPLETED" => \A i \in Items : Harmless(i)
              /\ run' = "FAILED" => /\ \E i \in Items \ Soft : item'[i].status = "FAILED"
                                    /\ \A i \in Items : item'[i].status # "QUEUED"
<1>1. ExecutionInv /\ AloneInv /\ [Next]_vars => [Right]_vars
  <2> SUFFICES ASSUME ExecutionInv, AloneInv, [Next]_vars, run' # run, ~crossed' PROVE Right
    OBVIOUS
  <2>1. ~crossed
    BY CrossedForever
  <2>2. ASSUME NEW l \in Loops, Finalize(l) PROVE Right
    BY <2>1, <2>2, ConclusionIsRight
  <2>3. CASE Cancel \/ \E l \in Loops : Resume(l)
    BY <2>3 DEF Cancel, Resume
  <2>4. ASSUME NEW l \in Loops, Step(l) \/ LoseCommit(l) \/ Die(l) PROVE Finalize(l)
    BY <2>4 DEF Step, Top, Count, Failures, Select, Blocked, CancelBlocked, Start, Ask, Done, Fail,
                Raise, Recover, BreakCycle, LoseCommit, Die, Ends
  <2> QED
    BY <2>2, <2>3, <2>4 DEF Next, vars
<1> QED
  BY <1>1, Executions, Alone, PTL DEF Spec, VerdictIsRight

=============================================================================
