---------------------------- MODULE RunLaunch_proofs ----------------------------
(***************************************************************************)
(* However many requests and tasks there are at once: a project has at     *)
(* most one open run, but for those that RunLaunchProps names; a graph is  *)
(* seeded once; and requests with one key are answered with one run, while *)
(* the search for it goes back far enough.                                 *)
(***************************************************************************)
EXTENDS RunLaunchProps, WellFoundedInduction, TLAPS

USE ConstantsAssumption

-----------------------------------------------------------------------------
(* Types.                                                                  *)

\* What a request or a task must be, of so many runs.
Known(r, n) ==
  /\ r \in CallRow(n)
  /\ r.next \in Bootstrapping \cup {"reopen", "key"} => r.run \in 1 .. n
  /\ r.next \in {"find", "find_again", "key"} => r.key \in Keys
  /\ r.next \in Making => r.kind \in {"create", "fork"}
  /\ r.kind = "fork" => r.scope \in 1 .. n

LEMMA TypeIsKnown ==
  TypeOK <=> /\ run \in Seq(RunRow(Len(run)))
             /\ calls \in 0 .. MaxCalls
             /\ \A r \in pending : Known(r, Len(run))
             /\ answered \subseteq [key : Keys, scope : 0 .. Len(run), run : Ids]
             /\ crowded \subseteq Keys \X (0 .. Len(run))
             /\ stops \in Nat /\ faults \in Nat /\ stops + faults <= MaxMishaps
  BY DEF TypeOK, Known, Ids

\* The rows remain rows when there are more of them.
LEMMA MoreRuns ==
  ASSUME NEW n \in Nat, NEW m \in Nat, n <= m
  PROVE  /\ RunRow(n) \subseteq RunRow(m)
         /\ \A r : Known(r, n) => Known(r, m)
<1>1. 0 .. n \subseteq 0 .. m /\ 1 .. n \subseteq 1 .. m
  OBVIOUS
<1>2. RunRow(n) \subseteq RunRow(m)
  BY <1>1 DEF RunRow
<1>3. CallRow(n) \subseteq CallRow(m)
  BY <1>1 DEF CallRow
<1> QED
  BY <1>1, <1>2, <1>3 DEF Known

\* A request or task as another step leaves it.
Like(q, p) == \/ q = p
              \/ \E b \in BOOLEAN : q = [p EXCEPT !.fresh = b]

\* What a step has to keep.
LEMMA StepKeeps ==
  ASSUME TypeOK, calls' \in 0 .. MaxCalls,
         run' \in Seq(RunRow(Len(run'))), Len(run) <= Len(run'),
         \A q \in pending' : (\E p \in pending : Like(q, p)) \/ Known(q, Len(run')),
         \A a \in answered' : \/ a \in answered
                              \/ a \in [key : Keys, scope : 0 .. Len(run'), run : 1 .. Len(run')],
         crowded' \subseteq crowded \cup (Keys \X (0 .. Len(run'))),
         stops' \in Nat, faults' \in Nat, stops' + faults' <= MaxMishaps
  PROVE  TypeOK'
<1> DEFINE n == Len(run)
           m == Len(run')
<1>1. n \in Nat /\ m \in Nat /\ n <= m
  BY DEF TypeOK
<1>2. \A p \in pending : Known(p, n)
  BY TypeIsKnown
<1> HIDE DEF n, m
<1>3. \A p \in pending : Known(p, m)
  BY <1>1, <1>2, MoreRuns
<1>4. \A p \in pending : \A q : Like(q, p) => Known(q, m)
  <2> SUFFICES ASSUME NEW p \in pending, NEW q, Like(q, p) PROVE Known(q, m)
    OBVIOUS
  <2>1. \A b \in BOOLEAN : Known([p EXCEPT !.fresh = b], m)
    BY <1>3 DEF Known, CallRow
  <2> QED
    BY <1>3, <2>1 DEF Like
<1>5. \A q \in pending' : Known(q, m)
  BY <1>4 DEF m
<1>6. pending' \subseteq CallRow(m)
  BY <1>5 DEF Known
<1>7. \A a \in answered : a \in [key : Keys, scope : 0 .. m, run : 1 .. m]
  BY <1>1 DEF TypeOK, Ids, n
<1>8. answered' \subseteq [key : Keys, scope : 0 .. m, run : 1 .. m]
  BY <1>7 DEF m
<1>9. crowded' \subseteq Keys \X (0 .. m)
  <2>1. crowded \subseteq Keys \X (0 .. n) /\ 0 .. n \subseteq 0 .. m
    BY <1>1 DEF TypeOK, n
  <2> QED
    BY <2>1 DEF m
<1> QED
  BY <1>5, <1>6, <1>8, <1>9 DEF TypeOK, Known, Ids, m

\* A row is changed, and a row is added.
LEMMA RowChanges ==
  ASSUME TypeOK, NEW i \in Ids, NEW row \in RunRow(Len(run)), run' = [run EXCEPT ![i] = row]
  PROVE  /\ run' \in Seq(RunRow(Len(run'))) /\ Len(run') = Len(run) /\ Ids' = Ids
         /\ run'[i] = row
         /\ \A j \in Ids : j # i => run'[j] = run[j]
<1>1. run' \in Seq(RunRow(Len(run))) /\ Len(run') = Len(run)
  BY DEF TypeOK, Ids
<1> QED
  BY <1>1 DEF TypeOK, Ids

LEMMA RowIsAdded ==
  ASSUME TypeOK, NEW row \in RunRow(Len(run) + 1), run' = Append(run, row)
  PROVE  /\ run' \in Seq(RunRow(Len(run'))) /\ Len(run') = Len(run) + 1
         /\ run'[Len(run) + 1] = row
         /\ \A j \in Ids : run'[j] = run[j]
<1>1. Len(run) \in Nat /\ run \in Seq(RunRow(Len(run)))
  BY DEF TypeOK
<1>2. run \in Seq(RunRow(Len(run) + 1))
  <2>1. RunRow(Len(run)) \subseteq RunRow(Len(run) + 1)
    BY <1>1, MoreRuns
  <2> QED
    BY <1>1, <2>1
<1>3. Len(run') = Len(run) + 1
  BY <1>1
<1> QED
  BY <1>1, <1>2, <1>3 DEF Ids

-----------------------------------------------------------------------------
(* The gate.                                                               *)

GateInv == TypeOK /\ GateHolds /\ OneOpenRun

\* A launch that has counted, uncrossed.
Cleared(r) == r.kind = "create" /\ r.next = "insert" /\ r.fresh

\* A step that opens no run.
LEMMA NothingOpens ==
  ASSUME GateInv,
         \A i \in OpenRuns' : i \in OpenRuns /\ run'[i].opened = run[i].opened,
         \A q \in pending' : Cleared(q) => OpenRuns = {} \/ \E p \in pending : Cleared(p)
  PROVE  GateHolds' /\ OneOpenRun'
<1>1. \A q \in pending' : Cleared(q) => OpenRuns = {}
  BY DEF GateInv, GateHolds, Cleared
<1>2. GateHolds'
  BY <1>1 DEF GateHolds, Cleared
<1>3. Launched' \subseteq Launched
  BY DEF Launched
<1> QED
  BY <1>2, <1>3 DEF GateInv, OneOpenRun

\* A step that leaves the runs alone, and one that changes a run but not whether
\* it is open.
LEMMA RunsAlone ==
  ASSUME GateInv, UNCHANGED run,
         \A q \in pending' : Cleared(q) => OpenRuns = {} \/ \E p \in pending : Cleared(p)
  PROVE  GateHolds' /\ OneOpenRun'
  BY NothingOpens DEF OpenRuns, IsOpen, Ids

LEMMA RunChanges ==
  ASSUME GateInv, NEW i \in Ids, NEW row \in RunRow(Len(run)), run' = [run EXCEPT ![i] = row],
         row.status \in Open => IsOpen(i) /\ row.opened = run[i].opened,
         \A q \in pending' : Cleared(q) => OpenRuns = {} \/ \E p \in pending : Cleared(p)
  PROVE  GateHolds' /\ OneOpenRun'
<1>1. /\ run'[i] = row /\ Ids' = Ids
      /\ \A j \in Ids : j # i => run'[j] = run[j]
  BY RowChanges DEF GateInv
<1>2. \A j \in OpenRuns' : j \in OpenRuns /\ run'[j].opened = run[j].opened
  BY <1>1 DEF OpenRuns, IsOpen
<1> QED
  BY <1>2, NothingOpens

\* A step that reopens a run, or otherwise than by a launch.
LEMMA RunReopens ==
  ASSUME GateInv, NEW i \in Ids, NEW row \in RunRow(Len(run)), run' = [run EXCEPT ![i] = row],
         row.opened # "launch", \A q \in pending' : ~Cleared(q)
  PROVE  GateHolds' /\ OneOpenRun'
<1>1. /\ run'[i] = row /\ Ids' = Ids
      /\ \A j \in Ids : j # i => run'[j] = run[j]
  BY RowChanges DEF GateInv
<1>2. GateHolds'
  BY DEF GateHolds, Cleared
<1>3. Launched' \subseteq Launched
  BY <1>1 DEF Launched, OpenRuns, IsOpen
<1> QED
  BY <1>2, <1>3 DEF GateInv, OneOpenRun

-----------------------------------------------------------------------------
(* The steps.                                                              *)

\* What a request or task may turn into while the runs stay as they are.
LEMMA TurnsInto ==
  ASSUME GateInv, NEW r \in pending, UNCHANGED <<run, calls, crowded, stops, faults>>,
         \A a \in answered' : \/ a \in answered
                              \/ a \in [key : Keys, scope : 0 .. Len(run), run : 1 .. Len(run)],
         NEW new, Becomes(r, new),
         \A q \in new : Known(q, Len(run)) /\ (Cleared(q) => OpenRuns = {})
  PROVE  GateInv'
<1>0. \A q \in pending' : q \in pending \/ (Known(q, Len(run)) /\ (Cleared(q) => OpenRuns = {}))
  <2> SUFFICES ASSUME NEW q \in pending', q \notin pending
               PROVE  Known(q, Len(run)) /\ (Cleared(q) => OpenRuns = {})
    OBVIOUS
  <2>1. q \in new
    BY DEF Becomes
  <2> QED
    BY <2>1
<1>1. TypeOK'
  BY <1>0, StepKeeps DEF GateInv, TypeOK, Like
<1>2. GateHolds' /\ OneOpenRun'
  BY <1>0, RunsAlone
<1> QED
  BY <1>1, <1>2 DEF GateInv

\* The latest of some runs.
LEMMA Largest ==
  ASSUME NEW n \in Nat, NEW S, S \subseteq 1 .. n, S # {}
  PROVE  \E i \in S : \A j \in S : j <= i
<1> DEFINE Less == {p \in Nat \X Nat : p[1] < p[2]}
           Behind == {n - i : i \in S}
<1>1. IsWellFoundedOn(Less, Nat)
  BY NatLessThanWellFounded DEF OpToRel
<1>2. Behind \subseteq Nat /\ Behind # {}
  <2>1. \A i \in S : n - i \in Nat /\ n - i \in Behind
    OBVIOUS
  <2> QED
    BY <2>1
<1>3. PICK b \in Behind : \A a \in Behind : ~(<<a, b>> \in Less)
  <2> HIDE DEF Less, Behind
  <2> QED
    BY <1>1, <1>2, WFMin
<1>4. PICK i \in S : b = n - i
  OBVIOUS
<1>5. \A j \in S : ~(n - j < n - i)
  BY <1>2, <1>3, <1>4
<1>6. \A j \in S : j \in Nat /\ i \in Nat
  OBVIOUS
<1> QED
  BY <1>5, <1>6

LEMMA NamedIsARun ==
  ASSUME TypeOK, NEW r \in pending, Named(r) # {}
  PROVE  Latest(Named(r)) \in 1 .. Len(run)
<1>1. Named(r) \subseteq 1 .. Len(run) /\ Len(run) \in Nat
  BY DEF Named, Recent, Ids, TypeOK
<1>2. \E i \in Named(r) : \A j \in Named(r) : j <= i
  BY <1>1, Largest
<1> QED
  BY <1>1, <1>2 DEF Latest

LEMMA FindKeeps == ASSUME GateInv, NEW r \in pending, Find(r) \/ FindAgain(r) PROVE GateInv'
<1>1. Known(r, Len(run)) /\ r.key \in Keys /\ r.kind \in {"create", "fork"}
  BY TypeIsKnown DEF GateInv, Known, Making, Find, FindAgain
<1>2. PICK new : /\ Becomes(r, new)
                 /\ \A q \in new : /\ q \in {[r EXCEPT !.next = "insert"], [r EXCEPT !.next = "count"]}
                                   /\ q.next = "insert" => r.kind = "fork"
  <2>1. [r EXCEPT !.next = "insert"].next = "insert" /\ [r EXCEPT !.next = "count"].next = "count"
    BY <1>1 DEF Known, CallRow
  <2>2. CASE Becomes(r, {})
    BY <2>2
  <2>3. CASE Becomes(r, {[r EXCEPT !.next = "count"]})
    BY <2>1, <2>3
  <2>4. CASE r.kind = "fork" /\ Becomes(r, {[r EXCEPT !.next = "insert"]})
    BY <2>1, <2>4
  <2> QED
    BY <2>2, <2>3, <2>4 DEF Find, FindAgain, Goes, Ends
<1>3. \A q \in new : Known(q, Len(run)) /\ ~Cleared(q)
  <2>1. /\ Known([r EXCEPT !.next = "insert"], Len(run))
        /\ Known([r EXCEPT !.next = "count"], Len(run))
        /\ [r EXCEPT !.next = "insert"].kind = r.kind
        /\ [r EXCEPT !.next = "count"].next = "count"
    BY <1>1 DEF Known, CallRow, Places, Making, Bootstrapping
  <2> QED
    BY <1>2, <2>1 DEF Cleared
<1>4. \A a \in answered' : \/ a \in answered
                           \/ a \in [key : Keys, scope : 0 .. Len(run), run : 1 .. Len(run)]
  BY <1>1, NamedIsARun DEF Find, FindAgain, Answers, GateInv, Known, CallRow
<1> QED
  BY <1>2, <1>3, <1>4, TurnsInto DEF Find, FindAgain

LEMMA CountKeeps == ASSUME GateInv, NEW r \in pending, CountOpen(r) PROVE GateInv'
<1> DEFINE cleared == [r EXCEPT !.next = "insert", !.fresh = TRUE]
           again == [r EXCEPT !.next = "find_again"]
<1>1. Known(r, Len(run)) /\ (r.key # NoKey => r.key \in Keys) /\ r.kind \in {"create", "fork"}
  BY TypeIsKnown DEF GateInv, Known, CallRow, CountOpen, Making
<1>2. Known(cleared, Len(run))
  BY <1>1 DEF Known, CallRow, Places, Making, Bootstrapping
<1>3. (r.key # NoKey => Known(again, Len(run))) /\ ~Cleared(again)
  BY <1>1 DEF Known, CallRow, Places, Making, Bootstrapping, Cleared
<1>4. \/ OpenRuns = {} /\ Becomes(r, {cleared})
      \/ Becomes(r, {})
      \/ r.key # NoKey /\ Becomes(r, {again})
  BY DEF CountOpen, Goes, Ends
<1>5. UNCHANGED <<run, calls, answered, crowded, stops, faults>>
  BY DEF CountOpen
<1> HIDE DEF cleared, again
<1> QED
  BY <1>2, <1>3, <1>4, <1>5, TurnsInto

\* A call that moves on within the bootstrap.
LEMMA MovesOn ==
  ASSUME NEW r, NEW n, Known(r, n), r.run \in 1 .. n, NEW next \in Bootstrapping,
         NEW seen \in Open \cup Concluded \cup {"PAUSED", "-"}
  PROVE  LET t == [r EXCEPT !.next = next, !.seen = seen]
         IN  Known(t, n) /\ ~Cleared(t)
<1> DEFINE t == [r EXCEPT !.next = next, !.seen = seen]
<1>1. r \in CallRow(n) /\ next \in Places
  BY DEF Known, Bootstrapping, Places
<1>2. /\ t.id = r.id /\ t.kind = r.kind /\ t.key = r.key /\ t.scope = r.scope
      /\ t.starts = r.starts /\ t.run = r.run /\ t.fresh = r.fresh
      /\ t.next = next /\ t.seen = seen
  BY <1>1 DEF CallRow
<1>3. t \in CallRow(n)
  BY <1>1 DEF CallRow
<1> HIDE DEF t
<1>4. t.next \notin Making \cup {"find", "find_again", "key", "reopen"}
  BY <1>2 DEF Bootstrapping, Making
<1>5. Known(t, n)
  BY <1>2, <1>3, <1>4 DEF Known
<1>6. ~Cleared(t)
  BY <1>4 DEF Cleared, Making
<1> QED
  BY <1>5, <1>6 DEF t

\* The bootstrap, where it writes nothing.
LEMMA LeavesKeeps ==
  ASSUME GateInv, NEW r \in pending, r.next \in Bootstrapping,
         NEW next \in Bootstrapping, Leaves(r, next)
  PROVE  \E new : Becomes(r, new) /\ \A q \in new : Known(q, Len(run)) /\ ~Cleared(q)
<1> DEFINE t == [r EXCEPT !.next = next, !.seen = "-"]
<1>1. Known(r, Len(run)) /\ r.run \in 1 .. Len(run)
  BY TypeIsKnown DEF GateInv, Known
<1>2. Known(t, Len(run)) /\ ~Cleared(t)
  BY <1>1, MovesOn
<1>3. Becomes(r, {t}) \/ Becomes(r, {})
  BY DEF Leaves
<1> HIDE DEF t
<1> QED
  BY <1>2, <1>3

LEMMA BootstrapKeeps ==
  ASSUME GateInv, NEW r \in pending, Refresh(r) \/ LockConcluded(r) \/ CheckItems(r)
  PROVE  GateInv'
<1>1. UNCHANGED <<run, calls, answered, crowded, stops, faults>>
  BY DEF Refresh, LockConcluded, CheckItems
<1>2. CASE Refresh(r)
  <2> DEFINE t == [r EXCEPT !.next = "lock", !.seen = run[r.run].status]
  <2>1. Known(r, Len(run)) /\ r.run \in 1 .. Len(run)
    BY <1>2, TypeIsKnown DEF GateInv, Known, Refresh, Bootstrapping
  <2>2. run[r.run].status \in Open \cup Concluded \cup {"PAUSED", "-"}
    <3>1. run[r.run] \in RunRow(Len(run))
      BY <2>1 DEF GateInv, TypeOK
    <3> QED
      BY <3>1 DEF RunRow
  <2>3. Known(t, Len(run)) /\ ~Cleared(t)
    BY <2>1, <2>2, MovesOn DEF Bootstrapping
  <2>4. Becomes(r, {t})
    BY <1>2 DEF Refresh
  <2> HIDE DEF t
  <2> QED
    BY <1>1, <2>3, <2>4, TurnsInto
<1>3. CASE LockConcluded(r) \/ CheckItems(r)
  <2>1. \E next \in Bootstrapping : Leaves(r, next)
    BY <1>3 DEF LockConcluded, CheckItems, Bootstrapping
  <2>2. r.next \in Bootstrapping
    BY <1>3 DEF LockConcluded, CheckItems, Bootstrapping
  <2>3. PICK new : Becomes(r, new) /\ \A q \in new : Known(q, Len(run)) /\ ~Cleared(q)
    BY <2>1, <2>2, LeavesKeeps
  <2> QED
    BY <1>1, <2>3, TurnsInto
<1> QED
  BY <1>2, <1>3

LEMMA HandOverKeeps == ASSUME GateInv, NEW r \in pending, HandOver(r) PROVE GateInv'
<1> DEFINE t == [r EXCEPT !.next = "key"]
<1>1. /\ Known(r, Len(run)) /\ r.run \in 1 .. Len(run) /\ (r.key # NoKey => r.key \in Keys)
      /\ Len(run) \in Nat
  BY TypeIsKnown DEF GateInv, TypeOK, Known, HandOver, Bootstrapping, CallRow
<1>2. Known(Task(r), Len(run)) /\ ~Cleared(Task(r))
  <2>1. Task(r).next = "lock" /\ Task(r).kind = "start" /\ Task(r).run = r.run
    BY <1>1 DEF Known, CallRow, Task
  <2>2. 0 \in 0 .. Len(run) /\ "lock" \in Places
    BY <1>1 DEF Places
  <2>3. Task(r) \in CallRow(Len(run))
    BY <1>1, <2>2 DEF Known, CallRow, Task, NoId
  <2> QED
    BY <1>1, <2>1, <2>3 DEF Known, Making, Cleared
<1>3. (r.key # NoKey => Known(t, Len(run))) /\ ~Cleared(t)
  BY <1>1 DEF Known, CallRow, Places, Making, Bootstrapping, Cleared
<1>4. Becomes(r, {Task(r)} \cup IF r.key = NoKey THEN {} ELSE {t})
  BY DEF HandOver, ToAnswer
<1> HIDE DEF t
<1>5. \A q \in {Task(r)} \cup IF r.key = NoKey THEN {} ELSE {t} : Known(q, Len(run)) /\ ~Cleared(q)
  BY <1>2, <1>3
<1> QED
  BY <1>4, <1>5, TurnsInto DEF HandOver

LEMMA DieKeeps == ASSUME GateInv, NEW r \in pending, Die(r) PROVE GateInv'
<1>1. pending' \subseteq pending /\ UNCHANGED <<run, calls, answered, crowded, stops>>
  BY DEF Die, Ends, Becomes
<1>2. faults' \in Nat /\ stops' + faults' <= MaxMishaps
  BY DEF Die, GateInv, TypeOK, ConstantsAssumption
<1>3. TypeOK'
  BY <1>1, <1>2, StepKeeps DEF GateInv, TypeOK, Like
<1> QED
  BY <1>1, <1>3, RunsAlone DEF GateInv

\* What becomes of the others when a run is opened: who has counted is crossed.
LEMMA OpensCrosses ==
  ASSUME TypeOK, NEW r \in pending, NEW new, Opens(r, new), NEW n \in Nat,
         \A q \in new : Known(q, n) /\ ~Cleared(q)
  PROVE  /\ \A q \in pending' : (\E p \in pending : Like(q, p)) \/ Known(q, n)
         /\ \A q \in pending' : ~Cleared(q)
<1> SUFFICES ASSUME NEW q \in pending', q \notin new
             PROVE  (\E p \in pending : Like(q, p)) /\ ~Cleared(q)
  OBVIOUS
<1>1. PICK p \in pending : q = [p EXCEPT !.fresh = p.next # "insert"]
  BY DEF Opens
<1>2. (p.next # "insert") \in BOOLEAN
  OBVIOUS
<1>3. p \in CallRow(Len(run))
  BY DEF TypeOK
<1>4. q.next = p.next /\ (q.fresh <=> p.next # "insert")
  BY <1>1, <1>3 DEF CallRow
<1> QED
  BY <1>1, <1>2, <1>4 DEF Like, Cleared

\* A step that changes a run, and one that opens it otherwise than by a launch.
LEMMA ChangesARow ==
  ASSUME GateInv, NEW r \in pending, UNCHANGED <<calls, crowded, stops, faults>>,
         \A a \in answered' : \/ a \in answered
                              \/ a \in [key : Keys, scope : 0 .. Len(run), run : 1 .. Len(run)],
         NEW i \in Ids, NEW row \in RunRow(Len(run)), run' = [run EXCEPT ![i] = row],
         NEW new, \A q \in new : Known(q, Len(run)) /\ ~Cleared(q),
         \/ Becomes(r, new) /\ (row.status \in Open => IsOpen(i) /\ row.opened = run[i].opened)
         \/ Opens(r, new) /\ row.opened # "launch"
  PROVE  GateInv'
<1>1. /\ run' \in Seq(RunRow(Len(run'))) /\ Len(run') = Len(run) /\ Len(run) \in Nat
  <2>1. TypeOK
    BY DEF GateInv
  <2>2. Len(run) \in Nat
    BY <2>1 DEF TypeOK
  <2> QED
    BY <2>1, <2>2, RowChanges
<1>2. CASE Becomes(r, new) /\ (row.status \in Open => IsOpen(i) /\ row.opened = run[i].opened)
  <2>1. \A q \in pending' : q \in pending \/ (Known(q, Len(run)) /\ ~Cleared(q))
    BY <1>2 DEF Becomes
  <2>2. TypeOK'
    BY <1>1, <2>1, StepKeeps DEF GateInv, TypeOK, Like
  <2>3. GateHolds' /\ OneOpenRun'
    BY <1>2, <2>1, RunChanges
  <2> QED
    BY <2>2, <2>3 DEF GateInv
<1>3. CASE Opens(r, new) /\ row.opened # "launch"
  <2>1. /\ \A q \in pending' : (\E p \in pending : Like(q, p)) \/ Known(q, Len(run))
        /\ \A q \in pending' : ~Cleared(q)
    BY <1>1, <1>3, OpensCrosses DEF GateInv
  <2>2. TypeOK'
    BY <1>1, <2>1, StepKeeps DEF GateInv, TypeOK
  <2>3. GateHolds' /\ OneOpenRun'
    BY <1>3, <2>1, RunReopens
  <2> QED
    BY <2>2, <2>3 DEF GateInv
<1> QED
  BY <1>2, <1>3

\* What is left to do when a run is there.
LEMMA WhatIsLeft ==
  ASSUME NEW n \in Nat, NEW s \in CallRow(n), s.run \in 1 .. n, s.kind = "fork" => s.scope \in 1 .. n
  PROVE  \A q \in ToBootstrap(s) \cup ToAnswer(s) : Known(q, n) /\ ~Cleared(q)
<1>1. s.key # NoKey => s.key \in Keys
  BY DEF CallRow
<1>2. Known([s EXCEPT !.next = "refresh"], n) /\ ~Cleared([s EXCEPT !.next = "refresh"])
  BY DEF Known, CallRow, Places, Making, Bootstrapping, Cleared
<1>3. s.key # NoKey => Known([s EXCEPT !.next = "key"], n) /\ ~Cleared([s EXCEPT !.next = "key"])
  BY <1>1 DEF Known, CallRow, Places, Making, Bootstrapping, Cleared
<1> QED
  BY <1>2, <1>3 DEF ToBootstrap, ToAnswer

LEMMA ReopenKeeps == ASSUME GateInv, NEW r \in pending, Reopen(r) PROVE GateInv'
<1> DEFINE i == r.run
           row == [run[i] EXCEPT !.status = "QUEUED", !.asked = r.starts, !.opened = "resume",
                                 !.crossed = @ \/ \E q \in pending \ {r} : q.run = r.run]
<1>1. /\ Known(r, Len(run)) /\ i \in Ids /\ Len(run) \in Nat
      /\ run[i] \in RunRow(Len(run))
  BY TypeIsKnown DEF GateInv, TypeOK, Known, Reopen, Ids
<1>2. row \in RunRow(Len(run)) /\ row.opened = "resume"
  <2>1. (run[i].crossed \/ \E q \in pending \ {r} : q.run = r.run) \in BOOLEAN
    BY <1>1 DEF RunRow
  <2>2. r.starts \in BOOLEAN
    BY <1>1 DEF Known, CallRow
  <2> QED
    BY <1>1, <2>1, <2>2 DEF RunRow, Open
<1>3. run' = [run EXCEPT ![i] = row] /\ Opens(r, ToBootstrap(r))
  BY DEF Reopen
<1>4. \A q \in ToBootstrap(r) : Known(q, Len(run)) /\ ~Cleared(q)
  BY <1>1, WhatIsLeft DEF Ids, Known
<1> HIDE DEF i, row
<1> QED
  BY <1>1, <1>2, <1>3, <1>4, ChangesARow DEF Reopen

LEMMA BrokenKeeps == ASSUME GateInv, NEW r \in pending, LockBroken(r) PROVE GateInv'
<1> DEFINE i == r.run
           row == [run[i] EXCEPT !.status = "FAILED"]
<1>1. /\ Known(r, Len(run)) /\ i \in Ids /\ r.next \in Bootstrapping
      /\ run[i] \in RunRow(Len(run))
  BY TypeIsKnown DEF GateInv, TypeOK, Known, LockBroken, Ids, Bootstrapping
<1>2. row \in RunRow(Len(run)) /\ row.status \notin Open
  BY <1>1 DEF RunRow, Concluded, Open
<1>3. run' = [run EXCEPT ![i] = row]
  BY DEF LockBroken
<1>4. PICK new : Becomes(r, new) /\ \A q \in new : Known(q, Len(run)) /\ ~Cleared(q)
  BY <1>1, LeavesKeeps DEF LockBroken, Bootstrapping
<1> HIDE DEF i, row
<1> QED
  BY <1>1, <1>2, <1>3, <1>4, ChangesARow DEF LockBroken

LEMMA SeedKeeps == ASSUME GateInv, NEW r \in pending, Seed(r) PROVE GateInv'
<1> DEFINE i == r.run
           row == [run[i] EXCEPT !.graph = @ + 1]
<1>1. /\ Known(r, Len(run)) /\ i \in Ids /\ r.next \in Bootstrapping
      /\ run[i] \in RunRow(Len(run))
  BY TypeIsKnown DEF GateInv, TypeOK, Known, Seed, Ids, Bootstrapping
<1>2. row \in RunRow(Len(run)) /\ row.status = run[i].status /\ row.opened = run[i].opened
  <2>1. run[i].graph + 1 \in Nat
    BY <1>1 DEF RunRow
  <2> QED
    BY <1>1, <2>1 DEF RunRow
<1>3. run' = [run EXCEPT ![i] = row]
  BY DEF Seed
<1>4. PICK new : Becomes(r, new) /\ \A q \in new : Known(q, Len(run)) /\ ~Cleared(q)
  BY <1>1, LeavesKeeps DEF Seed, Bootstrapping
<1> HIDE DEF i, row
<1> QED
  BY <1>1, <1>2, <1>3, <1>4, ChangesARow DEF Seed, IsOpen

LEMMA LockKeeps == ASSUME GateInv, NEW r \in pending, Lock(r) PROVE GateInv'
<1> DEFINE i == r.run
<1>1. /\ Known(r, Len(run)) /\ i \in Ids /\ r.next \in Bootstrapping
      /\ run[i] \in RunRow(Len(run))
  BY TypeIsKnown DEF GateInv, TypeOK, Known, Lock, Ids, Bootstrapping
<1>2. CASE Status(r) = "QUEUED" /\ ~IsOpen(i)
  <2> DEFINE row == [run[i] EXCEPT !.status = "RUNNING", !.opened = "stale"]
             t == [r EXCEPT !.next = "check", !.seen = "-"]
             new == {t}
  <2>1. row \in RunRow(Len(run)) /\ row.opened = "stale"
    BY <1>1 DEF RunRow, Open
  <2>2. Known(t, Len(run)) /\ ~Cleared(t)
    BY <1>1 DEF Known, CallRow, Places, Making, Bootstrapping, Cleared, Ids
  <2>3. run' = [run EXCEPT ![i] = row] /\ Opens(r, new)
        /\ UNCHANGED <<calls, answered, crowded, stops, faults>>
    BY <1>2 DEF Lock
  <2>4. \A q \in new : Known(q, Len(run)) /\ ~Cleared(q)
    BY <2>2
  <2> HIDE DEF i, row, t, new
  <2> QED
    BY <1>1, <2>1, <2>3, <2>4, ChangesARow
<1>3. CASE ~(Status(r) = "QUEUED" /\ ~IsOpen(i))
  <2>1. PICK new : Becomes(r, new) /\ \A q \in new : Known(q, Len(run)) /\ ~Cleared(q)
    BY <1>1, <1>3, LeavesKeeps DEF Lock, Bootstrapping
  <2>2. CASE Status(r) = "QUEUED"
    <3> DEFINE row == [run[i] EXCEPT !.status = "RUNNING"]
    <3>1. row \in RunRow(Len(run)) /\ row.opened = run[i].opened
      BY <1>1 DEF RunRow, Open
    <3>2. run' = [run EXCEPT ![i] = row] /\ IsOpen(i)
      BY <1>3, <2>2 DEF Lock
    <3> HIDE DEF i, row
    <3> QED
      BY <1>1, <2>1, <3>1, <3>2, ChangesARow DEF Lock
  <2>3. CASE Status(r) # "QUEUED"
    BY <1>3, <2>1, <2>3, TurnsInto DEF Lock
  <2> QED
    BY <2>2, <2>3
<1> QED
  BY <1>2, <1>3

LEMMA WriteKeyKeeps == ASSUME GateInv, NEW r \in pending, WriteKey(r) PROVE GateInv'
<1> DEFINE i == r.run
           row == [run[i] EXCEPT !.key = r.key]
<1>1. /\ Known(r, Len(run)) /\ i \in Ids /\ r.key \in Keys
      /\ run[i] \in RunRow(Len(run))
  BY TypeIsKnown DEF GateInv, TypeOK, Known, WriteKey, Ids
<1>2. \A a \in answered' : \/ a \in answered
                           \/ a \in [key : Keys, scope : 0 .. Len(run), run : 1 .. Len(run)]
  BY <1>1 DEF WriteKey, Answers, Known, CallRow, Ids
<1>3. row \in RunRow(Len(run)) /\ row.status = run[i].status /\ row.opened = run[i].opened
  BY <1>1 DEF RunRow
<1>4. Becomes(r, {}) /\ UNCHANGED <<calls, crowded, stops, faults>>
  BY DEF WriteKey, Ends
<1>5. run' = [run EXCEPT ![i] = row] \/ UNCHANGED run
  BY DEF WriteKey, KeyWritten
<1> HIDE DEF i, row
<1> QED
  BY <1>1, <1>2, <1>3, <1>4, <1>5, ChangesARow, TurnsInto DEF IsOpen

\* A run is made, open or failed.
LEMMA AddsARow ==
  ASSUME GateInv, NEW r \in pending, UNCHANGED <<calls, answered, crowded, stops, faults>>,
         NEW row \in RunRow(Len(run) + 1), run' = Append(run, row),
         NEW new, \A q \in new : Known(q, Len(run) + 1) /\ ~Cleared(q),
         \/ Becomes(r, new) /\ row.status \notin Open
         \/ Opens(r, new) /\ (row.opened = "launch" => Cleared(r))
  PROVE  GateInv'
<1>1. /\ run' \in Seq(RunRow(Len(run'))) /\ Len(run') = Len(run) + 1 /\ Len(run) \in Nat
      /\ Ids' = Ids \cup {Len(run) + 1} /\ run'[Len(run) + 1] = row
      /\ \A j \in Ids : run'[j] = run[j]
  <2>1. TypeOK
    BY DEF GateInv
  <2>2. Len(run) \in Nat
    BY <2>1 DEF TypeOK
  <2>3. Len(run') = Len(run) + 1
    BY <2>1, RowIsAdded
  <2>4. Ids' = Ids \cup {Len(run) + 1}
    BY <2>2, <2>3 DEF Ids
  <2> QED
    BY <2>1, <2>2, <2>3, <2>4, RowIsAdded
<1>2. CASE Becomes(r, new) /\ row.status \notin Open
  <2>1. \A q \in pending' : q \in pending \/ (Known(q, Len(run) + 1) /\ ~Cleared(q))
    BY <1>2 DEF Becomes
  <2>2. TypeOK'
    BY <1>1, <2>1, StepKeeps DEF GateInv, TypeOK, Like
  <2>3. \A j \in OpenRuns' : j \in OpenRuns /\ run'[j].opened = run[j].opened
    BY <1>1, <1>2 DEF OpenRuns, IsOpen
  <2>4. GateHolds' /\ OneOpenRun'
    BY <2>1, <2>3, NothingOpens
  <2> QED
    BY <2>2, <2>4 DEF GateInv
<1>3. CASE Opens(r, new) /\ (row.opened = "launch" => Cleared(r))
  <2>1. /\ \A q \in pending' : (\E p \in pending : Like(q, p)) \/ Known(q, Len(run) + 1)
        /\ \A q \in pending' : ~Cleared(q)
    BY <1>1, <1>3, OpensCrosses DEF GateInv
  <2>2. TypeOK'
    BY <1>1, <2>1, StepKeeps DEF GateInv, TypeOK
  <2>3. GateHolds'
    BY <2>1 DEF GateHolds, Cleared
  <2>4. CASE row.opened # "launch"
    <3>1. Launched' \subseteq Launched
      BY <1>1, <2>4 DEF Launched, OpenRuns, IsOpen
    <3> QED
      BY <2>2, <2>3, <3>1 DEF GateInv, OneOpenRun
  <2>5. CASE Cleared(r)
    <3>1. OpenRuns = {}
      BY <2>5 DEF GateInv, GateHolds, Cleared
    <3>2. OpenRuns' \subseteq {Len(run) + 1}
      BY <1>1, <3>1 DEF OpenRuns, IsOpen
    <3>3. OneOpenRun'
      BY <3>2 DEF OneOpenRun, Launched
    <3> QED
      BY <2>2, <2>3, <3>3 DEF GateInv
  <2> QED
    BY <1>3, <2>4, <2>5
<1> QED
  BY <1>2, <1>3

\* The request that made a run knows it.
LEMMA Made ==
  ASSUME TypeOK, NEW r \in pending
  PROVE  LET s == [r EXCEPT !.run = Len(run) + 1, !.fresh = TRUE]
         IN  \A q \in ToBootstrap(s) \cup ToAnswer(s) : Known(q, Len(run) + 1) /\ ~Cleared(q)
<1> DEFINE s == [r EXCEPT !.run = Len(run) + 1, !.fresh = TRUE]
           n == Len(run) + 1
<1>1. n \in Nat /\ Len(run) \in Nat /\ Len(run) <= n /\ n \in 1 .. n /\ n \in 0 .. n
  BY DEF TypeOK
<1>2. Known(r, n)
  BY <1>1, TypeIsKnown, MoreRuns
<1> HIDE DEF n
<1>3. s \in CallRow(n) /\ s.run = n /\ s.kind = r.kind /\ s.scope = r.scope
  BY <1>1, <1>2 DEF Known, CallRow, n
<1>4. s.kind = "fork" => s.scope \in 1 .. n
  BY <1>2, <1>3 DEF Known
<1> HIDE DEF s
<1> QED
  BY <1>1, <1>3, <1>4, WhatIsLeft DEF s, n

LEMMA InsertFailedKeeps == ASSUME GateInv, NEW r \in pending, InsertFailed(r) PROVE GateInv'
<1> DEFINE s == [r EXCEPT !.run = Len(run) + 1, !.fresh = TRUE]
           row == NewRun(r, "FAILED")
<1>1. Known(r, Len(run)) /\ Len(run) \in Nat
  BY TypeIsKnown DEF GateInv, TypeOK
<1>2. row \in RunRow(Len(run) + 1) /\ row.status \notin Open
  BY <1>1 DEF NewRun, Row, RunRow, Open, Concluded, NoId, Known, CallRow
<1>3. \A q \in ToAnswer(s) : Known(q, Len(run) + 1) /\ ~Cleared(q)
  BY Made DEF GateInv
<1>4. run' = Append(run, row) /\ Becomes(r, ToAnswer(s)) /\ UNCHANGED <<calls, answered, crowded, stops, faults>>
  BY DEF InsertFailed
<1> HIDE DEF s, row
<1> QED
  BY <1>2, <1>3, <1>4, AddsARow

LEMMA InsertKeeps == ASSUME GateInv, NEW r \in pending, Insert(r) PROVE GateInv'
<1> DEFINE s == [r EXCEPT !.run = Len(run) + 1, !.fresh = TRUE]
<1>1. Known(r, Len(run)) /\ Len(run) \in Nat /\ r.next = "insert"
  BY TypeIsKnown DEF GateInv, TypeOK, Insert
<1>2. \A q \in ToBootstrap(s) : Known(q, Len(run) + 1) /\ ~Cleared(q)
  BY Made DEF GateInv
<1>3. Opens(r, ToBootstrap(s)) /\ UNCHANGED <<calls, answered, crowded, stops, faults>>
  BY DEF Insert
<1> HIDE DEF s
<1>4. CASE r.kind = "fork"
  <2>1. r.scope \in Ids /\ r.scope \in 0 .. Len(run) + 1 /\ run[r.scope] \in RunRow(Len(run))
    BY <1>1, <1>4 DEF Known, Ids, GateInv, TypeOK
  <2>2. /\ run[r.scope].graph \in Nat /\ run[r.scope].key \in Keys \cup {NoKey}
        /\ run[r.scope].scope \in 0 .. Len(run) + 1
        /\ r.starts \in BOOLEAN /\ r.key \in Keys \cup {NoKey}
    BY <1>1, <2>1 DEF RunRow, Known, CallRow
  <2>3. PICK graph \in {0, run[r.scope].graph} : run' = Append(run, ForkRow(r, graph))
    BY <1>4 DEF Insert
  <2>4. ForkRow(r, graph) \in RunRow(Len(run) + 1) /\ ForkRow(r, graph).opened = "fork"
    BY <2>1, <2>2 DEF ForkRow, Row, RunRow, Open
  <2> QED
    BY <1>2, <1>3, <2>3, <2>4, AddsARow
<1>5. CASE r.kind # "fork"
  <2>1. run' = Append(run, NewRun(r, "QUEUED"))
    BY <1>5 DEF Insert
  <2>2. NewRun(r, "QUEUED") \in RunRow(Len(run) + 1)
    BY <1>1 DEF NewRun, Row, RunRow, Open, NoId, Known, CallRow
  <2>3. NewRun(r, "QUEUED").opened = "launch" => r.fresh
    BY DEF NewRun, Row
  <2>4. r.kind = "create"
    BY <1>1, <1>5 DEF Known, Making
  <2> QED
    BY <1>1, <1>2, <1>3, <2>1, <2>2, <2>3, <2>4, AddsARow DEF Cleared
<1> QED
  BY <1>4, <1>5

\* A request arrives.
LEMMA ArrivesKeeps ==
  ASSUME GateInv, NEW call \in CallRow(Len(run)), Arrives(call), ~Cleared(call),
         call.next \in Making => call.kind \in {"create", "fork"},
         call.next = "find" => call.key \in Keys,
         call.next \in {"find", "count", "insert", "reopen"},
         call.next = "reopen" => call.run \in Ids,
         call.kind = "fork" => call.scope \in Ids
  PROVE  GateInv'
<1>1. Known(call, Len(run))
  BY DEF Known, Bootstrapping, Ids
<1>2. pending' = pending \cup {call}
  BY DEF Arrives
<1>3. UNCHANGED <<run, answered, stops, faults>> /\ calls' \in 0 .. MaxCalls
  BY DEF Arrives, GateInv, TypeOK, ConstantsAssumption
<1>4. crowded' \subseteq crowded \cup (Keys \X (0 .. Len(run')))
  <2>1. call.key # NoKey => About(call) \in Keys \X (0 .. Len(run))
    BY DEF About, CallRow
  <2> QED
    BY <1>3, <2>1 DEF Arrives, Repeats
<1>5. TypeOK'
  BY <1>1, <1>2, <1>3, <1>4, StepKeeps DEF GateInv, TypeOK, Like
<1> QED
  BY <1>2, <1>3, <1>5, RunsAlone DEF GateInv

LEMMA CallIs ==
  ASSUME TypeOK, calls < MaxCalls, NEW kind \in {"create", "fork", "resume", "start"},
         NEW key \in Keys \cup {NoKey}, NEW scope \in 0 .. Len(run), NEW starts \in BOOLEAN,
         NEW next \in Places, NEW i \in 0 .. Len(run)
  PROVE  LET call == Call(kind, key, scope, starts, next, i)
         IN  /\ call \in CallRow(Len(run))
             /\ call.kind = kind /\ call.key = key /\ call.scope = scope /\ call.next = next
             /\ call.run = i
<1>1. calls \in 0 .. MaxCalls - 1
  BY DEF TypeOK, ConstantsAssumption
<1> QED
  BY <1>1 DEF Call, CallRow

LEMMA RequestKeeps == ASSUME GateInv, Request PROVE GateInv'
<1>1. TypeOK /\ Len(run) \in Nat /\ 0 \in 0 .. Len(run) /\ Ids \subseteq 0 .. Len(run)
      /\ CreateKeys \subseteq Keys /\ ForkKeys \subseteq Keys
  BY DEF GateInv, TypeOK, Ids, Keys
<1>2. ASSUME NEW key \in CreateKeys \cup {NoKey}, NEW starts \in BOOLEAN, Create(key, starts)
      PROVE  GateInv'
  <2> DEFINE next == IF key = NoKey THEN "count" ELSE "find"
             call == Call("create", key, NoId, starts, next, NoId)
  <2>1. calls < MaxCalls /\ Arrives(call)
    BY <1>2 DEF Create, Arrives
  <2>2. next \in Places /\ next \in {"count", "find"} /\ (next = "find" => key \in Keys)
    BY <1>1 DEF Places
  <2>3. call \in CallRow(Len(run)) /\ call.kind = "create" /\ call.key = key /\ call.next = next
    BY <1>1, <2>1, <2>2, CallIs DEF NoId
  <2> HIDE DEF call, next
  <2> QED
    BY <2>1, <2>2, <2>3, ArrivesKeeps DEF Cleared
<1>3. ASSUME NEW i \in Ids, NEW key \in ForkKeys \cup {NoKey}, NEW starts \in BOOLEAN,
             Fork(i, key, starts)
      PROVE  GateInv'
  <2> DEFINE next == IF key = NoKey THEN "insert" ELSE "find"
             call == Call("fork", key, i, starts, next, NoId)
  <2>1. calls < MaxCalls /\ Arrives(call)
    BY <1>3 DEF Fork, Arrives
  <2>2. next \in Places /\ next \in {"insert", "find"} /\ (next = "find" => key \in Keys)
    BY <1>1 DEF Places
  <2>3. call \in CallRow(Len(run)) /\ call.kind = "fork" /\ call.key = key /\ call.next = next
        /\ call.scope = i
    BY <1>1, <2>1, <2>2, CallIs DEF NoId
  <2> HIDE DEF call, next
  <2> QED
    BY <2>1, <2>2, <2>3, ArrivesKeeps DEF Cleared
<1>4. ASSUME NEW i \in Ids, NEW starts \in BOOLEAN, Resume(i, starts)
      PROVE  GateInv'
  <2> DEFINE call == Call("resume", NoKey, NoId, starts, "reopen", i)
  <2>1. calls < MaxCalls /\ Arrives(call)
    BY <1>4 DEF Resume, Arrives
  <2>2. call \in CallRow(Len(run)) /\ call.kind = "resume" /\ call.next = "reopen" /\ call.run = i
    BY <1>1, <2>1, CallIs DEF NoId, Places
  <2> HIDE DEF call
  <2> QED
    BY <2>1, <2>2, ArrivesKeeps DEF Cleared, Making
<1> QED
  BY <1>2, <1>3, <1>4 DEF Request

LEMMA StopsKeeps ==
  ASSUME GateInv, NEW i \in Ids, Cancel(i) \/ Stop(i) PROVE GateInv'
<1>1. PICK status \in Stopped \cup Concluded : run' = [run EXCEPT ![i].status = status]
  BY DEF Cancel, Stop, Stops, Stopped, Concluded
<1> DEFINE row == [run[i] EXCEPT !.status = status]
<1>2. run[i] \in RunRow(Len(run)) /\ TypeOK
  BY DEF GateInv, TypeOK, Ids
<1>3. row \in RunRow(Len(run)) /\ row.status \notin Open
  BY <1>2 DEF RunRow, Stopped, Concluded, Open
<1>4. run' = [run EXCEPT ![i] = row]
  BY <1>1
<1>5. UNCHANGED <<calls, pending, answered, crowded, faults>>
  BY DEF Cancel, Stop, Stops
<1>6. stops' \in Nat /\ stops' + faults' <= MaxMishaps
  BY <1>5 DEF Cancel, Stop, Stops, GateInv, TypeOK, ConstantsAssumption
<1> HIDE DEF row
<1>7. run' \in Seq(RunRow(Len(run'))) /\ Len(run') = Len(run)
  BY <1>2, <1>3, <1>4, RowChanges
<1>8. Len(run) <= Len(run')
  BY <1>2, <1>7 DEF TypeOK
<1>9. TypeOK'
  BY <1>5, <1>6, <1>7, <1>8, StepKeeps DEF GateInv, TypeOK, Like
<1>10. GateHolds' /\ OneOpenRun'
  BY <1>3, <1>4, <1>5, RunChanges
<1> QED
  BY <1>9, <1>10 DEF GateInv

LEMMA GateStart == Init => GateInv
<1> SUFFICES ASSUME Init PROVE GateInv
  OBVIOUS
<1>1. Len(run) = 0 /\ Ids = {}
  BY DEF Init, Ids
<1>2. TypeOK
  BY <1>1 DEF Init, TypeOK, ConstantsAssumption
<1> QED
  BY <1>1, <1>2 DEF GateInv, GateHolds, OneOpenRun, Launched, OpenRuns, Init

LEMMA GateStep == GateInv /\ [Next]_vars => GateInv'
<1> SUFFICES ASSUME GateInv, [Next]_vars PROVE GateInv'
  OBVIOUS
<1>1. CASE Request
  BY <1>1, RequestKeeps
<1>2. ASSUME NEW i \in Ids, Cancel(i) \/ Stop(i) PROVE GateInv'
  BY <1>2, StopsKeeps
<1>3. ASSUME NEW r \in pending, Serve(r) \/ Die(r) PROVE GateInv'
  BY <1>3, FindKeeps, CountKeeps, InsertFailedKeeps, InsertKeeps, ReopenKeeps, BootstrapKeeps,
     BrokenKeeps, LockKeeps, SeedKeeps, HandOverKeeps, WriteKeyKeeps, DieKeeps DEF Serve, Bootstrap
<1>4. CASE UNCHANGED vars
  BY <1>4 DEF vars, GateInv, TypeOK, GateHolds, OneOpenRun, Launched, OpenRuns, IsOpen, Ids
<1> QED
  BY <1>1, <1>2, <1>3, <1>4 DEF Next

LEMMA Gate == Spec => []GateInv
  BY GateStart, GateStep, PTL DEF Spec

-----------------------------------------------------------------------------
(* What becomes of the others when one request or task goes on.            *)

Same(q, p) ==
  q.key = p.key /\ q.scope = p.scope /\ q.kind = p.kind /\ q.next = p.next /\ q.run = p.run

\* Whoever is left comes from one of the others, and from one alone.
LEMMA OthersStay ==
  ASSUME TypeOK, NEW r \in pending, NEW new, Becomes(r, new) \/ Opens(r, new)
  PROVE  \E f : \A q \in pending' :
            q \in new \/ \E p \in pending \ {r} : q = f[p] /\ Same(q, p)
<1>1. CASE Becomes(r, new)
  <2> DEFINE f == [p \in pending |-> p]
  <2>1. \A q \in pending' : q \in new \/ \E p \in pending \ {r} : q = f[p] /\ Same(q, p)
    BY <1>1 DEF Becomes, Same
  <2> QED
    BY <2>1
<1>2. CASE Opens(r, new)
  <2> DEFINE f == [p \in pending |-> [p EXCEPT !.fresh = p.next # "insert"]]
  <2>1. \A p \in pending : Same(f[p], p)
    <3> SUFFICES ASSUME NEW p \in pending PROVE Same(f[p], p)
      OBVIOUS
    <3>1. p \in CallRow(Len(run))
      BY DEF TypeOK
    <3> QED
      BY <3>1 DEF Same, CallRow
  <2>2. \A q \in pending' : q \in new \/ \E p \in pending \ {r} : q = f[p] /\ Same(q, p)
    BY <1>2, <2>1 DEF Opens
  <2> QED
    BY <2>2
<1> QED
  BY <1>1, <1>2

-----------------------------------------------------------------------------
(* Seeding.                                                                *)

SeedHolds == SeededOnce /\ BootstrapsAlone

\* About to seed.
Seeding(r) == r.next \in {"generate", "seed"}
Boots(r) == r.next \in Bootstrapping

\* A run changes, but neither its graph nor whether it was crossed.
LEMMA GraphsStay ==
  ASSUME TypeOK,
         \/ UNCHANGED run
         \/ \E i \in Ids : \E row : /\ run' = [run EXCEPT ![i] = row]
                                    /\ row.graph = run[i].graph /\ row.crossed = run[i].crossed
  PROVE  /\ Ids' = Ids
         /\ \A j \in Ids : run'[j].crossed = run[j].crossed /\ run'[j].graph = run[j].graph
<1>1. Len(run) \in Nat /\ run \in Seq(RunRow(Len(run)))
  BY DEF TypeOK
<1>2. ASSUME NEW i \in Ids, NEW row, run' = [run EXCEPT ![i] = row]
      PROVE  Len(run') = Len(run) /\ run'[i] = row /\ \A j \in Ids : j # i => run'[j] = run[j]
  BY <1>1, <1>2 DEF Ids
<1> QED
  BY <1>2 DEF Ids

\* One request or task goes on and no run is seeded: whoever bootstraps now did
\* so before, and sees no more than it did.
LEMMA GoesOn ==
  ASSUME TypeOK, SeedHolds, NEW r \in pending, NEW new, Becomes(r, new) \/ Opens(r, new),
         Ids' = Ids,
         \A i \in Ids : /\ run[i].crossed => run'[i].crossed
                        /\ run'[i].graph = run[i].graph,
         NEW t,
         \A q \in new : Boots(q) =>
            /\ q = t /\ q.run = r.run /\ Boots(r)
            /\ Seeding(q) => Seeding(r) \/ run[r.run].graph = 0
  PROVE  SeedHolds'
<1>1. PICK f : \A q \in pending' :
         q \in new \/ \E p \in pending \ {r} : q = f[p] /\ Same(q, p)
  BY OthersStay
<1>2. \A p \in pending : Boots(p) => p.run \in Ids
  BY DEF TypeOK, Boots
<1>3. \A q \in pending' : Boots(q) => q.run \in Ids
  BY <1>1, <1>2 DEF Same, Boots
<1>4. SeededOnce'
  BY DEF SeedHolds, SeededOnce
<1>5. ASSUME NEW q \in pending', Boots(q), ~run'[q.run].crossed,
             NEW p \in pending', Boots(p), p.run = q.run
      PROVE  p = q
  <2>1. ~run[q.run].crossed
    BY <1>3, <1>5
  <2>2. \A a, b \in pending : Boots(a) /\ Boots(b) /\ a.run = q.run /\ b.run = q.run => a = b
    BY <2>1 DEF SeedHolds, BootstrapsAlone, Boots
  <2> QED
    BY <1>1, <1>5, <2>2 DEF Same, Boots
<1>6. ASSUME NEW q \in pending', Boots(q), ~run'[q.run].crossed, Seeding(q)
      PROVE  run'[q.run].graph = 0
  <2>1. ~run[q.run].crossed /\ q.run \in Ids
    BY <1>3, <1>6
  <2>2. \A a \in pending : Seeding(a) /\ Boots(a) /\ a.run = q.run => run[q.run].graph = 0
    BY <2>1 DEF SeedHolds, BootstrapsAlone, Seeding, Boots
  <2>3. run[q.run].graph = 0
    BY <1>1, <1>6, <2>2 DEF Same, Boots, Seeding
  <2> QED
    BY <2>1, <2>3
<1>7. BootstrapsAlone'
  BY <1>5, <1>6 DEF BootstrapsAlone, Boots, Seeding
<1> QED
  BY <1>4, <1>7 DEF SeedHolds

\* A run is made, and nobody has been about it.
LEMMA IsMade ==
  ASSUME TypeOK, SeedHolds, NEW r \in pending, NEW new, Becomes(r, new) \/ Opens(r, new),
         NEW row, run' = Append(run, row), row.graph > 1 => row.crossed,
         NEW t, \A q \in new : Boots(q) => q = t /\ q.run = Len(run) + 1 /\ ~Seeding(q)
  PROVE  SeedHolds'
<1>1. PICK f : \A q \in pending' :
         q \in new \/ \E p \in pending \ {r} : q = f[p] /\ Same(q, p)
  BY OthersStay
<1>2. /\ Len(run) \in Nat /\ Ids' = Ids \cup {Len(run) + 1} /\ run'[Len(run) + 1] = row
      /\ \A i \in Ids : run'[i] = run[i] /\ i # Len(run) + 1
  BY DEF TypeOK, Ids
<1>3. \A p \in pending : Boots(p) => p.run \in Ids /\ p.run # Len(run) + 1
  BY <1>2 DEF TypeOK, Boots
<1>4. SeededOnce'
  BY <1>2 DEF SeedHolds, SeededOnce
<1>5. ASSUME NEW q \in pending', Boots(q), ~run'[q.run].crossed,
             NEW p \in pending', Boots(p), p.run = q.run
      PROVE  p = q
  <2>1. CASE q.run = Len(run) + 1
    BY <1>1, <1>3, <1>5, <2>1 DEF Same, Boots
  <2>2. CASE q.run # Len(run) + 1
    <3>1. q.run \in Ids /\ ~run[q.run].crossed
      BY <1>1, <1>2, <1>3, <1>5, <2>2 DEF Same, Boots
    <3>2. \A a, b \in pending : Boots(a) /\ Boots(b) /\ a.run = q.run /\ b.run = q.run => a = b
      BY <3>1 DEF SeedHolds, BootstrapsAlone, Boots
    <3> QED
      BY <1>1, <1>5, <2>2, <3>2 DEF Same, Boots
  <2> QED
    BY <2>1, <2>2
<1>6. ASSUME NEW q \in pending', Boots(q), ~run'[q.run].crossed, Seeding(q)
      PROVE  run'[q.run].graph = 0
  <2>1. PICK p \in pending \ {r} : q = f[p] /\ Same(q, p)
    BY <1>1, <1>6
  <2>2. Boots(p) /\ Seeding(p) /\ p.run = q.run
    BY <1>6, <2>1 DEF Same, Boots, Seeding
  <2>3. q.run \in Ids /\ run'[q.run] = run[q.run]
    BY <1>2, <1>3, <2>2
  <2> QED
    BY <1>6, <2>2, <2>3 DEF SeedHolds, BootstrapsAlone, Boots, Seeding
<1>7. BootstrapsAlone'
  BY <1>5, <1>6 DEF BootstrapsAlone, Boots, Seeding
<1> QED
  BY <1>4, <1>7 DEF SeedHolds

\* Wherever a bootstrap goes next.
LEMMA BootstrapGoes ==
  ASSUME TypeOK, NEW r \in pending, NEW next \in Bootstrapping, Leaves(r, next)
  PROVE  \E new : \E t : /\ Becomes(r, new)
                         /\ \A q \in new : q = t /\ q.run = r.run /\ q.next = next
<1> DEFINE t == [r EXCEPT !.next = next, !.seen = "-"]
<1>1. r \in CallRow(Len(run))
  BY DEF TypeOK
<1>2. t.run = r.run /\ t.next = next
  BY <1>1 DEF CallRow
<1>3. Becomes(r, {t}) \/ Becomes(r, {})
  BY DEF Leaves
<1> HIDE DEF t
<1>4. CASE Becomes(r, {t})
  BY <1>2, <1>4
<1>5. CASE Becomes(r, {})
  BY <1>5
<1> QED
  BY <1>3, <1>4, <1>5

\* Before there is a run, and after the bootstrap.
LEMMA SearchSeeds ==
  ASSUME TypeOK, SeedHolds, NEW r \in pending,
         Find(r) \/ CountOpen(r) \/ FindAgain(r) \/ WriteKey(r) \/ Die(r)
  PROVE  SeedHolds'
<1>1. r \in CallRow(Len(run)) /\ (r.next = "key" => r.run \in Ids)
  BY DEF TypeOK
<1>2. PICK new : Becomes(r, new) /\ \A q \in new : ~Boots(q)
  <2>1. CASE Becomes(r, {})
    BY <2>1
  <2>2. ASSUME NEW t, Becomes(r, {t}), t.next \notin Bootstrapping
        PROVE  \E new : Becomes(r, new) /\ \A q \in new : ~Boots(q)
    BY <2>2 DEF Boots
  <2>3. /\ [r EXCEPT !.next = "insert"].next = "insert"
        /\ [r EXCEPT !.next = "count"].next = "count"
        /\ [r EXCEPT !.next = "find_again"].next = "find_again"
        /\ [r EXCEPT !.next = "insert", !.fresh = TRUE].next = "insert"
    BY <1>1 DEF CallRow
  <2>4. \/ Becomes(r, {})
        \/ \E t : Becomes(r, {t}) /\ t.next \in {"insert", "count", "find_again"}
    <3>1. CASE Find(r)
      BY <2>3, <3>1 DEF Find, Goes, Ends
    <3>2. CASE CountOpen(r)
      BY <2>3, <3>2 DEF CountOpen, Goes, Ends
    <3>3. CASE FindAgain(r) \/ WriteKey(r) \/ Die(r)
      BY <3>3 DEF FindAgain, WriteKey, Die, Ends
    <3> QED
      BY <3>1, <3>2, <3>3
  <2> QED
    BY <2>1, <2>2, <2>4 DEF Bootstrapping
<1>3. /\ Ids' = Ids
      /\ \A i \in Ids : (run[i].crossed => run'[i].crossed) /\ run'[i].graph = run[i].graph
  <2> DEFINE row == [run[r.run] EXCEPT !.key = r.key]
  <2>1. UNCHANGED run \/ (r.run \in Ids /\ run' = [run EXCEPT ![r.run] = row])
    BY <1>1 DEF Find, CountOpen, FindAgain, WriteKey, KeyWritten, Die
  <2>2. r.run \in Ids => run[r.run] \in RunRow(Len(run))
    BY DEF TypeOK, Ids
  <2>3. r.run \in Ids => row.graph = run[r.run].graph /\ row.crossed = run[r.run].crossed
    BY <2>2 DEF RunRow
  <2> HIDE DEF row
  <2> QED
    BY <2>1, <2>3, GraphsStay
<1> QED
  BY <1>2, <1>3, GoesOn

LEMMA BootstrapSeeds ==
  ASSUME TypeOK, SeedHolds, NEW r \in pending,
         Refresh(r) \/ LockConcluded(r) \/ LockBroken(r) \/ Lock(r) \/ CheckItems(r)
  PROVE  SeedHolds'
<1>1. r \in CallRow(Len(run)) /\ r.run \in Ids /\ Boots(r) /\ run[r.run] \in RunRow(Len(run))
  BY DEF TypeOK, Refresh, LockConcluded, LockBroken, Lock, CheckItems, Boots, Bootstrapping, Ids
<1>2. \E new, t : /\ Becomes(r, new) \/ Opens(r, new)
                  /\ \A q \in new : /\ q = t /\ q.run = r.run
                                    /\ Seeding(q) => run[r.run].graph = 0
  <2>1. CASE Refresh(r)
    <3> DEFINE t == [r EXCEPT !.next = "lock", !.seen = run[r.run].status]
    <3>1. t.next = "lock" /\ t.run = r.run /\ Becomes(r, {t})
      BY <1>1, <2>1 DEF CallRow, Refresh
    <3> HIDE DEF t
    <3> QED
      BY <3>1 DEF Seeding
  <2>2. ASSUME NEW next \in Bootstrapping, Leaves(r, next),
               next \in {"generate", "seed"} => run[r.run].graph = 0
        PROVE  \E new, t : /\ Becomes(r, new)
                           /\ \A q \in new : /\ q = t /\ q.run = r.run
                                             /\ Seeding(q) => run[r.run].graph = 0
    BY <2>2, BootstrapGoes DEF Seeding
  <2>3. CASE Lock(r) /\ Opens(r, {[r EXCEPT !.next = "check", !.seen = "-"]})
    <3> DEFINE t == [r EXCEPT !.next = "check", !.seen = "-"]
    <3>1. t.next = "check" /\ t.run = r.run /\ Opens(r, {t})
      BY <1>1, <2>3 DEF CallRow
    <3> HIDE DEF t
    <3> QED
      BY <3>1 DEF Seeding
  <2>4. \/ Refresh(r)
        \/ \E next \in Bootstrapping :
              Leaves(r, next) /\ (next \in {"generate", "seed"} => run[r.run].graph = 0)
        \/ Lock(r) /\ Opens(r, {[r EXCEPT !.next = "check", !.seen = "-"]})
    <3>1. CASE LockConcluded(r) \/ LockBroken(r)
      BY <3>1 DEF LockConcluded, LockBroken, Bootstrapping
    <3>2. CASE Lock(r)
      BY <3>2 DEF Lock, Bootstrapping
    <3>3. CASE CheckItems(r)
      <4>1. run[r.run].graph \in Nat
        BY <1>1 DEF RunRow
      <4>2. CASE run[r.run].graph > 0
        <5>1. Leaves(r, "hand_over")
          BY <3>3, <4>2 DEF CheckItems
        <5> QED
          BY <5>1 DEF Bootstrapping
      <4>3. CASE ~(run[r.run].graph > 0)
        <5>1. run[r.run].graph = 0
          BY <4>1, <4>3
        <5>2. Leaves(r, "generate") \/ Leaves(r, "seed")
          BY <3>3, <4>3 DEF CheckItems
        <5> QED
          BY <5>1, <5>2 DEF Bootstrapping
      <4> QED
        BY <4>2, <4>3
    <3> QED
      BY <3>1, <3>2, <3>3
  <2> QED
    BY <2>1, <2>2, <2>3, <2>4
<1>3. /\ Ids' = Ids
      /\ \A i \in Ids : (run[i].crossed => run'[i].crossed) /\ run'[i].graph = run[i].graph
  <2> DEFINE rows == {[run[r.run] EXCEPT !.status = "FAILED"],
                      [run[r.run] EXCEPT !.status = "RUNNING", !.opened = "stale"],
                      [run[r.run] EXCEPT !.status = "RUNNING"]}
  <2>1. UNCHANGED run \/ \E row \in rows : run' = [run EXCEPT ![r.run] = row]
    BY DEF Refresh, LockConcluded, LockBroken, Lock, CheckItems
  <2>2. \A row \in rows : row.graph = run[r.run].graph /\ row.crossed = run[r.run].crossed
    BY <1>1 DEF RunRow
  <2> HIDE DEF rows
  <2> QED
    BY <1>1, <2>1, <2>2, GraphsStay
<1>4. PICK new, t : /\ Becomes(r, new) \/ Opens(r, new)
                    /\ \A q \in new : /\ q = t /\ q.run = r.run
                                      /\ Seeding(q) => run[r.run].graph = 0
  BY <1>2
<1>5. \A q \in new : Boots(q) =>
         /\ q = t /\ q.run = r.run /\ Boots(r)
         /\ Seeding(q) => Seeding(r) \/ run[r.run].graph = 0
  BY <1>1, <1>4
<1>6. Becomes(r, new) \/ Opens(r, new)
  BY <1>4
<1> QED
  BY <1>3, <1>5, <1>6, GoesOn

LEMMA HandOverSeeds ==
  ASSUME TypeOK, SeedHolds, NEW r \in pending, HandOver(r) PROVE SeedHolds'
<1>1. r \in CallRow(Len(run)) /\ Boots(r)
  BY DEF TypeOK, HandOver, Boots, Bootstrapping
<1>2. Task(r).next = "lock" /\ Task(r).run = r.run
  BY <1>1 DEF Task, CallRow
<1>3. \A q \in ToAnswer(r) : q.next = "key"
  BY <1>1 DEF ToAnswer, CallRow
<1>4. \A q \in {Task(r)} \cup ToAnswer(r) :
         Boots(q) => q = Task(r) /\ q.run = r.run /\ ~Seeding(q)
  BY <1>2, <1>3 DEF Boots, Bootstrapping, Seeding
<1>5. Becomes(r, {Task(r)} \cup ToAnswer(r)) /\ UNCHANGED run
  BY DEF HandOver
<1> QED
  BY <1>1, <1>4, <1>5, GoesOn DEF Ids

\* Who makes a run goes on to its bootstrap, or to its answer.
LEMMA ThenBootstraps ==
  ASSUME NEW n \in Nat, NEW s \in CallRow(n)
  PROVE  \E t : \A q \in ToBootstrap(s) :
            Boots(q) => q = t /\ q.run = s.run /\ ~Seeding(q)
<1>1. [s EXCEPT !.next = "refresh"].next = "refresh" /\ [s EXCEPT !.next = "refresh"].run = s.run
  BY DEF CallRow
<1>2. \A q \in ToAnswer(s) : q.next = "key"
  BY DEF ToAnswer, CallRow
<1>3. \A q \in ToBootstrap(s) :
         Boots(q) => /\ q = [s EXCEPT !.next = "refresh"]
                     /\ q.run = s.run /\ ~Seeding(q)
  BY <1>1, <1>2 DEF ToBootstrap, Boots, Bootstrapping, Seeding
<1> QED
  BY <1>3

LEMMA MakerIs ==
  ASSUME TypeOK, NEW r \in pending
  PROVE  LET s == [r EXCEPT !.run = Len(run) + 1, !.fresh = TRUE]
         IN  s \in CallRow(Len(run) + 1) /\ s.run = Len(run) + 1 /\ Len(run) + 1 \in Nat
<1>1. Len(run) \in Nat /\ Len(run) + 1 \in Nat /\ Len(run) <= Len(run) + 1
      /\ Len(run) + 1 \in 0 .. Len(run) + 1
  BY DEF TypeOK
<1>2. Known(r, Len(run) + 1)
  BY <1>1, TypeIsKnown, MoreRuns
<1> QED
  BY <1>1, <1>2 DEF Known, CallRow

LEMMA InsertSeeds ==
  ASSUME TypeOK, SeedHolds, NEW r \in pending, Insert(r) \/ InsertFailed(r) PROVE SeedHolds'
<1> DEFINE s == [r EXCEPT !.run = Len(run) + 1, !.fresh = TRUE]
<1>1. s \in CallRow(Len(run) + 1) /\ s.run = Len(run) + 1 /\ Len(run) + 1 \in Nat
  BY MakerIs
<1>2. CASE InsertFailed(r)
  <2>1. \A q \in ToAnswer(s) : ~Boots(q)
    <3>1. \A q \in ToAnswer(s) : q.next = "key"
      BY <1>1 DEF ToAnswer, CallRow
    <3> QED
      BY <3>1 DEF Boots, Bootstrapping
  <2>2. run' = Append(run, NewRun(r, "FAILED")) /\ Becomes(r, ToAnswer(s))
    BY <1>2 DEF InsertFailed
  <2>3. NewRun(r, "FAILED").graph = 0
    BY DEF NewRun, Row
  <2> HIDE DEF s
  <2> QED
    BY <2>1, <2>2, <2>3, IsMade
<1>3. CASE Insert(r)
  <2>1. PICK t : \A q \in ToBootstrap(s) :
           Boots(q) => q = t /\ q.run = Len(run) + 1 /\ ~Seeding(q)
    BY <1>1, ThenBootstraps
  <2>2. Opens(r, ToBootstrap(s))
    BY <1>3 DEF Insert
  <2>3. PICK row : run' = Append(run, row) /\ (row.graph > 1 => row.crossed)
    <3>1. CASE r.kind = "fork"
      <4>1. r.scope \in Ids
        BY <3>1 DEF TypeOK
      <4>2. PICK graph \in {0, run[r.scope].graph} : run' = Append(run, ForkRow(r, graph))
        BY <1>3, <3>1 DEF Insert
      <4>3. ForkRow(r, graph).graph = graph /\ ForkRow(r, graph).crossed = run[r.scope].crossed
        BY DEF ForkRow, Row
      <4> QED
        BY <4>1, <4>2, <4>3 DEF SeedHolds, SeededOnce
    <3>2. CASE r.kind # "fork"
      <4>1. run' = Append(run, NewRun(r, "QUEUED")) /\ NewRun(r, "QUEUED").graph = 0
        BY <1>3, <3>2 DEF Insert, NewRun, Row
      <4> QED
        BY <4>1
    <3> QED
      BY <3>1, <3>2
  <2> HIDE DEF s
  <2> QED
    BY <2>1, <2>2, <2>3, IsMade
<1> QED
  BY <1>2, <1>3

\* A resume either is alone with the run or crosses who is not.
LEMMA ReopenSeeds ==
  ASSUME TypeOK, SeedHolds, NEW r \in pending, Reopen(r) PROVE SeedHolds'
<1> DEFINE i == r.run
<1>1. r \in CallRow(Len(run)) /\ i \in Ids /\ Len(run) \in Nat
  BY DEF TypeOK, Reopen
<1>2. run[i] \in RunRow(Len(run)) /\ run \in Seq(RunRow(Len(run)))
  BY <1>1 DEF TypeOK, Ids
<1>3. /\ Ids' = Ids
      /\ run'[i].crossed = (run[i].crossed \/ \E q \in pending \ {r} : q.run = i)
      /\ \A j \in Ids : run'[j].graph = run[j].graph /\ (j # i => run'[j] = run[j])
  <2> DEFINE crossed == run[i].crossed \/ \E q \in pending \ {r} : q.run = i
             row == [run[i] EXCEPT !.status = "QUEUED", !.asked = r.starts,
                                   !.opened = "resume", !.crossed = crossed]
  <2>1. run' = [run EXCEPT ![i] = row]
    BY DEF Reopen
  <2>2. row.graph = run[i].graph /\ row.crossed = crossed
    BY <1>2 DEF RunRow
  <2> HIDE DEF row, crossed
  <2>3. Len(run') = Len(run) /\ run'[i] = row /\ \A j \in Ids : j # i => run'[j] = run[j]
    BY <1>1, <1>2, <2>1 DEF Ids
  <2>4. /\ Ids' = Ids /\ run'[i].crossed = crossed
        /\ \A j \in Ids : run'[j].graph = run[j].graph /\ (j # i => run'[j] = run[j])
    BY <2>2, <2>3 DEF Ids
  <2> QED
    BY <2>4 DEF crossed
<1>4. PICK t : \A q \in ToBootstrap(r) : Boots(q) => q = t /\ q.run = i /\ ~Seeding(q)
  BY <1>1, ThenBootstraps
<1>5. PICK f : \A q \in pending' :
         q \in ToBootstrap(r) \/ \E p \in pending \ {r} : q = f[p] /\ Same(q, p)
  BY OthersStay DEF Reopen
<1>6. \A p \in pending : Boots(p) => p.run \in Ids
  BY DEF TypeOK, Boots
<1>7. SeededOnce'
  BY <1>3 DEF SeedHolds, SeededOnce
<1>8. ASSUME NEW q \in pending', Boots(q), ~run'[q.run].crossed
      PROVE  /\ \A p \in pending' : Boots(p) /\ p.run = q.run => p = q
             /\ Seeding(q) => run'[q.run].graph = 0
  <2>1. CASE q.run = i
    <3>1. ~\E p \in pending \ {r} : p.run = i
      BY <1>3, <1>8, <2>1
    <3>2. \A p \in pending' : p.run = i => p \in ToBootstrap(r)
      BY <1>5, <3>1 DEF Same
    <3> QED
      BY <1>4, <1>8, <2>1, <3>2
  <2>2. CASE q.run # i
    <3>1. PICK p \in pending \ {r} : q = f[p] /\ Same(q, p)
      BY <1>4, <1>5, <1>8, <2>2
    <3>2. Boots(p) /\ p.run = q.run /\ q.run \in Ids
      BY <1>6, <1>8, <3>1 DEF Same, Boots
    <3>3. ~run[q.run].crossed /\ run'[q.run] = run[q.run]
      BY <1>3, <1>8, <2>2, <3>2
    <3>4. \A a, b \in pending : Boots(a) /\ Boots(b) /\ a.run = q.run /\ b.run = q.run => a = b
      BY <3>3 DEF SeedHolds, BootstrapsAlone, Boots
    <3>5. Seeding(p) => run[q.run].graph = 0
      BY <3>2, <3>3 DEF SeedHolds, BootstrapsAlone, Boots, Seeding
    <3>6. \A b \in pending' : Boots(b) /\ b.run = q.run => b = q
      BY <1>4, <1>5, <2>2, <3>1, <3>2, <3>4 DEF Same, Boots
    <3> QED
      BY <3>1, <3>3, <3>5, <3>6 DEF Same, Seeding
  <2> QED
    BY <2>1, <2>2
<1>9. BootstrapsAlone'
  BY <1>8 DEF BootstrapsAlone, Boots, Seeding
<1> QED
  BY <1>7, <1>9 DEF SeedHolds

\* Who seeds a run that nobody crossed is alone with it and finds it empty.
LEMMA SeedSeeds ==
  ASSUME TypeOK, SeedHolds, NEW r \in pending, Seed(r) PROVE SeedHolds'
<1> DEFINE i == r.run
<1>1. r \in CallRow(Len(run)) /\ i \in Ids /\ Boots(r) /\ Seeding(r)
  BY DEF TypeOK, Seed, Boots, Seeding, Bootstrapping
<1>2. \A j \in Ids : run[j] \in RunRow(Len(run))
  BY DEF TypeOK, Ids
<1>3. /\ Ids' = Ids /\ run'[i].crossed = run[i].crossed /\ run'[i].graph = run[i].graph + 1
      /\ \A j \in Ids : j # i => run'[j] = run[j]
  BY <1>1, <1>2 DEF Seed, TypeOK, Ids, RunRow
<1>4. ~run[i].crossed => run[i].graph = 0
  BY <1>1 DEF SeedHolds, BootstrapsAlone, Boots, Seeding
<1>5. SeededOnce'
  BY <1>3, <1>4 DEF SeedHolds, SeededOnce
<1>6. PICK new, t : Becomes(r, new) /\ \A q \in new : q = t /\ q.run = i /\ q.next = "hand_over"
  BY BootstrapGoes DEF Seed, Bootstrapping
<1>7. PICK f : \A q \in pending' :
         q \in new \/ \E p \in pending \ {r} : q = f[p] /\ Same(q, p)
  BY <1>6, OthersStay
<1>8. \A p \in pending : Boots(p) => p.run \in Ids
  BY DEF TypeOK, Boots
<1>9. ASSUME NEW q \in pending', Boots(q), ~run'[q.run].crossed
      PROVE  /\ \A p \in pending' : Boots(p) /\ p.run = q.run => p = q
             /\ Seeding(q) => run'[q.run].graph = 0
  <2>1. ~run[q.run].crossed /\ q.run \in Ids
    BY <1>1, <1>3, <1>6, <1>7, <1>8, <1>9 DEF Same, Boots
  <2>2. \A a, b \in pending : Boots(a) /\ Boots(b) /\ a.run = q.run /\ b.run = q.run => a = b
    BY <2>1 DEF SeedHolds, BootstrapsAlone, Boots
  <2>3. \A p \in pending' : Boots(p) /\ p.run = q.run => p = q
    BY <1>1, <1>6, <1>7, <1>9, <2>2 DEF Same, Boots
  <2>4. ASSUME Seeding(q) PROVE run'[q.run].graph = 0
    <3>1. PICK p \in pending \ {r} : q = f[p] /\ Same(q, p)
      BY <1>6, <1>7, <2>4 DEF Seeding
    <3>2. Boots(p) /\ Seeding(p) /\ p.run = q.run
      BY <1>9, <2>4, <3>1 DEF Same, Boots, Seeding
    <3>3. q.run # i
      BY <1>1, <2>2, <3>2
    <3>4. run[q.run].graph = 0
      BY <2>1, <3>2 DEF SeedHolds, BootstrapsAlone, Boots, Seeding
    <3> QED
      BY <1>3, <2>1, <3>3, <3>4
  <2> QED
    BY <2>3, <2>4
<1>10. BootstrapsAlone'
  BY <1>9 DEF BootstrapsAlone, Boots, Seeding
<1> QED
  BY <1>5, <1>10 DEF SeedHolds

\* What a request that arrives is.
Arriving(call) ==
  /\ Arrives(call)
  /\ call.kind \in {"create", "fork", "resume"}
  /\ call.kind = "create" =>
        call.key \in CreateKeys \cup {NoKey} /\ call.scope = NoId /\ call.run = NoId
  /\ call.kind = "fork" => call.key \in ForkKeys \cup {NoKey} /\ call.run = NoId
  /\ call.kind = "resume" => call.key = NoKey
  /\ call.next \in {"find", "count", "insert", "reopen"}
  /\ call.next = "find" <=> call.key # NoKey
  /\ call.next = "count" => call.kind = "create"
  /\ call.next = "reopen" <=> call.kind = "resume"

LEMMA RequestArrives == ASSUME Request PROVE \E call : Arriving(call)
<1>1. NoKey \notin CreateKeys /\ NoKey \notin ForkKeys
  BY DEF ConstantsAssumption
<1>2. ASSUME NEW key \in CreateKeys \cup {NoKey}, NEW starts \in BOOLEAN, Create(key, starts)
      PROVE  \E call : Arriving(call)
  <2> DEFINE call == Call("create", key, NoId, starts, IF key = NoKey THEN "count" ELSE "find", NoId)
  <2>1. Arriving(call)
    BY <1>1, <1>2 DEF Create, Arriving, Call
  <2> QED
    BY <2>1
<1>3. ASSUME NEW i \in Ids, NEW key \in ForkKeys \cup {NoKey}, NEW starts \in BOOLEAN,
             Fork(i, key, starts)
      PROVE  \E call : Arriving(call)
  <2> DEFINE call == Call("fork", key, i, starts, IF key = NoKey THEN "insert" ELSE "find", NoId)
  <2>1. Arriving(call)
    BY <1>1, <1>3 DEF Fork, Arriving, Call
  <2> QED
    BY <2>1
<1>4. ASSUME NEW i \in Ids, NEW starts \in BOOLEAN, Resume(i, starts)
      PROVE  \E call : Arriving(call)
  <2> DEFINE call == Call("resume", NoKey, NoId, starts, "reopen", i)
  <2>1. Arriving(call)
    BY <1>4 DEF Resume, Arriving, Call
  <2> QED
    BY <2>1
<1> QED
  BY <1>2, <1>3, <1>4 DEF Request

LEMMA SeedStep ==
  ASSUME TypeOK, SeedHolds, [Next]_vars PROVE SeedHolds'
<1>1. CASE Request
  <2>1. PICK call : Arriving(call)
    BY <1>1, RequestArrives
  <2>2. pending' = pending \cup {call} /\ UNCHANGED run /\ ~Boots(call)
    BY <2>1 DEF Arriving, Arrives, Boots, Bootstrapping
  <2> QED
    BY <2>2 DEF SeedHolds, SeededOnce, BootstrapsAlone, Boots, Ids
<1>2. ASSUME NEW i \in Ids, Cancel(i) \/ Stop(i) PROVE SeedHolds'
  <2>1. PICK status : run' = [run EXCEPT ![i].status = status] /\ UNCHANGED pending
    BY <1>2 DEF Cancel, Stop, Stops
  <2> DEFINE row == [run[i] EXCEPT !.status = status]
  <2>2. run' = [run EXCEPT ![i] = row] /\ run[i] \in RunRow(Len(run))
    BY <2>1 DEF TypeOK, Ids
  <2>4. row.graph = run[i].graph /\ row.crossed = run[i].crossed
    BY <2>2 DEF RunRow
  <2> HIDE DEF row
  <2>3. /\ Ids' = Ids
        /\ \A j \in Ids : run'[j].crossed = run[j].crossed /\ run'[j].graph = run[j].graph
    BY <2>2, <2>4, GraphsStay
  <2>5. \A p \in pending : Boots(p) => p.run \in Ids
    BY DEF TypeOK, Boots
  <2> QED
    BY <2>1, <2>3, <2>5 DEF SeedHolds, SeededOnce, BootstrapsAlone, Boots
<1>3. ASSUME NEW r \in pending, Serve(r) \/ Die(r) PROVE SeedHolds'
  BY <1>3, SearchSeeds, BootstrapSeeds, HandOverSeeds, InsertSeeds, ReopenSeeds, SeedSeeds
     DEF Serve, Bootstrap
<1>4. CASE UNCHANGED vars
  BY <1>4 DEF vars, SeedHolds, SeededOnce, BootstrapsAlone, Ids
<1> QED
  BY <1>1, <1>2, <1>3, <1>4 DEF Next

-----------------------------------------------------------------------------
(* Keys.                                                                   *)

KeyHolds == OneLine /\ AnswersAreFound /\ SearchHolds /\ CrowdsAreNoted /\ MakersAreAlone

\* What MakersAreAlone says of one request.
Maker(r) ==
  /\ r.kind = "create" => r.key \in CreateKeys \cup {NoKey} /\ r.scope = NoId
  /\ r.kind = "fork" => r.key \in ForkKeys \cup {NoKey}
  /\ r.kind \in {"resume", "start"} => r.key = NoKey
  /\ r.next = "key" => r.key # NoKey
  /\ r.next \in {"count", "find_again"} => r.kind = "create"
  /\ r.next \in Making => r.run = NoId
  /\ r.kind = "create" /\ r.run # NoId => run[r.run].key = NoKey
  /\ r.kind = "fork" /\ r.key # NoKey /\ r.run # NoId => r.run \in Bearers(r.key, r.scope)
Creates(r) == r.kind = "create" /\ r.run # NoId
\* Past its search for a run.
Past(r) == r.key # NoKey /\ r.next # "find" /\ About(r) \notin crowded

LEMMA Kinds ==
  ASSUME TypeOK, NEW r \in pending
  PROVE  /\ r.kind \in {"create", "fork", "resume", "start"} /\ r.key \in Keys \cup {NoKey}
         /\ r.run \in 0 .. Len(run) /\ r.scope \in 0 .. Len(run) /\ r \in CallRow(Len(run))
         /\ NoKey \notin Keys
  BY DEF TypeOK, CallRow, Keys, ConstantsAssumption

\* What the search finds is what bears the key, if it goes back far enough.
LEMMA SearchFinds ==
  ASSUME TypeOK, MakersAreAlone, NEW r \in pending, r.key # NoKey, r.kind \in {"create", "fork"}
  PROVE  /\ Named(r) \subseteq Bearers(r.key, r.scope)
         /\ Len(run) <= Window => Named(r) = Bearers(r.key, r.scope)
<1>1. r.kind = "create" => r.key \in CreateKeys /\ r.key \notin ForkKeys
  BY DEF MakersAreAlone, ConstantsAssumption
<1>2. r.kind = "fork" => r.key \in ForkKeys
  BY DEF MakersAreAlone
<1>3. Named(r) = {i \in Recent : run[i].key = r.key /\ (r.key \in ForkKeys => run[i].scope = r.scope)}
  BY <1>1, <1>2 DEF Named
<1>4. Recent \subseteq Ids /\ (Len(run) <= Window => Recent = Ids)
  BY DEF Recent, Ids, TypeOK, ConstantsAssumption
<1> QED
  BY <1>3, <1>4 DEF Bearers

LEMMA LatestIsNamed ==
  ASSUME TypeOK, NEW r \in pending, Named(r) # {}
  PROVE  Latest(Named(r)) \in Named(r)
<1>1. Named(r) \subseteq 1 .. Len(run) /\ Len(run) \in Nat
  BY DEF Named, Recent, Ids, TypeOK
<1>2. \E i \in Named(r) : \A j \in Named(r) : j <= i
  BY <1>1, Largest
<1> QED
  BY <1>2 DEF Latest

\* The keys of the runs stay.
SameKeys ==
  /\ Ids' = Ids /\ Len(run') = Len(run)
  /\ \A i \in Ids : /\ run'[i].key = run[i].key /\ run'[i].scope = run[i].scope
                    /\ run'[i].line = run[i].line

\* What r goes on to is a task, or t and like r: if r is past its search, or else
\* has found nothing.
Stays(new, r, t) ==
  \A q \in new :
     \/ q.key = NoKey /\ q.kind = "start" /\ q.next \notin Making \cup {"key"}
     \/ /\ q = t
        /\ q.key = r.key /\ q.scope = r.scope /\ q.kind = r.kind /\ q.run = r.run
        /\ q.next = "key" => q.key # NoKey
        /\ q.next \in {"count", "find_again"} => q.kind = "create"
        /\ q.next \in Making => r.next \in Making
        /\ q.key # NoKey /\ q.next # "find" =>
              \/ /\ r.next # "find"
                 /\ q.kind = "create" \/ q.next = "insert" =>
                       r.kind = "create" \/ r.next = "insert"
              \/ Len(run) <= Window => Bearers(r.key, r.scope) = {}

\* What it goes on to later than that.
Continues(new, r, t) ==
  /\ r.next # "find"
  /\ \A q \in new :
       /\ q = t
       /\ q.key = r.key /\ q.scope = r.scope /\ q.kind = r.kind /\ q.run = r.run
       /\ q.next = "key" => q.key # NoKey
       /\ q.next \in {"count", "find_again"} => q.kind = "create"
       /\ q.next \in Making => r.next \in Making
       /\ q.next = "insert" => r.kind = "create"

LEMMA ContinuesStays ==
  ASSUME NEW r, NEW new, NEW t, Continues(new, r, t) PROVE Stays(new, r, t)
BY DEF Continues, Stays

\* Requests about one thing still come from different ones.
Descend(f, r, t) ==
  \A q \in pending' : q.key # NoKey =>
     \/ q = t /\ About(q) = About(r)
     \/ \E p \in pending \ {r} : q = f[p] /\ About(q) = About(p)

LEMMA NotedStay ==
  ASSUME CrowdsAreNoted, NEW r \in pending, UNCHANGED <<answered, crowded>>, NEW f, NEW t,
         Descend(f, r, t)
  PROVE  CrowdsAreNoted'
<1> SUFFICES ASSUME NEW p \in pending', NEW q \in pending', About(p) = About(q),
                    q.key # NoKey, About(q) \notin crowded, p # q
             PROVE  \E a \in answered : About(a) = About(q)
  BY DEF CrowdsAreNoted
<1>1. p.key # NoKey
  BY DEF About
<1>2. PICK x \in pending : About(x) = About(p) /\ (x = r => p = t) /\ (x # r => p = f[x])
  BY <1>1 DEF Descend
<1>3. PICK y \in pending : About(y) = About(q) /\ (y = r => q = t) /\ (y # r => q = f[y])
  BY DEF Descend
<1>4. x # y /\ y.key # NoKey
  BY <1>2, <1>3 DEF About
<1> QED
  BY <1>2, <1>3, <1>4 DEF CrowdsAreNoted

\* One request or task goes on, and neither keys nor answers change.
LEMMA KeysStay ==
  ASSUME TypeOK, KeyHolds, NEW r \in pending, NEW new, Becomes(r, new) \/ Opens(r, new),
         UNCHANGED <<answered, crowded>>, SameKeys, NEW t, Stays(new, r, t)
  PROVE  KeyHolds'
<1>1. PICK f : \A q \in pending' :
         q \in new \/ \E p \in pending \ {r} : q = f[p] /\ Same(q, p)
  BY OthersStay
<1>2. \A key, scope : Bearers(key, scope)' = Bearers(key, scope)
  BY DEF Bearers, SameKeys
<1>3. OneLine'
  BY <1>2 DEF KeyHolds, OneLine, Bearers, SameKeys
<1>4. AnswersAreFound'
  BY <1>2 DEF KeyHolds, AnswersAreFound
<1>5. \A p \in pending : Maker(p) /\ p.run \in 0 .. Len(run)
  BY Kinds DEF KeyHolds, MakersAreAlone, Maker
<1>6. \A p \in pending : p.run # NoId => p.run \in Ids
  BY <1>5 DEF Ids, NoId, TypeOK
<1>7. MakersAreAlone'
  <2>1. \A q \in pending' : Maker(q)'
    <3> SUFFICES ASSUME NEW q \in pending' PROVE Maker(q)'
      OBVIOUS
    <3>1. CASE \E p \in pending : Same(q, p)
      BY <1>2, <1>5, <1>6, <3>1 DEF Same, Maker, SameKeys
    <3>2. CASE q \in new
      BY <1>2, <1>5, <1>6, <3>2 DEF Maker, Making, Stays, SameKeys
    <3> QED
      BY <1>1, <3>1, <3>2
  <2>2. \A p, q \in pending : Creates(p) /\ Creates(q) /\ p.run = q.run => p = q
    BY DEF KeyHolds, MakersAreAlone, Creates
  <2>3. \A p, q \in pending' : Creates(p) /\ Creates(q) /\ p.run = q.run => p = q
    <3> SUFFICES ASSUME NEW p \in pending', NEW q \in pending',
                        Creates(p), Creates(q), p.run = q.run
                 PROVE  p = q
      OBVIOUS
    <3>1. \A x \in new : Creates(x) => x = t /\ Creates(r) /\ x.run = r.run
      BY DEF Creates, Stays
    <3>2. \A x \in pending' : Creates(x) =>
             \/ x = t /\ Creates(r) /\ x.run = r.run
             \/ \E y \in pending \ {r} : x = f[y] /\ Creates(y) /\ y.run = x.run
      BY <1>1, <3>1 DEF Same, Creates
    <3> QED
      BY <2>2, <3>2
  <2> QED
    BY <2>1, <2>3 DEF MakersAreAlone, Maker, Creates
<1>8. \A q \in pending' : q.key # NoKey =>
         \/ q = t /\ q \in new /\ About(q) = About(r)
         \/ \E p \in pending \ {r} : q = f[p] /\ Same(q, p) /\ About(q) = About(p)
  BY <1>1 DEF Same, About, Stays
<1>9. \A p, q \in pending :
         About(p) = About(q) /\ q.key # NoKey /\ About(q) \notin crowded /\ p # q =>
            \E a \in answered : About(a) = About(q)
  BY DEF KeyHolds, CrowdsAreNoted
<1>10. CrowdsAreNoted'
  <2>1. Descend(f, r, t)
    BY <1>8 DEF Descend
  <2> QED
    BY <2>1, NotedStay DEF KeyHolds
<1>11. SearchHolds'
  <2> SUFFICES ASSUME Len(run) <= Window, NEW q \in pending', Past(q)
               PROVE  /\ \A x \in pending' : About(x) = About(q) => x = q
                      /\ \A a \in answered : About(a) # About(q)
                      /\ q.kind = "create" \/ q.next = "insert" => Bearers(q.key, q.scope) = {}
    BY <1>2 DEF SearchHolds, Past, SameKeys
  <2>1. \A p \in pending : Past(p) =>
           /\ \A x \in pending : About(x) = About(p) => x = p
           /\ \A a \in answered : About(a) # About(p)
           /\ p.kind = "create" \/ p.next = "insert" => Bearers(p.key, p.scope) = {}
    BY DEF KeyHolds, SearchHolds, Past
  <2>2. \A x \in pending' : About(x) = About(q) => x.key # NoKey
    BY DEF About, Past
  <2>3. CASE \E p \in pending \ {r} : q = f[p] /\ Same(q, p) /\ About(q) = About(p)
    <3>1. PICK p \in pending \ {r} : q = f[p] /\ Same(q, p) /\ About(q) = About(p)
      BY <2>3
    <3>2. Past(p)
      BY <3>1 DEF Past, Same
    <3>3. \A x \in pending' : About(x) = About(q) => x = q
      BY <1>8, <2>1, <2>2, <3>1, <3>2
    <3> QED
      BY <2>1, <3>1, <3>2, <3>3 DEF Same
  <2>4. CASE q = t /\ q \in new /\ About(q) = About(r)
    <3>1. CASE Past(r) /\ (q.kind = "create" \/ q.next = "insert" =>
                              r.kind = "create" \/ r.next = "insert")
      <4>0. \A p \in pending : About(p) = About(q) => p = r
        BY <2>1, <2>4, <3>1
      <4>1. ASSUME NEW x \in pending', About(x) = About(q) PROVE x = q
        <5>1. ~\E p \in pending \ {r} : x = f[p] /\ Same(x, p) /\ About(x) = About(p)
          BY <4>0, <4>1
        <5>2. x = t
          BY <1>8, <2>2, <4>1, <5>1
        <5> QED
          BY <2>4, <5>2
      <4> QED
        BY <2>1, <2>4, <3>1, <4>1 DEF About
    <3>2. CASE Bearers(r.key, r.scope) = {}
      <4>1. r.key = q.key /\ r.scope = q.scope /\ About(r) \notin crowded /\ r.key # NoKey
        BY <2>4 DEF About, Past
      <4>2. \A a \in answered : About(a) # About(r)
        BY <3>2 DEF KeyHolds, AnswersAreFound, About
      <4>3. \A x \in pending : About(x) = About(r) => x = r
        BY <1>9, <4>1, <4>2
      <4>4. \A x \in pending' : About(x) = About(q) => x = q
        BY <1>8, <2>2, <2>4, <4>3
      <4> QED
        BY <2>4, <3>2, <4>1, <4>2, <4>4
    <3>3. q.key # NoKey /\ q.next # "find" /\ ~(q.kind = "start" /\ q.key = NoKey)
      BY DEF Past
    <3>4. \/ Past(r) /\ (q.kind = "create" \/ q.next = "insert" =>
                            r.kind = "create" \/ r.next = "insert")
          \/ Bearers(r.key, r.scope) = {}
      BY <2>4, <3>3 DEF Past, About, Stays
    <3> QED
      BY <3>1, <3>2, <3>4
  <2> QED
    BY <1>8, <2>3, <2>4 DEF Past
<1> QED
  BY <1>3, <1>4, <1>7, <1>10, <1>11 DEF KeyHolds

\* A run changes, but not what a search looks at.
LEMMA KeysAreKept ==
  ASSUME TypeOK,
         \/ UNCHANGED run
         \/ \E i \in Ids : \E row : /\ run' = [run EXCEPT ![i] = row]
                                /\ row.key = run[i].key /\ row.scope = run[i].scope
                                /\ row.line = run[i].line
  PROVE  SameKeys
<1>1. Len(run) \in Nat /\ run \in Seq(RunRow(Len(run)))
  BY DEF TypeOK
<1>2. ASSUME NEW i \in Ids, NEW row, run' = [run EXCEPT ![i] = row]
      PROVE  Len(run') = Len(run) /\ run'[i] = row /\ \A j \in Ids : j # i => run'[j] = run[j]
  BY <1>1, <1>2 DEF Ids
<1> QED
  BY <1>2 DEF Ids, SameKeys

LEMMA CountKeys ==
  ASSUME TypeOK, KeyHolds, NEW r \in pending, CountOpen(r) \/ Refresh(r) \/ Die(r) PROVE KeyHolds'
<1>1. r \in CallRow(Len(run)) /\ (r.next = "count" => r.kind \in {"create", "fork"})
  BY DEF TypeOK, Making
<1>2. UNCHANGED <<run, answered, crowded>>
  BY DEF CountOpen, Refresh, Die
<1> SameKeys
  BY <1>2, KeysAreKept
<1>3. CASE Die(r)
  <2>1. Becomes(r, {})
    BY <1>3 DEF Die, Ends
  <2>2. Stays({}, r, r)
    BY DEF Stays
  <2> QED
    BY <1>2, <2>1, <2>2, KeysStay
<1>4. CASE Refresh(r)
  <2> DEFINE t == [r EXCEPT !.next = "lock", !.seen = run[r.run].status]
  <2>1. /\ t.key = r.key /\ t.scope = r.scope /\ t.kind = r.kind /\ t.run = r.run
        /\ t.next = "lock" /\ Becomes(r, {t}) /\ r.next = "refresh"
    BY <1>1, <1>4 DEF CallRow, Refresh
  <2> HIDE DEF t
  <2>2. Continues({t}, r, t)
    BY <2>1 DEF Continues, Making
  <2> QED
    BY <1>2, <2>1, <2>2, ContinuesStays, KeysStay
<1>5. CASE CountOpen(r)
  <2> DEFINE cleared == [r EXCEPT !.next = "insert", !.fresh = TRUE]
             again == [r EXCEPT !.next = "find_again"]
  <2>1. /\ cleared.key = r.key /\ cleared.scope = r.scope /\ cleared.kind = r.kind
        /\ cleared.run = r.run /\ cleared.next = "insert"
    BY <1>1 DEF CallRow
  <2>2. /\ again.key = r.key /\ again.scope = r.scope /\ again.kind = r.kind
        /\ again.run = r.run /\ again.next = "find_again"
    BY <1>1 DEF CallRow
  <2>3. Becomes(r, {cleared}) \/ Becomes(r, {again}) \/ Becomes(r, {})
    BY <1>5 DEF CountOpen, Goes, Ends
  <2>4. r.next = "count"
    BY <1>5 DEF CountOpen
  <2>5. r.kind = "create"
    BY <2>4 DEF KeyHolds, MakersAreAlone
  <2> HIDE DEF cleared, again
  <2>6. /\ Continues({cleared}, r, cleared) /\ Continues({again}, r, again)
        /\ Continues({}, r, r)
    BY <2>1, <2>2, <2>4, <2>5 DEF Continues, Making
  <2> QED
    BY <1>2, <2>3, <2>6, ContinuesStays, KeysStay
<1> QED
  BY <1>3, <1>4, <1>5

LEMMA BootstrapKeys ==
  ASSUME TypeOK, KeyHolds, NEW r \in pending,
         LockConcluded(r) \/ LockBroken(r) \/ Lock(r) \/ CheckItems(r) \/ Seed(r)
  PROVE  KeyHolds'
<1>1. r \in CallRow(Len(run)) /\ r.run \in Ids /\ run[r.run] \in RunRow(Len(run))
      /\ r.next \in Bootstrapping
  BY DEF TypeOK, LockConcluded, LockBroken, Lock, CheckItems, Seed, Bootstrapping, Ids
<1>2. UNCHANGED <<answered, crowded>>
  BY DEF LockConcluded, LockBroken, Lock, CheckItems, Seed
<1>3. PICK next \in Bootstrapping :
         \/ Leaves(r, next)
         \/ Opens(r, {[r EXCEPT !.next = next, !.seen = "-"]})
  BY DEF LockConcluded, LockBroken, Lock, CheckItems, Seed, Bootstrapping
<1> DEFINE t == [r EXCEPT !.next = next, !.seen = "-"]
<1>4. /\ t.key = r.key /\ t.scope = r.scope /\ t.kind = r.kind /\ t.run = r.run /\ t.next = next
  BY <1>1 DEF CallRow
<1>5. PICK new \in {{}, {t}} : Becomes(r, new) \/ Opens(r, new)
  BY <1>3 DEF Leaves
<1>6. SameKeys
  <2> DEFINE rows == {[run[r.run] EXCEPT !.status = "FAILED"],
                      [run[r.run] EXCEPT !.status = "RUNNING", !.opened = "stale"],
                      [run[r.run] EXCEPT !.status = "RUNNING"],
                      [run[r.run] EXCEPT !.graph = @ + 1]}
  <2>1. UNCHANGED run \/ \E row \in rows : run' = [run EXCEPT ![r.run] = row]
    BY DEF LockConcluded, LockBroken, Lock, CheckItems, Seed
  <2>2. \A row \in rows : /\ row.key = run[r.run].key /\ row.scope = run[r.run].scope
                          /\ row.line = run[r.run].line
    BY <1>1 DEF RunRow
  <2> HIDE DEF rows
  <2> QED
    BY <1>1, <2>1, <2>2, KeysAreKept
<1> HIDE DEF t
<1>7. /\ r.next # "find" /\ next # "key" /\ next \notin Making /\ next # "insert"
      /\ next \notin {"count", "find_again"}
  BY <1>1 DEF Bootstrapping, Making
<1>8. Continues(new, r, t)
  BY <1>4, <1>5, <1>7 DEF Continues
<1> QED
  BY <1>2, <1>5, <1>6, <1>8, ContinuesStays, KeysStay

LEMMA HandOverKeys ==
  ASSUME TypeOK, KeyHolds, NEW r \in pending, HandOver(r) PROVE KeyHolds'
<1> DEFINE t == [r EXCEPT !.next = "key"]
<1>1. r \in CallRow(Len(run)) /\ r.next = "hand_over"
  BY DEF TypeOK, HandOver
<1>2. /\ t.key = r.key /\ t.scope = r.scope /\ t.kind = r.kind /\ t.run = r.run /\ t.next = "key"
      /\ Task(r).key = NoKey /\ Task(r).kind = "start" /\ Task(r).next = "lock"
  BY <1>1 DEF CallRow, Task
<1>3. Becomes(r, {Task(r)} \cup IF r.key = NoKey THEN {} ELSE {t}) /\ UNCHANGED <<run, answered, crowded>>
  BY DEF HandOver, ToAnswer
<1> HIDE DEF t
<1> DEFINE new == {Task(r)} \cup IF r.key = NoKey THEN {} ELSE {t}
<1>4. Stays(new, r, t)
  BY <1>1, <1>2 DEF Making, Stays
<1>5. SameKeys
  BY <1>3, KeysAreKept
<1> QED
  BY <1>3, <1>4, <1>5, KeysStay

LEMMA ReopenKeys ==
  ASSUME TypeOK, KeyHolds, NEW r \in pending, Reopen(r) PROVE KeyHolds'
<1>1. r \in CallRow(Len(run)) /\ r.next = "reopen" /\ r.run \in Ids
      /\ run[r.run] \in RunRow(Len(run))
  BY DEF TypeOK, Reopen, Ids
<1> DEFINE t == [r EXCEPT !.next = IF r.starts THEN "refresh" ELSE "key"]
           row == [run[r.run] EXCEPT !.status = "QUEUED", !.asked = r.starts, !.opened = "resume",
                                     !.crossed = @ \/ \E q \in pending \ {r} : q.run = r.run]
<1>2. /\ t.key = r.key /\ t.scope = r.scope /\ t.kind = r.kind /\ t.run = r.run
      /\ t.next = IF r.starts THEN "refresh" ELSE "key"
  BY <1>1 DEF CallRow
<1>3. \A q \in ToBootstrap(r) : q = t /\ (~r.starts => r.key # NoKey)
  BY DEF ToBootstrap, ToAnswer
<1>4. run' = [run EXCEPT ![r.run] = row] /\ Opens(r, ToBootstrap(r)) /\ UNCHANGED <<answered, crowded>>
  BY DEF Reopen
<1>5. row.key = run[r.run].key /\ row.scope = run[r.run].scope /\ row.line = run[r.run].line
  BY <1>1 DEF RunRow
<1> HIDE DEF t, row
<1>6. SameKeys
  BY <1>1, <1>4, <1>5, KeysAreKept
<1>7. Continues(ToBootstrap(r), r, t)
  BY <1>1, <1>2, <1>3 DEF Making, Continues
<1> QED
  BY <1>4, <1>6, <1>7, ContinuesStays, KeysStay

\* An answer: the request is over.
LEMMA Answered ==
  ASSUME TypeOK, KeyHolds, NEW r \in pending, r.key \in Keys, Becomes(r, {}),
         UNCHANGED <<crowded, Len(run)>>, NEW i \in Ids, Answers(r, i),
         Ids' = Ids,
         \A key, scope : key \in Keys => Bearers(key, scope) \subseteq Bearers(key, scope)',
         \A key, scope : key \in Keys /\ <<key, scope>> # About(r) /\ (key \in ForkKeys \/ scope = NoId) =>
            Bearers(key, scope)' = Bearers(key, scope),
         \A j \in Ids : run'[j].line = run[j].line /\ (j = r.run \/ run'[j].key = run[j].key),
         \A p \in pending \ {r} : Creates(p) => p.run # r.run \/ UNCHANGED run,
         i \in Bearers(r.key, r.scope)', r.key \in ForkKeys \/ r.scope = NoId,
         Len(run) <= Window /\ About(r) \notin crowded =>
            /\ \A j \in Bearers(r.key, r.scope)' : run[j].line = run[i].line
            /\ \A q \in pending \ {r} : About(q) = About(r) => ~Past(q)
  PROVE  KeyHolds'
<1>1. pending' = pending \ {r} /\ answered' = answered \cup {[key |-> r.key, scope |-> r.scope, run |-> i]}
  BY DEF Becomes, Answers
<1>2. About([key |-> r.key, scope |-> r.scope, run |-> i]) = About(r)
  BY DEF About
<1>3. \A key, scope : Bearers(key, scope) \subseteq Ids /\ Bearers(key, scope)' \subseteq Ids
  BY DEF Bearers
<1>4. OneLine'
  <2> SUFFICES ASSUME Len(run) <= Window, NEW key \in Keys, NEW scope \in 0 .. Len(run),
                      key \in ForkKeys \/ scope = NoId, <<key, scope>> \notin crowded,
                      NEW a \in Bearers(key, scope)', NEW b \in Bearers(key, scope)'
               PROVE  run'[a].line = run'[b].line
    BY DEF OneLine
  <2>1. CASE <<key, scope>> = About(r)
    <3>1. key = r.key /\ scope = r.scope
      BY <2>1 DEF About
    <3> QED
      BY <1>3, <2>1, <3>1
  <2>2. CASE <<key, scope>> # About(r)
    <3>1. a \in Bearers(key, scope) /\ b \in Bearers(key, scope)
      BY <2>2
    <3>2. run[a].line = run[b].line
      BY <3>1 DEF KeyHolds, OneLine
    <3> QED
      BY <1>3, <3>1, <3>2
  <2> QED
    BY <2>1, <2>2
<1>5. AnswersAreFound'
  <2>1. \A a \in answered : a.key \in Keys
    BY DEF TypeOK
  <2> QED
    BY <1>1, <2>1 DEF KeyHolds, AnswersAreFound
<1>6. CrowdsAreNoted'
  BY <1>1 DEF KeyHolds, CrowdsAreNoted
<1>7. SearchHolds'
  <2> SUFFICES ASSUME Len(run) <= Window, NEW q \in pending \ {r}, Past(q)
               PROVE  /\ \A x \in pending' : About(x) = About(q) => x = q
                      /\ \A a \in answered' : About(a) # About(q)
                      /\ q.kind = "create" \/ q.next = "insert" => Bearers(q.key, q.scope)' = {}
    BY <1>1 DEF SearchHolds, Past
  <2>1. About(q) # About(r)
    BY DEF Past
  <2>2. /\ \A x \in pending : About(x) = About(q) => x = q
        /\ \A a \in answered : About(a) # About(q)
        /\ q.kind = "create" \/ q.next = "insert" => Bearers(q.key, q.scope) = {}
    BY DEF KeyHolds, SearchHolds, Past
  <2>3. q.key \in Keys /\ (q.key \in ForkKeys \/ q.scope = NoId)
    BY Kinds DEF Past, KeyHolds, MakersAreAlone
  <2>4. Bearers(q.key, q.scope)' = Bearers(q.key, q.scope)
    BY <2>1, <2>3 DEF About
  <2> QED
    BY <1>1, <1>2, <2>1, <2>2, <2>4
<1>8. MakersAreAlone'
  <2>1. \A p \in pending : Maker(p)
    BY DEF KeyHolds, MakersAreAlone, Maker
  <2>2. \A p \in pending : p.run # NoId => p.run \in Ids
    BY Kinds DEF Ids, NoId, TypeOK
  <2>3. \A p \in pending' : Maker(p)'
    BY <1>1, <2>1, <2>2, Kinds DEF Maker, Creates
  <2> QED
    BY <1>1, <2>3 DEF KeyHolds, MakersAreAlone, Maker
<1> QED
  BY <1>4, <1>5, <1>6, <1>7, <1>8 DEF KeyHolds

LEMMA FindKeys ==
  ASSUME TypeOK, KeyHolds, NEW r \in pending, Find(r) \/ FindAgain(r) PROVE KeyHolds'
<1>1. /\ r \in CallRow(Len(run)) /\ r.key \in Keys /\ r.key # NoKey
      /\ r.kind \in {"create", "fork"} /\ r.next \in Making
  BY Kinds DEF TypeOK, Making, Find, FindAgain
<1>2. /\ r.kind = "create" => r.key \in CreateKeys /\ r.scope = NoId
      /\ r.kind = "fork" => r.key \in ForkKeys
  BY <1>1 DEF KeyHolds, MakersAreAlone
<1>3. /\ Named(r) \subseteq Bearers(r.key, r.scope)
      /\ Len(run) <= Window => Named(r) = Bearers(r.key, r.scope)
  BY <1>1, SearchFinds DEF KeyHolds
<1>4. UNCHANGED <<run, crowded>>
  BY DEF Find, FindAgain
<1>5. Past(r) /\ Len(run) <= Window => \A q \in pending : About(q) = About(r) => q = r
  BY DEF KeyHolds, SearchHolds, Past
<1>6. CASE Named(r) # {}
  <2> DEFINE i == Latest(Named(r))
  <2>1. i \in Bearers(r.key, r.scope) /\ i \in Ids
    BY <1>3, <1>6, LatestIsNamed DEF Bearers
  <2>2. Becomes(r, {}) /\ Answers(r, i)
    BY <1>6 DEF Find, FindAgain, Ends
  <2>3. ASSUME Len(run) <= Window, About(r) \notin crowded
        PROVE  /\ \A j \in Bearers(r.key, r.scope) : run[j].line = run[i].line
               /\ \A q \in pending \ {r} : About(q) = About(r) => ~Past(q)
    <3>1. r.scope \in 0 .. Len(run)
      BY Kinds
    <3>2. \A j \in Bearers(r.key, r.scope) : run[j].line = run[i].line
      BY <1>1, <1>2, <2>1, <2>3, <3>1 DEF KeyHolds, OneLine, About
    <3>3. ASSUME NEW q \in pending \ {r}, About(q) = About(r), Past(q)
          PROVE  FALSE
      BY <2>3, <3>3 DEF KeyHolds, SearchHolds, Past
    <3> QED
      BY <3>2, <3>3
  <2>4. \A key, scope : Bearers(key, scope)' = Bearers(key, scope)
    BY <1>4 DEF Bearers, Ids
  <2>5. UNCHANGED <<crowded, Len(run)>> /\ Ids' = Ids
    BY <1>4 DEF Ids
  <2>6. i \in Bearers(r.key, r.scope)' /\ (r.key \in ForkKeys \/ r.scope = NoId)
    BY <1>1, <1>2, <2>1, <2>4
  <2>7. \A j \in Ids : run'[j].line = run[j].line /\ (j = r.run \/ run'[j].key = run[j].key)
    BY <1>4
  <2>8. Len(run) <= Window /\ About(r) \notin crowded =>
           /\ \A j \in Bearers(r.key, r.scope)' : run[j].line = run[i].line
           /\ \A q \in pending \ {r} : About(q) = About(r) => ~Past(q)
    BY <2>3, <2>4
  <2> HIDE DEF i
  <2> QED
    BY <1>1, <1>4, <2>1, <2>2, <2>4, <2>5, <2>6, <2>7, <2>8, Answered
<1>7. CASE Named(r) = {} /\ FindAgain(r)
  <2>1. Becomes(r, {}) /\ UNCHANGED answered
    BY <1>7 DEF FindAgain, Ends
  <2>2. Stays({}, r, r) /\ SameKeys
    BY <1>4, KeysAreKept DEF Stays
  <2> QED
    BY <1>4, <2>1, <2>2, KeysStay
<1>8. CASE Named(r) = {} /\ Find(r)
  <2> DEFINE t == [r EXCEPT !.next = IF r.kind = "fork" THEN "insert" ELSE "count"]
  <2>1. /\ t.key = r.key /\ t.scope = r.scope /\ t.kind = r.kind /\ t.run = r.run
        /\ t.next \in {"insert", "count"} /\ (t.next = "count" => t.kind = "create")
    BY <1>1 DEF CallRow
  <2>2. Becomes(r, {t}) /\ UNCHANGED answered
    BY <1>8 DEF Find, Goes
  <2>3. Len(run) <= Window => Bearers(r.key, r.scope) = {}
    BY <1>3, <1>8
  <2> HIDE DEF t
  <2>4. Stays({t}, r, t) /\ SameKeys
    BY <1>1, <1>4, <2>1, <2>3, KeysAreKept DEF Stays
  <2> QED
    BY <1>4, <2>2, <2>4, KeysStay
<1> QED
  BY <1>6, <1>7, <1>8

LEMMA WriteKeyKeys ==
  ASSUME TypeOK, KeyHolds, NEW r \in pending, WriteKey(r) PROVE KeyHolds'
<1>1. /\ r \in CallRow(Len(run)) /\ r.run \in Ids /\ r.run # NoId /\ r.key \in Keys /\ r.key # NoKey
      /\ run[r.run] \in RunRow(Len(run)) /\ r.next = "key" /\ Len(run) \in Nat
  BY Kinds DEF TypeOK, WriteKey, Ids, NoId
<1>2. r.kind = "create" \/ r.kind = "fork"
  BY <1>1, Kinds DEF KeyHolds, MakersAreAlone
<1>3. Becomes(r, {}) /\ Answers(r, r.run) /\ UNCHANGED crowded
  BY DEF WriteKey, Ends
<1>4. ASSUME Len(run) <= Window, About(r) \notin crowded
      PROVE  /\ \A q \in pending \ {r} : About(q) = About(r) => ~Past(q)
             /\ r.kind = "create" => Bearers(r.key, r.scope) = {}
  <2>1. Past(r)
    BY <1>1, <1>4 DEF Past
  <2> QED
    BY <1>4, <2>1 DEF KeyHolds, SearchHolds, Past
<1>5. CASE r.kind = "fork"
  <2>1. UNCHANGED run
    BY <1>5 DEF WriteKey, KeyWritten
  <2>2. \A key, scope : Bearers(key, scope)' = Bearers(key, scope)
    BY <2>1 DEF Bearers, Ids
  <2>3. r.run \in Bearers(r.key, r.scope) /\ r.key \in ForkKeys
    BY <1>1, <1>5 DEF KeyHolds, MakersAreAlone
  <2>4. Len(run) <= Window /\ About(r) \notin crowded =>
           \A j \in Bearers(r.key, r.scope) : run[j].line = run[r.run].line
    BY <1>1, <2>3, Kinds DEF KeyHolds, OneLine, About
  <2>5. Ids' = Ids /\ UNCHANGED <<crowded, Len(run)>>
    BY <1>3, <2>1 DEF Ids
  <2>6. \A j \in Ids : run'[j].line = run[j].line /\ (j = r.run \/ run'[j].key = run[j].key)
    BY <2>1
  <2>7. Len(run) <= Window /\ About(r) \notin crowded =>
           /\ \A j \in Bearers(r.key, r.scope)' : run[j].line = run[r.run].line
           /\ \A q \in pending \ {r} : About(q) = About(r) => ~Past(q)
    BY <1>4, <2>2, <2>4
  <2> QED
    BY <1>1, <1>3, <2>1, <2>2, <2>3, <2>5, <2>6, <2>7, Answered
<1>6. CASE r.kind = "create"
  <2> DEFINE row == [run[r.run] EXCEPT !.key = r.key]
  <2>1. row.key = r.key /\ row.scope = run[r.run].scope /\ row.line = run[r.run].line
        /\ row \in RunRow(Len(run))
    BY <1>1 DEF RunRow
  <2>2. run' = [run EXCEPT ![r.run] = row]
    BY <1>6 DEF WriteKey, KeyWritten
  <2> HIDE DEF row
  <2>3. /\ Ids' = Ids /\ Len(run') = Len(run) /\ run'[r.run] = row
        /\ \A j \in Ids : j # r.run => run'[j] = run[j]
    BY <1>1, <2>1, <2>2, RowChanges
  <2>4. run[r.run].key = NoKey /\ r.key \in CreateKeys /\ r.scope = NoId
    BY <1>1, <1>6 DEF KeyHolds, MakersAreAlone
  <2>5. r.key \notin ForkKeys
    BY <2>4 DEF ConstantsAssumption
  <2>6. \A key, scope : key \in Keys =>
           Bearers(key, scope)' = IF key = r.key THEN Bearers(key, scope) \cup {r.run}
                                  ELSE Bearers(key, scope)
    <3> SUFFICES ASSUME NEW key \in Keys, NEW scope
                 PROVE  Bearers(key, scope)' = IF key = r.key THEN Bearers(key, scope) \cup {r.run}
                                               ELSE Bearers(key, scope)
      OBVIOUS
    <3>1. ASSUME NEW j \in Ids
          PROVE  j \in Bearers(key, scope)' <=> j \in Bearers(key, scope) \/ (key = r.key /\ j = r.run)
      <4>1. CASE j # r.run
        BY <2>3, <4>1 DEF Bearers
      <4>2. CASE j = r.run
        <5>1. j \notin Bearers(key, scope)
          BY <2>4, <4>2, Kinds DEF Bearers
        <5>2. j \in Bearers(key, scope)' <=> key = r.key
          BY <2>1, <2>3, <2>5, <4>2 DEF Bearers
        <5> QED
          BY <4>2, <5>1, <5>2
      <4> QED
        BY <4>1, <4>2
    <3>2. Bearers(key, scope) \subseteq Ids /\ Bearers(key, scope)' \subseteq Ids
      BY <2>3 DEF Bearers
    <3> QED
      BY <1>1, <3>1, <3>2
  <2>7. Bearers(r.key, r.scope)' = Bearers(r.key, r.scope) \cup {r.run}
    BY <1>1, <2>6
  <2>8. \A j \in Ids : run'[j].line = run[j].line /\ (j = r.run \/ run'[j].key = run[j].key)
    BY <2>1, <2>3
  <2>9. \A p \in pending \ {r} : Creates(p) => p.run # r.run
    BY <1>1, <1>6 DEF KeyHolds, MakersAreAlone, Creates
  <2>10. Len(run) <= Window /\ About(r) \notin crowded =>
            /\ \A j \in Bearers(r.key, r.scope)' : run[j].line = run[r.run].line
            /\ \A q \in pending \ {r} : About(q) = About(r) => ~Past(q)
    BY <1>4, <1>6, <2>7
  <2>11. \A key, scope : key \in Keys /\ <<key, scope>> # About(r) /\ (key \in ForkKeys \/ scope = NoId) =>
            Bearers(key, scope)' = Bearers(key, scope)
    BY <2>4, <2>5, <2>6 DEF About
  <2>12. UNCHANGED <<crowded, Len(run)>> /\ r.run \in Bearers(r.key, r.scope)'
    BY <1>3, <2>3, <2>7
  <2>13. \A key, scope : key \in Keys => Bearers(key, scope) \subseteq Bearers(key, scope)'
    BY <2>6
  <2>14. \A p \in pending \ {r} : Creates(p) => p.run # r.run \/ UNCHANGED run
    BY <2>9
  <2>15. r.key \in Keys /\ r.run \in Ids /\ Ids' = Ids /\ (r.key \in ForkKeys \/ r.scope = NoId)
    BY <1>1, <2>3, <2>4
  <2> QED
    BY <1>3, <2>8, <2>10, <2>11, <2>12, <2>13, <2>14, <2>15, Answered
<1> QED
  BY <1>2, <1>5, <1>6

\* What the row of a run that r makes has of a key.
HasKey(row, r) ==
  \/ r.kind = "create" /\ row.key = NoKey
  \/ r.kind = "fork" /\ r.key # NoKey /\ row.key = r.key /\ row.scope = r.scope
  \/ /\ r.kind = "fork" /\ r.key = NoKey /\ r.scope \in Ids
     /\ row.key = run[r.scope].key /\ row.scope = run[r.scope].scope
     /\ row.line = run[r.scope].line

\* What r goes on to with it.
WithRun(new, r, t) ==
  \A q \in new :
     /\ q = t
     /\ q.key = r.key /\ q.scope = r.scope /\ q.kind = r.kind /\ q.run = Len(run) + 1
     /\ q.next \in {"refresh", "key"} /\ (q.next = "key" => q.key # NoKey)

\* The bearers of a key gain at most that run.
LEMMA BearersGrow ==
  ASSUME TypeOK, NEW r \in pending, NEW row, run' = Append(run, row), HasKey(row, r)
  PROVE  /\ Ids' = Ids \cup {Len(run) + 1} /\ Len(run') = Len(run) + 1 /\ Len(run) \in Nat
         /\ run'[Len(run) + 1] = row /\ Len(run) + 1 \notin Ids
         /\ \A i \in Ids : run'[i] = run[i]
         /\ \A key \in Keys : \A scope : \A i \in Ids :
               i \in Bearers(key, scope)' <=> i \in Bearers(key, scope)
         /\ \A key \in Keys : \A scope :
               Len(run) + 1 \in Bearers(key, scope)' =>
                  \/ r.kind = "fork" /\ r.key = key /\ (key \in ForkKeys => r.scope = scope)
                  \/ r.scope \in Bearers(key, scope) /\ row.line = run[r.scope].line
<1>1. /\ Len(run) \in Nat /\ Ids' = Ids \cup {Len(run) + 1} /\ run'[Len(run) + 1] = row
      /\ \A i \in Ids : run'[i] = run[i] /\ i # Len(run) + 1
      /\ Len(run') = Len(run) + 1
  BY DEF TypeOK, Ids
<1>2. \A key \in Keys : \A scope : \A i \in Ids :
         i \in Bearers(key, scope)' <=> i \in Bearers(key, scope)
  BY <1>1 DEF Bearers
<1>3. ASSUME NEW key \in Keys, NEW scope, Len(run) + 1 \in Bearers(key, scope)'
      PROVE  \/ r.kind = "fork" /\ r.key = key /\ (key \in ForkKeys => r.scope = scope)
             \/ r.scope \in Bearers(key, scope) /\ row.line = run[r.scope].line
  <2>1. row.key = key /\ (key \in ForkKeys => row.scope = scope) /\ key # NoKey
    BY <1>1, <1>3, Kinds DEF Bearers
  <2> QED
    BY <2>1 DEF HasKey, Bearers
<1> QED
  BY <1>1, <1>2, <1>3

LEMMA InsertKeys ==
  ASSUME TypeOK, KeyHolds, NEW r \in pending, r.next = "insert",
         NEW new, Becomes(r, new) \/ Opens(r, new),
         UNCHANGED <<answered, crowded>>, NEW row, run' = Append(run, row), HasKey(row, r),
         NEW t, WithRun(new, r, t)
  PROVE  KeyHolds'
<1> DEFINE n == Len(run) + 1
<1>1. PICK f : \A q \in pending' :
         q \in new \/ \E p \in pending \ {r} : q = f[p] /\ Same(q, p)
  BY OthersStay
<1>2. /\ Ids' = Ids \cup {n} /\ Len(run') = n /\ Len(run) \in Nat
      /\ run'[n] = row /\ n \notin Ids
      /\ \A i \in Ids : run'[i] = run[i]
      /\ \A key \in Keys : \A scope : \A i \in Ids :
            i \in Bearers(key, scope)' <=> i \in Bearers(key, scope)
      /\ \A key \in Keys : \A scope :
            n \in Bearers(key, scope)' =>
               \/ r.kind = "fork" /\ r.key = key /\ (key \in ForkKeys => r.scope = scope)
               \/ r.scope \in Bearers(key, scope) /\ row.line = run[r.scope].line
  BY BearersGrow
<1>3. \A key, scope : Bearers(key, scope) \subseteq Ids /\ Bearers(key, scope)' \subseteq Ids'
  BY DEF Bearers
<1> DEFINE Grows(key, scope) ==
             /\ Bearers(key, scope) \subseteq Bearers(key, scope)'
             /\ Bearers(key, scope)' \subseteq Bearers(key, scope) \cup {n}
<1>13. \A key \in Keys : \A scope : Grows(key, scope)
  BY <1>2, <1>3
<1>4. Len(run') <= Window => Len(run) <= Window
  BY <1>2 DEF ConstantsAssumption
<1>5. r.kind = "fork" /\ r.key # NoKey => r.key \in ForkKeys
  BY DEF KeyHolds, MakersAreAlone
<1>6. Len(run) <= Window /\ r.key # NoKey /\ About(r) \notin crowded =>
         /\ Bearers(r.key, r.scope) = {}
         /\ \A q \in pending : About(q) = About(r) => q = r
         /\ \A a \in answered : About(a) # About(r)
  BY DEF KeyHolds, SearchHolds
<1> HIDE DEF n
<1>7. OneLine'
  <2> SUFFICES ASSUME Len(run') <= Window, NEW key \in Keys, NEW scope \in 0 .. Len(run'),
                      key \in ForkKeys \/ scope = NoId, <<key, scope>> \notin crowded',
                      NEW i \in Bearers(key, scope)', NEW j \in Bearers(key, scope)'
               PROVE  run'[i].line = run'[j].line
    BY DEF OneLine
  <2>0. Len(run) <= Window /\ scope \in 0 .. n /\ <<key, scope>> \notin crowded
    BY <1>2, <1>4
  <2>1. \A a, b \in Bearers(key, scope) : run[a].line = run[b].line
    <3>1. CASE scope \in 0 .. Len(run)
      BY <2>0, <3>1 DEF KeyHolds, OneLine
    <3>2. CASE scope \notin 0 .. Len(run)
      <4>1. key \in ForkKeys
        BY <1>2, <2>0, <3>2 DEF NoId
      <4>2. \A a \in Ids : run[a].scope \in 0 .. Len(run)
        <5>1. \A a \in Ids : run[a] \in RunRow(Len(run))
          BY DEF TypeOK, Ids
        <5> QED
          BY <5>1 DEF RunRow
      <4> QED
        BY <3>2, <4>1, <4>2 DEF Bearers
    <3> QED
      BY <3>1, <3>2
  <2>2. n \in Bearers(key, scope)' => \A a \in Bearers(key, scope) : row.line = run[a].line
    <3> SUFFICES ASSUME n \in Bearers(key, scope)', NEW a \in Bearers(key, scope)
                 PROVE  row.line = run[a].line
      OBVIOUS
    <3>1. CASE r.scope \in Bearers(key, scope) /\ row.line = run[r.scope].line
      BY <2>1, <3>1
    <3>2. CASE r.kind = "fork" /\ r.key = key /\ (key \in ForkKeys => r.scope = scope)
      BY <1>5, <1>6, <2>0, <3>2, Kinds DEF About
    <3> QED
      BY <1>2, <3>1, <3>2
  <2>3. \A a \in Bearers(key, scope)' : a = n \/ a \in Bearers(key, scope)
    BY <1>13
  <2>4. \A a \in Bearers(key, scope) : run'[a] = run[a]
    BY <1>2, <1>3
  <2>5. ASSUME NEW a \in Bearers(key, scope)', NEW b \in Bearers(key, scope), a = n
        PROVE  run'[a].line = run'[b].line
    BY <1>2, <2>2, <2>4, <2>5
  <2>6. ASSUME NEW a \in Bearers(key, scope), NEW b \in Bearers(key, scope)
        PROVE  run'[a].line = run'[b].line
    BY <2>1, <2>4
  <2> HIDE DEF Grows
  <2>7. CASE i = n
    <3>1. CASE j = n
      BY <2>7, <3>1
    <3>2. CASE j # n
      <4>1. j \in Bearers(key, scope)
        BY <2>3, <3>2
      <4> QED
        BY <2>5, <2>7, <4>1
    <3> QED
      BY <3>1, <3>2
  <2>8. CASE i # n
    <3>1. i \in Bearers(key, scope)
      BY <2>3, <2>8
    <3>2. CASE j = n
      BY <2>5, <3>1, <3>2
    <3>3. CASE j # n
      <4>1. j \in Bearers(key, scope)
        BY <2>3, <3>3
      <4> QED
        BY <2>6, <3>1, <4>1
    <3> QED
      BY <3>2, <3>3
  <2> QED
    BY <2>7, <2>8
<1>8. AnswersAreFound'
  <2>1. \A a \in answered : a.key \in Keys
    BY DEF TypeOK
  <2> QED
    BY <1>2, <1>3, <2>1 DEF KeyHolds, AnswersAreFound
<1>9. \A q \in pending' : q.key # NoKey =>
         \/ q = t /\ q \in new /\ About(q) = About(r)
         \/ \E p \in pending \ {r} : q = f[p] /\ Same(q, p) /\ About(q) = About(p)
  BY <1>1 DEF Same, About, WithRun
<1>10. CrowdsAreNoted'
  <2>1. Descend(f, r, t)
    BY <1>9 DEF Descend
  <2>2. CrowdsAreNoted /\ UNCHANGED <<answered, crowded>>
    BY DEF KeyHolds
  <2> QED
    BY <2>1, <2>2, NotedStay
<1>11. SearchHolds'
  <2> SUFFICES ASSUME Len(run) <= Window, NEW q \in pending', Past(q)
               PROVE  /\ \A x \in pending' : About(x) = About(q) => x = q
                      /\ \A a \in answered : About(a) # About(q)
                      /\ q.kind = "create" \/ q.next = "insert" => Bearers(q.key, q.scope)' = {}
    BY <1>4 DEF SearchHolds, Past
  <2>1. \A p \in pending : Past(p) =>
           /\ \A x \in pending : About(x) = About(p) => x = p
           /\ \A a \in answered : About(a) # About(p)
           /\ p.kind = "create" \/ p.next = "insert" => Bearers(p.key, p.scope) = {}
    BY DEF KeyHolds, SearchHolds, Past
  <2>2. \A x \in pending' : About(x) = About(q) => x.key # NoKey
    BY DEF About, Past
  <2>3. CASE \E p \in pending \ {r} : q = f[p] /\ Same(q, p) /\ About(q) = About(p)
    <3>1. PICK p \in pending \ {r} : q = f[p] /\ Same(q, p) /\ About(q) = About(p)
      BY <2>3
    <3>2. Past(p) /\ About(r) # About(p)
      BY <2>1, <3>1 DEF Past, Same
    <3>3. \A x \in pending' : About(x) = About(q) => x = q
      BY <1>9, <2>1, <2>2, <3>1, <3>2
    <3>4. q.key \in Keys /\ (q.key \in ForkKeys \/ q.kind = "create")
      BY <3>1, <3>2, Kinds DEF Past, Same, KeyHolds, MakersAreAlone
    <3>5. n \in Bearers(q.key, q.scope)' => r.scope \in Bearers(q.key, q.scope)
      <4>1. ~(r.kind = "fork" /\ r.key = q.key /\ (q.key \in ForkKeys => r.scope = q.scope))
        BY <1>5, <3>1, <3>2, <3>4 DEF About, Past
      <4> QED
        BY <1>2, <3>4, <4>1
    <3>6. q.kind = "create" \/ q.next = "insert" => Bearers(q.key, q.scope)' = {}
      <4>1. q.kind = "create" \/ q.next = "insert" => Bearers(q.key, q.scope) = {}
        BY <2>1, <3>1, <3>2 DEF Same
      <4> QED
        BY <1>13, <3>4, <3>5, <4>1
    <3> QED
      BY <2>1, <3>1, <3>2, <3>3, <3>6
  <2>4. CASE q = t /\ q \in new /\ About(q) = About(r)
    <3>1. Past(r) /\ q.kind = r.kind /\ q.key = r.key /\ q.scope = r.scope /\ q.next # "insert"
      BY <2>4 DEF Past, WithRun
    <3>2. \A x \in pending' : About(x) = About(q) => x = q
      <4> SUFFICES ASSUME NEW x \in pending', About(x) = About(q) PROVE x = t
        BY <2>4
      <4>1. ~\E p \in pending \ {r} : x = f[p] /\ Same(x, p) /\ About(x) = About(p)
        BY <2>1, <2>4, <3>1
      <4> QED
        BY <1>9, <2>2, <4>1
    <3>3. q.kind = "create" => Bearers(q.key, q.scope)' = {}
      <4> SUFFICES ASSUME q.kind = "create" PROVE Bearers(q.key, q.scope)' = {}
        OBVIOUS
      <4>1. Bearers(q.key, q.scope) = {} /\ q.key \in Keys
        BY <2>1, <3>1, Kinds DEF Past
      <4>2. n \notin Bearers(q.key, q.scope)'
        BY <1>2, <3>1, <4>1
      <4> QED
        BY <1>2, <1>3, <4>1, <4>2
    <3> QED
      BY <2>1, <2>4, <3>1, <3>2, <3>3
  <2> QED
    BY <1>9, <2>3, <2>4 DEF Past
<1>12. MakersAreAlone'
  <2>1. \A p \in pending : Maker(p) /\ p.run \in 0 .. Len(run)
    BY Kinds DEF KeyHolds, MakersAreAlone, Maker
  <2>2. \A p \in pending : p.run # NoId => p.run \in Ids
    BY <2>1 DEF Ids, NoId, TypeOK
  <2>3. r.kind \in {"create", "fork"} /\ n # NoId
    BY <1>2 DEF TypeOK, Making, NoId, n
  <2>4. \A q \in pending' : Maker(q)'
    <3> SUFFICES ASSUME NEW q \in pending' PROVE Maker(q)'
      OBVIOUS
    <3>1. CASE \E p \in pending : Same(q, p)
      <4>1. PICK p \in pending : Same(q, p)
        BY <3>1
      <4>2. Maker(p) /\ (p.run # NoId => p.run \in Ids) /\ p.key \in Keys \cup {NoKey}
        BY <2>1, <2>2, Kinds
      <4>3. /\ q.key = p.key /\ q.scope = p.scope /\ q.kind = p.kind
            /\ q.next = p.next /\ q.run = p.run
        BY <4>1 DEF Same
      <4>4. q.run # NoId => run'[q.run] = run[p.run]
        BY <1>2, <4>2, <4>3
      <4>5. q.key # NoKey /\ q.run # NoId /\ q.run \in Bearers(p.key, p.scope) =>
               q.run \in Bearers(q.key, q.scope)'
        BY <1>2, <4>2, <4>3
      <4> QED
        BY <4>2, <4>3, <4>4, <4>5 DEF Maker
    <3>2. CASE q \in new
      <4>1. /\ q.key = r.key /\ q.scope = r.scope /\ q.kind = r.kind /\ q.run = n
            /\ q.next \in {"refresh", "key"} /\ (q.next = "key" => q.key # NoKey)
            /\ q.next \notin Making
        BY <3>2 DEF WithRun, n, Making
      <4>2. Maker(r)
        BY <2>1
      <4>3. q.kind = "create" => run'[q.run].key = NoKey
        BY <1>2, <4>1 DEF HasKey
      <4>4. q.kind = "fork" /\ q.key # NoKey => q.run \in Bearers(q.key, q.scope)'
        BY <1>2, <4>1 DEF HasKey, Bearers
      <4> QED
        BY <2>3, <4>1, <4>2, <4>3, <4>4 DEF Maker
    <3> QED
      BY <1>1, <3>1, <3>2
  <2>5. \A p, q \in pending : Creates(p) /\ Creates(q) /\ p.run = q.run => p = q
    BY DEF KeyHolds, MakersAreAlone, Creates
  <2>6. \A p, q \in pending' : Creates(p) /\ Creates(q) /\ p.run = q.run => p = q
    <3> SUFFICES ASSUME NEW p \in pending', NEW q \in pending',
                        Creates(p), Creates(q), p.run = q.run
                 PROVE  p = q
      OBVIOUS
    <3>1. \A x \in pending' : Creates(x) =>
             \/ x = t /\ x.run = n
             \/ \E y \in pending \ {r} : x = f[y] /\ Creates(y) /\ y.run = x.run /\ x.run # n
      BY <1>1, <1>2, <2>2 DEF Same, Creates, WithRun, n
    <3> QED
      BY <2>5, <3>1
  <2> QED
    BY <2>4, <2>6 DEF MakersAreAlone, Maker, Creates
<1> QED
  BY <1>7, <1>8, <1>10, <1>11, <1>12 DEF KeyHolds

LEMMA MadeKeys ==
  ASSUME TypeOK, KeyHolds, NEW r \in pending, Insert(r) \/ InsertFailed(r) PROVE KeyHolds'
<1> DEFINE s == [r EXCEPT !.run = Len(run) + 1, !.fresh = TRUE]
           t == [s EXCEPT !.next = "refresh"]
           u == [s EXCEPT !.next = "key"]
<1>1. /\ r \in CallRow(Len(run)) /\ r.next = "insert" /\ r.kind \in {"create", "fork"}
      /\ (r.kind = "fork" => r.scope \in Ids)
  BY DEF TypeOK, Insert, InsertFailed, Making
<1>2. s.key = r.key /\ s.scope = r.scope /\ s.kind = r.kind /\ s.run = Len(run) + 1 /\ s.starts = r.starts
  BY <1>1 DEF CallRow
<1>3. /\ t.key = r.key /\ t.scope = r.scope /\ t.kind = r.kind /\ t.run = Len(run) + 1
      /\ t.next = "refresh"
      /\ u.key = r.key /\ u.scope = r.scope /\ u.kind = r.kind /\ u.run = Len(run) + 1
      /\ u.next = "key"
  BY <1>1 DEF CallRow
<1>4. /\ \A q \in ToAnswer(s) : q = u /\ r.key # NoKey
      /\ ToBootstrap(s) = {t} \/ ToBootstrap(s) = ToAnswer(s)
  BY <1>2 DEF ToAnswer, ToBootstrap
<1> HIDE DEF t, u
<1>5. WithRun(ToAnswer(s), r, u) /\ WithRun({t}, r, t)
  BY <1>3, <1>4 DEF WithRun
<1>6. UNCHANGED <<answered, crowded>>
  BY DEF Insert, InsertFailed
<1>7. PICK row : run' = Append(run, row) /\ HasKey(row, r)
  <2>1. CASE r.kind = "create"
    <3>1. \A status : HasKey(NewRun(r, status), r)
      BY <2>1 DEF HasKey, NewRun, Row
    <3> QED
      BY <2>1, <3>1 DEF Insert, InsertFailed
  <2>2. CASE r.kind = "fork"
    <3>1. PICK graph : run' = Append(run, ForkRow(r, graph))
      BY <2>2 DEF Insert, InsertFailed
    <3>2. HasKey(ForkRow(r, graph), r)
      BY <1>1, <2>2 DEF HasKey, ForkRow, Row
    <3> QED
      BY <3>1, <3>2
  <2> QED
    BY <1>1, <2>1, <2>2
<1>8. CASE Insert(r)
  <2>1. Opens(r, {t}) \/ Opens(r, ToAnswer(s))
    BY <1>4, <1>8 DEF Insert
  <2> HIDE DEF s
  <2> QED
    BY <1>1, <1>5, <1>6, <1>7, <2>1, InsertKeys
<1>9. CASE InsertFailed(r)
  <2>1. Becomes(r, ToAnswer(s))
    BY <1>9 DEF InsertFailed
  <2> HIDE DEF s
  <2> QED
    BY <1>1, <1>5, <1>6, <1>7, <2>1, InsertKeys
<1> QED
  BY <1>8, <1>9

\* A request that comes while another is about the same is noted, or somebody has
\* been answered.
LEMMA ArrivesKeys ==
  ASSUME TypeOK, KeyHolds, NEW call, Arriving(call) PROVE KeyHolds'
<1>1. /\ pending' = pending \cup {call} /\ UNCHANGED <<run, answered>>
      /\ crowded \subseteq crowded'
      /\ Repeats(call) => About(call) \in crowded'
  BY DEF Arriving, Arrives
<1>2. \A key, scope : Bearers(key, scope)' = Bearers(key, scope)
  BY <1>1 DEF Bearers, Ids
<1>3. ASSUME NEW q \in pending, About(q) = About(call), q.key # NoKey, About(q) \notin crowded'
      PROVE  \E a \in answered : About(a) = About(q)
  <2>1. ~Repeats(call) /\ call.key # NoKey
    BY <1>1, <1>3 DEF About
  <2> QED
    BY <1>3, <2>1 DEF Repeats
<1>4. OneLine'
  BY <1>1, <1>2 DEF KeyHolds, OneLine
<1>5. AnswersAreFound'
  BY <1>1, <1>2 DEF KeyHolds, AnswersAreFound
<1>6. CrowdsAreNoted'
  <2> SUFFICES ASSUME NEW p \in pending', NEW q \in pending', About(p) = About(q),
                      q.key # NoKey, About(q) \notin crowded', p # q
               PROVE  \E a \in answered : About(a) = About(q)
    BY <1>1 DEF CrowdsAreNoted
  <2>1. CASE p \in pending /\ q \in pending
    BY <1>1, <2>1 DEF KeyHolds, CrowdsAreNoted
  <2>2. CASE q \in pending /\ p = call
    BY <1>3, <2>2
  <2>3. CASE p \in pending /\ q = call
    <3>1. p.key # NoKey
      BY DEF About
    <3> QED
      BY <1>3, <2>3, <3>1
  <2> QED
    BY <1>1, <2>1, <2>2, <2>3
<1>7. SearchHolds'
  <2> SUFFICES ASSUME Len(run) <= Window, NEW q \in pending', Past(q)'
               PROVE  /\ \A x \in pending' : About(x) = About(q) => x = q
                      /\ \A a \in answered : About(a) # About(q)
                      /\ q.kind = "create" \/ q.next = "insert" => Bearers(q.key, q.scope) = {}
    BY <1>1, <1>2 DEF SearchHolds, Past
  <2>1. q.key # NoKey /\ q.next # "find" /\ About(q) \notin crowded'
    BY DEF Past
  <2>2. q \in pending
    BY <1>1, <2>1 DEF Arriving
  <2>3. Past(q)
    BY <1>1, <2>1 DEF Past
  <2>4. /\ \A x \in pending : About(x) = About(q) => x = q
        /\ \A a \in answered : About(a) # About(q)
        /\ q.kind = "create" \/ q.next = "insert" => Bearers(q.key, q.scope) = {}
    BY <2>2, <2>3 DEF KeyHolds, SearchHolds, Past
  <2>5. About(call) # About(q)
    BY <1>3, <2>1, <2>2, <2>4
  <2> QED
    BY <1>1, <2>4, <2>5
<1>8. MakersAreAlone'
  <2>1. \A p \in pending : Maker(p)
    BY DEF KeyHolds, MakersAreAlone, Maker
  <2>2. Maker(call) /\ ~Creates(call)
    BY DEF Arriving, Maker, Making, Creates
  <2>3. \A p \in pending' : Maker(p)'
    BY <1>1, <1>2, <2>1, <2>2 DEF Maker
  <2>4. \A p, q \in pending' : Creates(p) /\ Creates(q) /\ p.run = q.run => p = q
    BY <1>1, <2>2 DEF KeyHolds, MakersAreAlone, Creates
  <2> QED
    BY <2>3, <2>4 DEF MakersAreAlone, Maker, Creates
<1> QED
  BY <1>4, <1>5, <1>6, <1>7, <1>8 DEF KeyHolds

\* Neither do the requests change.
LEMMA KeysAlone ==
  ASSUME TypeOK, KeyHolds, UNCHANGED <<pending, answered, crowded>>, SameKeys PROVE KeyHolds'
<1>1. \A key, scope : Bearers(key, scope)' = Bearers(key, scope)
  BY DEF Bearers, SameKeys
<1>2. OneLine'
  BY <1>1 DEF KeyHolds, OneLine, Bearers, SameKeys
<1>3. AnswersAreFound' /\ CrowdsAreNoted'
  BY <1>1 DEF KeyHolds, AnswersAreFound, CrowdsAreNoted
<1>4. SearchHolds'
  BY <1>1 DEF KeyHolds, SearchHolds, SameKeys
<1>5. \A p \in pending : Maker(p) /\ (p.run # NoId => p.run \in Ids)
  BY Kinds DEF KeyHolds, MakersAreAlone, Maker, Ids, NoId, TypeOK
<1>6. \A p \in pending : Maker(p)'
  BY <1>1, <1>5 DEF Maker, SameKeys
<1>7. MakersAreAlone'
  BY <1>6 DEF KeyHolds, MakersAreAlone, Maker
<1> QED
  BY <1>2, <1>3, <1>4, <1>7 DEF KeyHolds

LEMMA KeyStep ==
  ASSUME TypeOK, KeyHolds, [Next]_vars PROVE KeyHolds'
<1>1. CASE Request
  BY <1>1, RequestArrives, ArrivesKeys
<1>2. ASSUME NEW i \in Ids, Cancel(i) \/ Stop(i) PROVE KeyHolds'
  <2>1. PICK status : run' = [run EXCEPT ![i].status = status]
    BY <1>2 DEF Cancel, Stop, Stops
  <2>2. UNCHANGED <<pending, answered, crowded>>
    BY <1>2 DEF Cancel, Stop, Stops
  <2> DEFINE row == [run[i] EXCEPT !.status = status]
  <2>3. run' = [run EXCEPT ![i] = row] /\ run[i] \in RunRow(Len(run))
    BY <2>1 DEF TypeOK, Ids
  <2>4. row.key = run[i].key /\ row.scope = run[i].scope /\ row.line = run[i].line
    BY <2>3 DEF RunRow
  <2> HIDE DEF row
  <2> QED
    BY <2>2, <2>3, <2>4, KeysAreKept, KeysAlone
<1>3. ASSUME NEW r \in pending, Serve(r) \/ Die(r) PROVE KeyHolds'
  BY <1>3, CountKeys, BootstrapKeys, HandOverKeys, ReopenKeys, FindKeys, WriteKeyKeys, MadeKeys
     DEF Serve, Bootstrap
<1>4. CASE UNCHANGED vars
  BY <1>4, KeysAreKept, KeysAlone DEF vars
<1> QED
  BY <1>1, <1>2, <1>3, <1>4 DEF Next

-----------------------------------------------------------------------------
LaunchInv == GateInv /\ SeedHolds /\ KeyHolds

\* The gate, the graphs and the keys hold together from the first request on
\* (launch_run_for_project, bootstrap_in_session, create_run, fork_existing_run).
THEOREM LaunchInvariant == Spec => []LaunchInv
<1>1. Init => SeedHolds /\ KeyHolds
  BY DEF Init, SeedHolds, SeededOnce, BootstrapsAlone, KeyHolds, OneLine, AnswersAreFound,
         SearchHolds, CrowdsAreNoted, MakersAreAlone, Bearers, Ids
<1>2. Init => LaunchInv
  BY <1>1, GateStart DEF LaunchInv
<1>3. LaunchInv /\ [Next]_vars => LaunchInv'
  BY GateStep, SeedStep, KeyStep DEF LaunchInv, GateInv
<1> QED
  BY <1>2, <1>3, PTL DEF Spec

-----------------------------------------------------------------------------
(* The results.                                                            *)

\* The types of the runs rows and of what the requests know (launch_run_for_project,
\* bootstrap_in_session).
THEOREM TypeCorrect == Spec => []TypeOK
<1>1. GateInv => TypeOK
  BY DEF GateInv
<1> QED
  BY <1>1, Gate, PTL

\* A project has one open run at a time, but for forks, resumed runs, runs whose
\* cancellation their own launch overwrote, and launches crossed after they had
\* counted the open runs (launch_run_for_project).
THEOREM AtMostOneOpenRun == Spec => []OneOpenRun
<1>1. GateInv => OneOpenRun
  BY DEF GateInv
<1> QED
  BY <1>1, Gate, PTL

\* The graph of a run is seeded once, however often its request and its task
\* bootstrap it, unless a resume opened the run, or one it was copied from, in
\* the midst of that (bootstrap_in_session, generate_template_dag).
THEOREM GraphIsSeededOnce == Spec => []SeededOnce
<1>1. LaunchInv => SeededOnce
  BY DEF LaunchInv, SeedHolds
<1> QED
  BY <1>1, LaunchInvariant, PTL

\* While a search goes back to the first run of the project, all who were answered
\* about a key nobody crowded before were answered with one run, or with copies of
\* it that have its key (create_run, fork_existing_run, _find_run_by_request_key).
THEOREM RepeatsAreFound == Spec => []RepeatsFindTheRun
<1>1. ASSUME LaunchInv PROVE RepeatsFindTheRun
  <2> SUFFICES ASSUME Len(run) <= Window, NEW a \in answered, NEW b \in answered,
                      About(a) = About(b), About(a) \notin crowded
               PROVE  run[a.run].line = run[b.run].line
    BY DEF RepeatsFindTheRun
  <2>1. a.key = b.key /\ a.scope = b.scope
    BY DEF About
  <2>2. a.run \in Bearers(a.key, a.scope) /\ b.run \in Bearers(a.key, a.scope)
        /\ (a.key \in ForkKeys \/ a.scope = NoId)
    BY <1>1, <2>1 DEF LaunchInv, KeyHolds, AnswersAreFound
  <2>3. a.key \in Keys /\ a.scope \in 0 .. Len(run)
    BY <1>1 DEF LaunchInv, GateInv, TypeOK
  <2> QED
    BY <1>1, <2>2, <2>3 DEF LaunchInv, KeyHolds, OneLine, About
<1> QED
  BY <1>1, LaunchInvariant, PTL

=============================================================================
