--------------------------- MODULE RunPreview_proofs ---------------------------
(***************************************************************************)
(* Theorems about RunPreview, for all sets of runs and requests and every  *)
(* bound: what records tell of processes, and the limit of previews.       *)
(***************************************************************************)
EXTENDS RunPreviewProps, FiniteSetTheorems, TLAPS

-----------------------------------------------------------------------------
(* Types.                                                                  *)

LEMMA PreviewType ==
  ASSUME TypeOK, NEW p \in 0 .. starts, NEW status \in {"NONE", "READY", "EXPIRED", "STOPPED"}
  PROVE  Preview(status, p) \in PreviewRow
  BY DEF Preview, PreviewRow

LEMMA IdleType == TypeOK => Idle \in Request /\ NoPreview \in PreviewRow /\ Idle.at = "idle"
  BY ConstantsAssumption DEF TypeOK, Idle, Request, NoPreview, Preview, PreviewRow, NoProcess

LEMMA SameStarts ==
  ASSUME starts' = starts
  PROVE  Request' = Request /\ PreviewRow' = PreviewRow /\ Processes' = Processes
  BY DEF Request, PreviewRow, Processes

LEMMA KilledType == ASSUME TypeOK, NEW q \in Requests PROVE Killed(q) \subseteq 0 .. starts
  BY DEF TypeOK, Killed, Changed, PreviewRow, Request

\* Where a request is, and what it makes of its session, in each of its steps.
LEMMA RequestFields ==
  ASSUME TypeOK, NEW q \in Requests
  PROVE  /\ req[q].wrote \in SUBSET Runs /\ req[q].held \in SUBSET Runs
         /\ req[q].was \in [Runs -> PreviewRow] /\ req[q].now \in [Runs -> PreviewRow]
         /\ req[q].proc \in 0 .. starts
         /\ req[q].at # "idle" => req[q].run \in Runs
  BY DEF TypeOK, Request

LEMMA TypeStep == ASSUME TypeOK, [Next]_vars PROVE TypeOK'
<1> USE ConstantsAssumption
<1>1. CASE UNCHANGED vars
  BY <1>1, SameStarts DEF TypeOK, vars
<1>2. ASSUME NEW q \in Requests, NEW new \in Request, req' = [req EXCEPT ![q] = new],
             new.at # "idle" => new.run \in Runs,
             alive' \subseteq alive, mishaps' \in 0 .. MaxMishaps,
             astray' \subseteq astray \cup alive, gone' \subseteq gone \cup Killed(q),
             UNCHANGED <<record, starts, due, crowded, limit>>
      PROVE  TypeOK'
  <2>1. Request' = Request /\ PreviewRow' = PreviewRow /\ Processes' = Processes
    BY <1>2, SameStarts
  <2>2. Processes \subseteq 0 .. starts /\ Killed(q) \subseteq 0 .. starts
    BY KilledType DEF Processes, TypeOK
  <2>3. req' \in [Requests -> Request]
    BY <1>2 DEF TypeOK
  <2>4. \A p \in Requests : req'[p].at # "idle" => req'[p].run \in Runs
    BY <1>2 DEF TypeOK
  <2> QED
    BY <1>2, <2>1, <2>2, <2>3, <2>4 DEF TypeOK
<1>3. ASSUME NEW q \in Requests, NEW r \in Runs, Launch(q, r), UNCHANGED limit PROVE TypeOK'
  <2> DEFINE was == [s \in Runs |-> IF s \in Expired THEN record[s] ELSE NoPreview]
             now == [s \in Runs |-> IF s \in Expired THEN Preview("EXPIRED", record[s].proc) ELSE NoPreview]
             new == [Idle EXCEPT !.at = "mark", !.run = r, !.wrote = Expired, !.was = was, !.now = now]
  <2>1. \A s \in Runs : record[s].proc \in 0 .. starts
    BY DEF TypeOK, PreviewRow
  <2>2. was \in [Runs -> PreviewRow] /\ now \in [Runs -> PreviewRow]
    BY <2>1, IdleType, PreviewType DEF TypeOK
  <2>3. Expired \in SUBSET Runs
    BY DEF Expired
  <2>4. new \in Request /\ new.run = r
    BY <2>2, <2>3, IdleType DEF Request
  <2>5. req' = [req EXCEPT ![q] = new] /\ alive' \subseteq alive
    BY <1>3 DEF Launch
  <2> QED
    BY <1>2, <1>3, <2>4, <2>5 DEF Launch, TypeOK
<1>4. ASSUME NEW q \in Requests, NEW r \in Runs, Stop(q, r) \/ Discard(q, r), UNCHANGED limit PROVE TypeOK'
  <2>1. PICK held \in SUBSET Runs : Kill(q, r, held)
    BY <1>4 DEF Stop, Discard
  <2> DEFINE new == [Idle EXCEPT !.at = "reply", !.run = r, !.wrote = {r}, !.held = held,
                                 !.was[r] = record[r], !.now[r] = Preview("STOPPED", record[r].proc)]
  <2>2. record[r] \in PreviewRow /\ Preview("STOPPED", record[r].proc) \in PreviewRow
    BY PreviewType DEF TypeOK, PreviewRow
  <2>3. new \in Request /\ new.run = r
    BY <2>2, IdleType DEF Request
  <2>4. req' = [req EXCEPT ![q] = new] /\ alive' \subseteq alive
    BY <2>1 DEF Kill
  <2> QED
    BY <1>2, <1>4, <2>1, <2>3, <2>4 DEF Kill, TypeOK
<1>5. ASSUME NEW q \in Requests, Lock(q) \/ ReadRun(q) \/ Reuse(q) \/ Clear(q) \/ Serve(q), UNCHANGED limit
      PROVE TypeOK'
  <2> DEFINE new == req'[q]
  <2>0. req[q] \in Request /\ (req[q].at # "idle" => req[q].run \in Runs)
    BY DEF TypeOK
  <2>1. /\ new \in Request /\ req' = [req EXCEPT ![q] = new]
        /\ new.at # "idle" => new.run \in Runs
    <3>1. CASE Lock(q)
      <4>1. PICK r \in Runs : req' = [req EXCEPT ![q].held = @ \cup {r}]
        BY <3>1 DEF Lock
      <4>2. new = [req[q] EXCEPT !.held = @ \cup {r}] /\ req' = [req EXCEPT ![q] = new]
        BY <4>1 DEF TypeOK
      <4> QED
        BY <4>2, <2>0 DEF Request
    <3>2. CASE ReadRun(q)
      <4> DEFINE r == req[q].run
                 was == [req[q].was EXCEPT ![r] = IF r \in req[q].wrote THEN req[q].was[r] ELSE record[r]]
                 now == [req[q].now EXCEPT ![r] = IF r \in req[q].wrote THEN req[q].now[r] ELSE record[r]]
      <4>1. /\ new = [req[q] EXCEPT !.at = "decide", !.late = FALSE, !.was = was, !.now = now]
            /\ req' = [req EXCEPT ![q] = new]
        BY <3>2, <2>0 DEF ReadRun, TypeOK, Request
      <4>2. was \in [Runs -> PreviewRow] /\ now \in [Runs -> PreviewRow]
        BY RequestFields DEF TypeOK
      <4>3. r \in Runs
        BY <2>0, <3>2 DEF ReadRun
      <4> HIDE DEF was, now
      <4> QED
        BY <4>1, <4>2, <4>3, <2>0 DEF Request
    <3>3. CASE Reuse(q)
      BY <3>3, <2>0 DEF Reuse, TypeOK, Request
    <3>4. CASE Clear(q)
      <4> DEFINE r == req[q].run
                 now == [req[q].now EXCEPT ![r] = NoPreview]
      <4>1. /\ new = [req[q] EXCEPT !.at = "build", !.wrote = req[q].wrote \cup {r}, !.now = now, !.late = FALSE]
            /\ req' = [req EXCEPT ![q] = new]
        <5>1. req' = [req EXCEPT ![q].at = "build", ![q].wrote = req[q].wrote \cup {r},
                                 ![q].now[r] = NoPreview, ![q].late = FALSE]
          BY <3>4 DEF Clear
        <5>2. q \in DOMAIN req /\ req[q] = [req[q] EXCEPT !.at = req[q].at]
          BY DEF TypeOK, Request
        <5> QED
          BY <5>1, <5>2, Zenon, <2>0 DEF TypeOK, Request
      <4>2. now \in [Runs -> PreviewRow]
        BY RequestFields, IdleType DEF TypeOK
      <4>3. r \in Runs
        BY <2>0, <3>4 DEF Clear
      <4> HIDE DEF now
      <4>4. req[q].wrote \cup {r} \in SUBSET Runs
        BY <4>3, <2>0 DEF Request
      <4> DEFINE wrote == req[q].wrote \cup {r}
      <4>5. /\ new = [req[q] EXCEPT !.at = "build", !.wrote = wrote, !.now = now, !.late = FALSE]
            /\ wrote \in SUBSET Runs
        BY <4>1, <4>4
      <4>6. req' = [req EXCEPT ![q] = new]
        BY <4>1
      <4> HIDE DEF new, wrote
      <4>7. new \in Request /\ new.run = r
        BY <4>5, <4>2, <2>0 DEF Request
      <4> QED
        BY <4>3, <4>6, <4>7
    <3>5. CASE Serve(q)
      <4> DEFINE now == [req[q].now EXCEPT ![req[q].run] = Preview("READY", req[q].proc)]
      <4>1. /\ new = [req[q] EXCEPT !.at = "reply", !.now = now]
            /\ req' = [req EXCEPT ![q] = new]
        BY <3>5, <2>0 DEF Serve, TypeOK, Request
      <4>2. now \in [Runs -> PreviewRow]
        BY RequestFields, PreviewType DEF TypeOK
      <4>3. req[q].run \in Runs
        BY <2>0, <3>5 DEF Serve
      <4> HIDE DEF now
      <4> QED
        BY <4>1, <4>2, <4>3, <2>0 DEF Request
    <3> QED
      BY <1>5, <3>1, <3>2, <3>3, <3>4, <3>5
  <2>3. alive' \subseteq alive /\ UNCHANGED <<record, starts, due, mishaps, astray, gone, crowded>>
    BY <1>5 DEF Lock, ReadRun, Reuse, Clear, Serve
  <2> HIDE DEF new
  <2> QED
    BY <1>2, <1>5, <2>1, <2>3 DEF TypeOK
<1>6. ASSUME NEW q \in Requests, Start(q), UNCHANGED limit PROVE TypeOK'
  <2>1. PreviewRow \subseteq PreviewRow' /\ Processes \subseteq Processes' /\ starts' \in Processes'
    BY <1>6 DEF Start, TypeOK, PreviewRow, Processes
  <2>2. Request \subseteq Request' /\ 0 .. starts \subseteq 0 .. starts'
    BY <1>6, <2>1 DEF Start, TypeOK, Request
  <2>3. req'[q] \in Request' /\ req'[q].run = req[q].run
    BY <1>6, <2>1, <2>2 DEF Start, TypeOK, Request, Processes
  <2>4. req' \in [Requests -> Request']
    BY <1>6, <2>2, <2>3 DEF Start, TypeOK
  <2>5. starts' \in 0 .. MaxStarts
    BY <1>6 DEF Start, TypeOK
  <2>6. \A p \in Requests : req'[p].at # "idle" => req'[p].run \in Runs
    BY <1>6, <2>3 DEF Start, TypeOK
  <2>7. record' \in [Runs -> PreviewRow']
    BY <1>6, <2>1 DEF Start, TypeOK
  <2> QED
    BY <1>6, <2>1, <2>2, <2>4, <2>5, <2>6, <2>7 DEF Start, TypeOK
<1>7. ASSUME NEW q \in Requests, UNCHANGED limit,
             Refuse(q) \/ FailToStart(q) \/ FailToServe(q) \/ Abort(q) \/ Lose(q)
      PROVE TypeOK'
  <2>1. /\ req' = [req EXCEPT ![q] = Idle] /\ UNCHANGED <<starts, record, due, crowded>>
        /\ gone' = gone \cup Killed(q) /\ alive' \subseteq alive /\ astray' \subseteq astray \cup alive
    BY <1>7 DEF Refuse, FailToStart, FailToServe, Abort, Lose, Rollback
  <2>2. mishaps' \in 0 .. MaxMishaps
    BY <1>7 DEF Refuse, FailToStart, FailToServe, Abort, Lose, Rollback, TypeOK
  <2> QED
    BY <1>2, <1>7, <2>1, <2>2, IdleType
<1>8. ASSUME NEW q \in Requests, Commit(q), UNCHANGED limit PROVE TypeOK'
  <2>0. Request' = Request /\ PreviewRow' = PreviewRow /\ Processes' = Processes
    BY <1>8, SameStarts DEF Commit
  <2>1. \A p \in Requests : req'[p] \in Request /\ (req'[p].at # "idle" => req'[p].run \in Runs)
    <3> TAKE p \in Requests
    <3>1. CASE req'[p] = Idle
      BY <3>1, IdleType
    <3>2. CASE req'[p] = [req[p] EXCEPT !.late = req[p].late \/ Fresh(q) # {}]
      <4>1. (req[p].late \/ Fresh(q) # {}) \in BOOLEAN /\ req[p] \in Request
        BY DEF TypeOK, Request
      <4> DEFINE late == req[p].late \/ Fresh(q) # {}
      <4>2. req'[p] = [req[p] EXCEPT !.late = late] /\ late \in BOOLEAN
        BY <3>2, <4>1
      <4> HIDE DEF late
      <4> QED
        BY <4>1, <4>2 DEF TypeOK, Request
    <3> QED
      BY <1>8, <3>1, <3>2 DEF Commit
  <2>2. record' \in [Runs -> PreviewRow]
    BY <1>8, RequestFields DEF Commit, TypeOK
  <2>3. {req[q].now[r].proc : r \in Crossed(q) \ Changed(q)} \subseteq 0 .. starts
    <3> SUFFICES ASSUME NEW r \in Crossed(q) PROVE req[q].now[r].proc \in 0 .. starts
      OBVIOUS
    <3>1. r \in Runs /\ req[q].now[r] \in PreviewRow
      BY RequestFields DEF Crossed
    <3> QED
      BY <3>1 DEF PreviewRow
  <2>4. req' \in [Requests -> Request]
    BY <1>8, <2>1 DEF Commit
  <2>5. astray' \subseteq 0 .. starts /\ gone' \subseteq 0 .. starts
    BY <1>8, <2>3 DEF Commit, TypeOK, Processes
  <2>6. crowded' \in BOOLEAN
    BY <1>8 DEF Commit
  <2> QED
    BY <1>8, <2>0, <2>1, <2>2, <2>4, <2>5, <2>6 DEF Commit, TypeOK
<1>9. ASSUME NEW r \in Runs, Look(r), UNCHANGED limit PROVE TypeOK'
  BY <1>9, SameStarts DEF Look, TypeOK
<1>10. ASSUME NEW r \in Runs, Expire(r), UNCHANGED limit PROVE TypeOK'
  <2>1. record[r].proc \in Processes
    BY <1>10 DEF Expire, TypeOK, Processes, PreviewRow, NoProcess
  <2> QED
    BY <1>10, <2>1, SameStarts DEF Expire, TypeOK
<1>11. ASSUME NEW n \in alive, Exit(n), UNCHANGED limit PROVE TypeOK'
  <2>1. n \in Processes /\ n \in 0 .. starts
    BY DEF TypeOK, Processes
  <2>2. mishaps' \in 0 .. MaxMishaps
    BY <1>11 DEF Exit, TypeOK
  <2> QED
    BY <1>11, <2>1, <2>2, SameStarts DEF Exit, TypeOK
<1> QED
  BY <1>1, <1>3, <1>4, <1>5, <1>6, <1>7, <1>8, <1>9, <1>10, <1>11 DEF Next, Arrive, Advance

-----------------------------------------------------------------------------
(* What each step makes of a request.                                      *)

Others(q) == \A p \in Requests : p # q => req'[p] = req[p]

LEMMA AfterLaunch ==
  ASSUME TypeOK, NEW q \in Requests, NEW r \in Runs, Launch(q, r)
  PROVE  /\ Others(q)
         /\ req'[q].at = "mark" /\ req'[q].run = r /\ req'[q].wrote = Expired
         /\ req'[q].proc = NoProcess /\ req'[q].late = FALSE
         /\ \A s \in Expired : /\ req'[q].was[s] = record[s]
                               /\ req'[q].now[s] = Preview("EXPIRED", record[s].proc)
         /\ \A s \in Runs : s \notin Expired =>
               req'[q].was[s] = NoPreview /\ req'[q].now[s] = NoPreview
<1> DEFINE was == [s \in Runs |-> IF s \in Expired THEN record[s] ELSE NoPreview]
           now == [s \in Runs |-> IF s \in Expired THEN Preview("EXPIRED", record[s].proc) ELSE NoPreview]
           wrote == Expired
<1>1. req' = [req EXCEPT ![q] = [Idle EXCEPT !.at = "mark", !.run = r, !.wrote = wrote,
                                             !.was = was, !.now = now]]
  BY DEF Launch
<1>2. req'[q] = [Idle EXCEPT !.at = "mark", !.run = r, !.wrote = wrote, !.was = was, !.now = now]
  BY <1>1 DEF TypeOK
<1>3. wrote \subseteq Runs /\ wrote = Expired
  BY DEF Expired
<1>4. /\ req'[q].was = was /\ req'[q].now = now /\ req'[q].at = "mark" /\ req'[q].run = r
      /\ req'[q].wrote = wrote /\ req'[q].proc = NoProcess /\ req'[q].late = FALSE
  <2> HIDE DEF was, now, wrote
  <2> QED
    BY <1>2 DEF Idle
<1>5. Others(q)
  BY <1>1 DEF Others, TypeOK
<1>6. \A s \in Runs : /\ was[s] = (IF s \in Expired THEN record[s] ELSE NoPreview)
                      /\ now[s] = (IF s \in Expired THEN Preview("EXPIRED", record[s].proc) ELSE NoPreview)
  OBVIOUS
<1> HIDE DEF was, now, wrote
<1> QED
  BY <1>3, <1>4, <1>5, <1>6

LEMMA AfterReadRun ==
  ASSUME TypeOK, NEW q \in Requests, ReadRun(q)
  PROVE  /\ Others(q) /\ req[q].run \in Runs
         /\ req'[q].at = "decide" /\ req'[q].run = req[q].run /\ req'[q].wrote = req[q].wrote
         /\ req'[q].held = req[q].held /\ req'[q].proc = req[q].proc /\ req'[q].late = FALSE
         /\ \A s \in Runs :
               IF s = req[q].run /\ s \notin req[q].wrote
               THEN req'[q].was[s] = record[s] /\ req'[q].now[s] = record[s]
               ELSE req'[q].was[s] = req[q].was[s] /\ req'[q].now[s] = req[q].now[s]
<1> DEFINE r == req[q].run
           was == [req[q].was EXCEPT ![r] = IF r \in req[q].wrote THEN req[q].was[r] ELSE record[r]]
           now == [req[q].now EXCEPT ![r] = IF r \in req[q].wrote THEN req[q].now[r] ELSE record[r]]
<1>0. req[q] \in Request /\ req[q].run \in Runs
  BY DEF ReadRun, TypeOK
<1>1. /\ req'[q] = [req[q] EXCEPT !.at = "decide", !.late = FALSE, !.was = was, !.now = now]
      /\ Others(q)
  BY <1>0 DEF ReadRun, TypeOK, Request, Others
<1>2. \A s \in Runs :
         IF s = r /\ s \notin req[q].wrote
         THEN was[s] = record[s] /\ now[s] = record[s]
         ELSE was[s] = req[q].was[s] /\ now[s] = req[q].now[s]
  BY RequestFields
<1> HIDE DEF was, now
<1> QED
  BY <1>0, <1>1, <1>2 DEF Request

LEMMA AfterReuse ==
  ASSUME TypeOK, NEW q \in Requests, Reuse(q)
  PROVE  /\ Others(q) /\ req[q].run \in Runs
         /\ req'[q].at = "reply" /\ req'[q].run = req[q].run
         /\ req'[q].wrote = req[q].wrote \cup {req[q].run}
         /\ req'[q].held = req[q].held /\ req'[q].proc = req[q].proc /\ req'[q].late = req[q].late
         /\ req'[q].was = req[q].was /\ req'[q].now = req[q].now
  BY DEF Reuse, TypeOK, Request, Others

LEMMA AfterClear ==
  ASSUME TypeOK, NEW q \in Requests, Clear(q)
  PROVE  /\ Others(q) /\ req[q].run \in Runs
         /\ req'[q].at = "build" /\ req'[q].run = req[q].run
         /\ req'[q].wrote = req[q].wrote \cup {req[q].run}
         /\ req'[q].held = req[q].held /\ req'[q].proc = req[q].proc /\ req'[q].late = FALSE
         /\ req'[q].was = req[q].was
         /\ \A s \in Runs : req'[q].now[s] = IF s = req[q].run THEN NoPreview ELSE req[q].now[s]
<1> DEFINE r == req[q].run
           wrote == req[q].wrote \cup {r}
           now == [req[q].now EXCEPT ![r] = NoPreview]
<1>0. req[q] \in Request /\ req[q].run \in Runs
  BY DEF Clear, TypeOK
<1>1. req' = [req EXCEPT ![q].at = "build", ![q].wrote = wrote, ![q].now[r] = NoPreview, ![q].late = FALSE]
  BY DEF Clear
<1>2. \A s \in Runs : now[s] = IF s = r THEN NoPreview ELSE req[q].now[s]
  BY RequestFields
<1>3. req'[q].wrote = wrote /\ req'[q].now = now /\ Others(q)
  <2> HIDE DEF wrote
  <2> QED
    BY <1>0, <1>1, Zenon DEF TypeOK, Request, Others
<1>4. /\ req'[q].at = "build" /\ req'[q].run = r /\ req'[q].late = FALSE
      /\ req'[q].held = req[q].held /\ req'[q].proc = req[q].proc /\ req'[q].was = req[q].was
  <2> HIDE DEF wrote
  <2> QED
    BY <1>0, <1>1, Zenon DEF TypeOK, Request
<1> HIDE DEF now
<1> QED
  BY <1>0, <1>2, <1>3, <1>4

LEMMA AfterStart ==
  ASSUME TypeOK, NEW q \in Requests, Start(q)
  PROVE  /\ Others(q) /\ req[q].run \in Runs
         /\ req'[q].at = "check" /\ req'[q].run = req[q].run /\ req'[q].wrote = req[q].wrote
         /\ req'[q].held = req[q].held /\ req'[q].proc = starts' /\ req'[q].late = req[q].late
         /\ req'[q].was = req[q].was /\ req'[q].now = req[q].now
  BY DEF Start, TypeOK, Request, Others

LEMMA AfterServe ==
  ASSUME TypeOK, NEW q \in Requests, Serve(q)
  PROVE  /\ Others(q) /\ req[q].run \in Runs
         /\ req'[q].at = "reply" /\ req'[q].run = req[q].run /\ req'[q].wrote = req[q].wrote
         /\ req'[q].held = req[q].held /\ req'[q].proc = req[q].proc /\ req'[q].late = req[q].late
         /\ req'[q].was = req[q].was
         /\ \A s \in Runs : req'[q].now[s] = IF s = req[q].run THEN Preview("READY", req[q].proc)
                                             ELSE req[q].now[s]
<1> DEFINE now == [req[q].now EXCEPT ![req[q].run] = Preview("READY", req[q].proc)]
<1>0. req[q] \in Request /\ req[q].run \in Runs
  BY DEF Serve, TypeOK
<1>1. req'[q] = [req[q] EXCEPT !.at = "reply", !.now = now] /\ Others(q)
  BY <1>0 DEF Serve, TypeOK, Request, Others
<1>2. \A s \in Runs : now[s] = IF s = req[q].run THEN Preview("READY", req[q].proc) ELSE req[q].now[s]
  BY RequestFields
<1> HIDE DEF now
<1> QED
  BY <1>0, <1>1, <1>2 DEF Request

LEMMA AfterCommit ==
  ASSUME TypeOK, PhasesFit, NEW q \in Requests, Commit(q)
  PROVE  /\ req'[q] = Idle /\ req[q].run \in Runs
         /\ \A p \in Requests : p # q =>
               /\ req'[p].at = req[p].at /\ req'[p].run = req[p].run /\ req'[p].wrote = req[p].wrote
               /\ req'[p].held = req[p].held /\ req'[p].proc = req[p].proc
               /\ req'[p].was = req[p].was /\ req'[p].now = req[p].now
               /\ req'[p].late = req[p].late \/ (req[p].at # "idle" /\ req'[p].late)
               /\ Fresh(q) # {} => req[p].at = "idle" \/ req'[p].late
         /\ \A r \in Runs : record'[r] = IF r \in req[q].wrote THEN req[q].now[r] ELSE record[r]
<1>1. req'[q] = Idle /\ req[q].run \in Runs
  BY DEF Commit, TypeOK
<1>2. ASSUME NEW p \in Requests, p # q
      PROVE  /\ req'[p].at = req[p].at /\ req'[p].run = req[p].run /\ req'[p].wrote = req[p].wrote
             /\ req'[p].held = req[p].held /\ req'[p].proc = req[p].proc
             /\ req'[p].was = req[p].was /\ req'[p].now = req[p].now
             /\ req'[p].late = req[p].late \/ (req[p].at # "idle" /\ req'[p].late)
             /\ Fresh(q) # {} => req[p].at = "idle" \/ req'[p].late
  <2>1. CASE req[p].at = "idle"
    <3>1. req'[p] = Idle /\ req[p] = Idle
      BY <1>2, <2>1 DEF Commit, PhasesFit, Fits
    <3> QED
      BY <3>1, <2>1
  <2>2. CASE req[p].at # "idle"
    <3> DEFINE late == req[p].late \/ Fresh(q) # {}
    <3>1. req'[p] = [req[p] EXCEPT !.late = late] /\ req[p] \in Request
      BY <1>2, <2>2 DEF Commit, TypeOK
    <3>2. late \in BOOLEAN /\ req[p].late \in BOOLEAN
      BY <3>1 DEF Request
    <3>3. (late = req[p].late \/ late) /\ (Fresh(q) # {} => late)
      BY <3>2
    <3> HIDE DEF late
    <3> QED
      BY <2>2, <3>1, <3>2, <3>3 DEF Request
  <2> QED
    BY <2>1, <2>2
<1>3. \A r \in Runs : record'[r] = IF r \in req[q].wrote THEN req[q].now[r] ELSE record[r]
  BY DEF Commit
<1> QED
  BY <1>1, <1>2, <1>3

\* A request that ends without a commit.
Drop(q) ==
    /\ req' = [req EXCEPT ![q] = Idle]
    /\ gone' = gone \cup Killed(q)
    /\ alive' \subseteq alive
    /\ alive \ alive' \subseteq {req[q].proc}
    /\ req[q].proc \in alive' => req[q].proc \in astray'
    /\ astray \subseteq astray'
    /\ UNCHANGED <<record, starts, due, crowded, limit>>

LEMMA DropCases ==
  ASSUME TypeOK, PhasesFit, NEW q \in Requests, UNCHANGED limit,
         Refuse(q) \/ FailToStart(q) \/ FailToServe(q) \/ Abort(q) \/ Lose(q)
  PROVE  Drop(q) /\ Others(q) /\ req'[q] = Idle
<1>1. req' = [req EXCEPT ![q] = Idle] /\ gone' = gone \cup Killed(q)
  BY DEF Refuse, FailToStart, FailToServe, Abort, Lose, Rollback
<1>2. Others(q) /\ req'[q] = Idle
  BY <1>1 DEF TypeOK, Others
<1>3. 0 \notin alive
  BY DEF TypeOK, Processes
<1>4. CASE Refuse(q) \/ FailToStart(q)
  <2>1. req[q].proc = NoProcess
    BY <1>4 DEF Refuse, FailToStart, PhasesFit, Fits, Started
  <2> QED
    BY <1>1, <1>2, <1>3, <1>4, <2>1 DEF Refuse, FailToStart, Rollback, Drop, NoProcess
<1>5. CASE FailToServe(q)
  BY <1>1, <1>2, <1>5 DEF FailToServe, Rollback, Drop
<1>6. CASE Abort(q)
  <2>1. PICK S \in SUBSET Requests : q \in S /\ \A p \in S : \E o \in S : WaitsFor(p, o)
    BY <1>6 DEF Abort, InCycle
  <2>2. PICK o \in S : WaitsFor(q, o)
    BY <2>1
  <2>3. Missing(q) # {}
    BY <2>2 DEF WaitsFor, IsNext
  <2>4. req[q].proc = NoProcess
    BY <2>3 DEF PhasesFit, Fits, Started, Flushed
  <2> QED
    BY <1>1, <1>2, <1>3, <1>6, <2>4 DEF Abort, Rollback, Drop, NoProcess
<1>7. CASE Lose(q)
  BY <1>1, <1>2, <1>7 DEF Lose, Drop
<1> QED
  BY <1>4, <1>5, <1>6, <1>7

LEMMA AfterLock ==
  ASSUME TypeOK, NEW q \in Requests, Lock(q)
  PROVE  /\ Others(q) /\ Missing(q) # {}
         /\ req'[q].at = req[q].at /\ req'[q].run = req[q].run /\ req'[q].wrote = req[q].wrote
         /\ req'[q].proc = req[q].proc /\ req'[q].late = req[q].late
         /\ req'[q].was = req[q].was /\ req'[q].now = req[q].now
<1>1. PICK r \in Runs : IsNext(q, r) /\ req' = [req EXCEPT ![q].held = @ \cup {r}]
  BY DEF Lock
<1> QED
  BY <1>1 DEF TypeOK, Request, Others, IsNext

\* The record that a request strikes, and what its session has of the others.
Struck(q, r) ==
    /\ req'[q].was[r] = record[r]
    /\ req'[q].now[r] = Preview("STOPPED", record[r].proc)
    /\ \A s \in Runs : s # r => req'[q].was[s] = NoPreview /\ req'[q].now[s] = NoPreview

LEMMA AfterKilling ==
  ASSUME TypeOK, NEW q \in Requests, NEW r \in Runs, Stop(q, r) \/ Discard(q, r)
  PROVE  /\ Others(q) /\ req[q].at = "idle" /\ Struck(q, r)
         /\ req'[q].at = "reply" /\ req'[q].run = r /\ req'[q].wrote = {r}
         /\ req'[q].proc = NoProcess /\ req'[q].late = FALSE
         /\ alive' = alive \ {record[r].proc}
         /\ record' = record /\ starts' = starts /\ due' = due /\ mishaps' = mishaps
         /\ astray' = astray /\ gone' = gone /\ crowded' = crowded
<1>1. PICK held \in SUBSET Runs : Kill(q, r, held)
  BY DEF Stop, Discard
<1> DEFINE stopped == Preview("STOPPED", record[r].proc)
           none == [s \in Runs |-> NoPreview]
           was == [none EXCEPT ![r] = record[r]]
           now == [none EXCEPT ![r] = stopped]
<1>2. /\ req'[q] = [Idle EXCEPT !.at = "reply", !.run = r, !.wrote = {r}, !.held = held,
                                !.was = was, !.now = now]
      /\ Others(q)
  BY <1>1 DEF Kill, TypeOK, Idle, Others
<1>3. /\ was[r] = record[r] /\ now[r] = stopped
      /\ \A s \in Runs : s # r => was[s] = NoPreview /\ now[s] = NoPreview
  OBVIOUS
<1>4. /\ req[q].at = "idle" /\ alive' = alive \ {record[r].proc}
      /\ record' = record /\ starts' = starts /\ due' = due /\ mishaps' = mishaps
      /\ astray' = astray /\ gone' = gone /\ crowded' = crowded
  BY <1>1 DEF Kill
<1>5. /\ req'[q].was = was /\ req'[q].now = now /\ req'[q].at = "reply" /\ req'[q].run = r
      /\ req'[q].wrote = {r} /\ req'[q].proc = NoProcess /\ req'[q].late = FALSE
  <2> HIDE DEF was, now
  <2> QED
    BY <1>2 DEF Idle
<1>6. Struck(q, r)
  <2> HIDE DEF was, now
  <2> QED
    BY <1>3, <1>5 DEF Struck
<1> QED
  BY <1>2, <1>4, <1>5, <1>6

\* Every step is one of these.
LEMMA StepCases ==
  ASSUME PreviewInv, [Next]_vars
  PROVE  \/ UNCHANGED vars
         \/ /\ UNCHANGED limit
            /\ \/ \E q \in Requests : \/ \E r \in Runs : Launch(q, r) \/ Stop(q, r) \/ Discard(q, r)
                                      \/ Lock(q) \/ ReadRun(q) \/ Reuse(q) \/ Clear(q) \/ Start(q)
                                      \/ Serve(q) \/ Commit(q)
                                      \/ Drop(q) /\ Others(q) /\ req'[q] = Idle
               \/ \E r \in Runs : Look(r) \/ Expire(r)
               \/ \E n \in alive : Exit(n)
  BY DropCases DEF Next, Arrive, Advance, PreviewInv

LEMMA Numbers ==
  ASSUME TypeOK
  PROVE  /\ starts \in Nat /\ NoProcess \notin alive /\ alive \subseteq 0 .. starts
         /\ \A r \in Runs :
               /\ record[r].proc \in 0 .. starts /\ record[r] \in PreviewRow
               /\ \A q \in Requests :
                     req[q].was[r].proc \in 0 .. starts /\ req[q].now[r].proc \in 0 .. starts
         /\ \A q \in Requests : req[q].proc \in 0 .. starts
  BY ConstantsAssumption DEF TypeOK, Processes, PreviewRow, Request, NoProcess

LEMMA IdleFields ==
  /\ Idle.at = "idle" /\ Idle.wrote = {} /\ Idle.held = {} /\ Idle.proc = NoProcess
  /\ Idle.late = FALSE /\ Idle.run = 0
  /\ \A r \in Runs : Idle.was[r] = NoPreview /\ Idle.now[r] = NoPreview
  BY DEF Idle

LEMMA PreviewFields ==
  \A s, p : Preview(s, p).status = s /\ Preview(s, p).proc = p
  BY DEF Preview

-----------------------------------------------------------------------------
(* What has been killed stays dead.                                        *)

LEMMA DeadStep == ASSUME PreviewInv, [Next]_vars PROVE DeadStaysDead'
<1>0. TypeOK /\ DeadStaysDead /\ PhasesFit
  BY DEF PreviewInv
<1>a. starts + 1 \notin 0 .. starts
  BY <1>0, Numbers
<1>b. NoPreview.status = "NONE" /\ NoPreview.proc = NoProcess
  BY DEF NoPreview, Preview
<1>c. NoPreview.proc \notin alive
  BY <1>0, <1>b, Numbers
<1>d. ASSUME NEW q \in Requests, NEW r \in Runs
      PROVE  /\ r \in req[q].wrote /\ req[q].now[r] # req[q].was[r] => req[q].was[r].proc \notin alive
             /\ req[q].was[r].status # "READY" => req[q].was[r].proc \notin alive
             /\ req[q].now[r].status # "READY" => req[q].now[r].proc \notin alive
  BY <1>0 DEF DeadStaysDead, Changed
<1>1. ASSUME NEW q \in Requests, Others(q), record' = record, alive' \subseteq alive \cup {starts + 1},
             \A r \in Runs :
                /\ r \in req'[q].wrote /\ req'[q].now[r] # req'[q].was[r] =>
                      req'[q].was[r].proc \notin alive'
                /\ req'[q].was[r].status # "READY" => req'[q].was[r].proc \notin alive'
                /\ req'[q].now[r].status # "READY" => req'[q].now[r].proc \notin alive',
             req'[q].wrote \subseteq Runs
      PROVE  DeadStaysDead'
  <2>1. ASSUME NEW p \in Requests, NEW r \in Runs, r \in req'[p].wrote, req'[p].now[r] # req'[p].was[r]
        PROVE  req'[p].was[r].proc \notin alive'
    <3>1. CASE p = q
      BY <1>1, <2>1, <3>1
    <3>2. CASE p # q
      BY <1>0, <1>1, <1>a, <2>1, <3>2, Numbers DEF Others, DeadStaysDead, Changed
    <3> QED
      BY <3>1, <3>2
  <2>2. ASSUME NEW r \in Runs, record[r].status # "READY" PROVE record[r].proc \notin alive'
    BY <1>0, <1>1, <1>a, <2>2, Numbers DEF DeadStaysDead
  <2>3. ASSUME NEW r \in Runs, NEW p \in Requests
        PROVE  /\ req'[p].was[r].status # "READY" => req'[p].was[r].proc \notin alive'
               /\ req'[p].now[r].status # "READY" => req'[p].now[r].proc \notin alive'
    <3>1. CASE p = q
      BY <1>1, <3>1
    <3>2. CASE p # q
      BY <1>0, <1>1, <1>a, <3>2, Numbers DEF Others, DeadStaysDead
    <3> QED
      BY <3>1, <3>2
  <2>4. \A p \in Requests : req'[p].wrote \subseteq Runs
    BY <1>0, <1>1, RequestFields DEF Others
  <2> QED
    BY <1>1, <2>1, <2>2, <2>3, <2>4 DEF DeadStaysDead, Changed
<1>2. ASSUME req' = req, record' = record, alive' \subseteq alive PROVE DeadStaysDead'
  BY <1>0, <1>2 DEF DeadStaysDead, Changed
<1>3. ASSUME NEW q \in Requests, NEW r \in Runs, Launch(q, r) PROVE DeadStaysDead'
  <2>1. alive' = alive \ {record[s].proc : s \in Expired} /\ record' = record
    BY <1>3 DEF Launch
  <2>2. Expired \subseteq Runs
    BY DEF Expired
  <2>3. ASSUME NEW s \in Runs
        PROVE  /\ s \in req'[q].wrote /\ req'[q].now[s] # req'[q].was[s] => req'[q].was[s].proc \notin alive'
               /\ req'[q].was[s].status # "READY" => req'[q].was[s].proc \notin alive'
               /\ req'[q].now[s].status # "READY" => req'[q].now[s].proc \notin alive'
    <3>1. CASE s \in Expired
      <4>1. req'[q].was[s] = record[s] /\ req'[q].now[s] = Preview("EXPIRED", record[s].proc)
        BY <1>0, <1>3, <3>1, AfterLaunch
      <4>2. req'[q].was[s].proc \notin alive' /\ req'[q].now[s].proc \notin alive'
        BY <2>1, <3>1, <4>1, PreviewFields
      <4> QED
        BY <4>2
    <3>2. CASE s \notin Expired
      <4>1. req'[q].was[s] = NoPreview /\ req'[q].now[s] = NoPreview
        BY <1>0, <1>3, <3>2, AfterLaunch
      <4> QED
        BY <1>c, <2>1, <4>1
    <3> QED
      BY <3>1, <3>2
  <2>4. Others(q) /\ req'[q].wrote = Expired
    BY <1>0, <1>3, AfterLaunch
  <2> QED
    BY <1>1, <2>1, <2>2, <2>3, <2>4
<1>4. ASSUME NEW q \in Requests, NEW r \in Runs, Stop(q, r) \/ Discard(q, r) PROVE DeadStaysDead'
  <2>1. /\ Others(q) /\ req'[q].wrote = {r} /\ record' = record /\ alive' = alive \ {record[r].proc}
        /\ Struck(q, r)
    BY <1>0, <1>4, AfterKilling
  <2>3. ASSUME NEW s \in Runs
        PROVE  /\ s \in req'[q].wrote /\ req'[q].now[s] # req'[q].was[s] => req'[q].was[s].proc \notin alive'
               /\ req'[q].was[s].status # "READY" => req'[q].was[s].proc \notin alive'
               /\ req'[q].now[s].status # "READY" => req'[q].now[s].proc \notin alive'
    <3>1. CASE s = r
      <4>1. req'[q].was[s].proc \notin alive' /\ req'[q].now[s].proc \notin alive'
        BY <2>1, <3>1, PreviewFields DEF Struck
      <4> QED
        BY <4>1
    <3>2. CASE s # r
      BY <1>c, <2>1, <3>2 DEF Struck
    <3> QED
      BY <3>1, <3>2
  <2> QED
    BY <1>1, <2>1, <2>3
<1>5. ASSUME NEW q \in Requests, Lock(q) PROVE DeadStaysDead'
  <2>1. alive' = alive /\ record' = record
    BY <1>5 DEF Lock
  <2> QED
    BY <1>0, <1>1, <1>5, <2>1, AfterLock, RequestFields DEF DeadStaysDead, Changed
<1>6. ASSUME NEW q \in Requests, ReadRun(q) PROVE DeadStaysDead'
  <2>1. alive' = alive /\ record' = record
    BY <1>6 DEF ReadRun
  <2>2. ASSUME NEW s \in Runs
        PROVE  /\ s \in req'[q].wrote /\ req'[q].now[s] # req'[q].was[s] => req'[q].was[s].proc \notin alive'
               /\ req'[q].was[s].status # "READY" => req'[q].was[s].proc \notin alive'
               /\ req'[q].now[s].status # "READY" => req'[q].now[s].proc \notin alive'
    <3>1. CASE s = req[q].run /\ s \notin req[q].wrote
      <4>1. req'[q].was[s] = record[s] /\ req'[q].now[s] = record[s]
        BY <1>0, <1>6, <3>1, AfterReadRun
      <4> QED
        BY <1>0, <2>1, <4>1 DEF DeadStaysDead
    <3>2. CASE ~(s = req[q].run /\ s \notin req[q].wrote)
      <4>1. /\ req'[q].was[s] = req[q].was[s] /\ req'[q].now[s] = req[q].now[s]
            /\ req'[q].wrote = req[q].wrote
        BY <1>0, <1>6, <3>2, AfterReadRun
      <4> QED
        BY <1>0, <2>1, <4>1 DEF DeadStaysDead, Changed
    <3> QED
      BY <3>1, <3>2
  <2> QED
    BY <1>0, <1>1, <1>6, <2>1, <2>2, AfterReadRun, RequestFields
<1>7. ASSUME NEW q \in Requests, Reuse(q) PROVE DeadStaysDead'
  <2>1. alive' = alive /\ record' = record
    BY <1>7 DEF Reuse
  <2>2. req[q].at = "decide"
    BY <1>7 DEF Reuse
  <2>3. req[q].run \notin req[q].wrote => req[q].now[req[q].run] = req[q].was[req[q].run]
    BY <1>0, <2>2 DEF PhasesFit, Fits
  <2> QED
    BY <1>0, <1>1, <1>7, <2>1, <2>3, AfterReuse, RequestFields DEF DeadStaysDead, Changed
<1>8. ASSUME NEW q \in Requests, Clear(q) PROVE DeadStaysDead'
  <2>1. alive' = alive \ {req[q].now[req[q].run].proc} /\ record' = record /\ req[q].at = "decide"
    BY <1>8 DEF Clear
  <2>2. req[q].now[req[q].run].proc = req[q].was[req[q].run].proc
    BY <1>0, <2>1 DEF PhasesFit, Fits
  <2>3. \A r \in Runs : r # req[q].run => req'[q].now[r] = req[q].now[r]
    BY <1>0, <1>8, AfterClear
  <2>4. req'[q].now[req[q].run] = NoPreview
    BY <1>0, <1>8, AfterClear
  <2>5. ASSUME NEW s \in Runs
        PROVE  /\ s \in req'[q].wrote /\ req'[q].now[s] # req'[q].was[s] => req'[q].was[s].proc \notin alive'
               /\ req'[q].was[s].status # "READY" => req'[q].was[s].proc \notin alive'
               /\ req'[q].now[s].status # "READY" => req'[q].now[s].proc \notin alive'
    <3>1. CASE s = req[q].run
      <4>1. req'[q].was = req[q].was
        BY <1>0, <1>8, AfterClear
      <4>2. req'[q].was[s].proc \notin alive' /\ req'[q].now[s].proc \notin alive'
        BY <1>c, <2>1, <2>2, <2>4, <3>1, <4>1
      <4> QED
        BY <4>2
    <3>2. CASE s # req[q].run
      <4>1. /\ req'[q].was = req[q].was /\ req'[q].now[s] = req[q].now[s]
            /\ s \in req'[q].wrote => s \in req[q].wrote
        <5>1. req'[q].was = req[q].was /\ req'[q].wrote = req[q].wrote \cup {req[q].run}
          BY <1>0, <1>8, AfterClear
        <5> QED
          BY <2>3, <3>2, <5>1
      <4> QED
        BY <2>1, <4>1, <1>d
    <3> QED
      BY <3>1, <3>2
  <2>6. Others(q) /\ req'[q].wrote = req[q].wrote \cup {req[q].run} /\ req[q].run \in Runs
    BY <1>0, <1>8, AfterClear
  <2>7. req'[q].wrote \subseteq Runs /\ alive' \subseteq alive
    BY <1>0, <2>1, <2>6, RequestFields
  <2> QED
    BY <1>1, <2>1, <2>5, <2>6, <2>7
<1>9. ASSUME NEW q \in Requests, Start(q) PROVE DeadStaysDead'
  <2>1. alive' = alive \cup {starts + 1} /\ record' = record
    BY <1>9 DEF Start
  <2> QED
    BY <1>0, <1>1, <1>9, <1>a, <2>1, AfterStart, RequestFields, Numbers DEF DeadStaysDead, Changed
<1>10. ASSUME NEW q \in Requests, Serve(q) PROVE DeadStaysDead'
  <2>1. alive' = alive /\ record' = record /\ req[q].at = "check"
    BY <1>10 DEF Serve
  <2>2. req[q].now[req[q].run] = NoPreview /\ req[q].run \in req[q].wrote
    BY <1>0, <2>1 DEF PhasesFit, Fits
  <2>3. req[q].was[req[q].run].proc \notin alive
    BY <1>0, <1>b, <2>2, Numbers DEF DeadStaysDead, Changed
  <2>4. \A r \in Runs : r # req[q].run => req'[q].now[r] = req[q].now[r]
    BY <1>0, <1>10, AfterServe
  <2>5. req'[q].now[req[q].run].status = "READY"
    BY <1>0, <1>10, AfterServe, PreviewFields
  <2> QED
    BY <1>0, <1>1, <1>10, <2>1, <2>3, <2>4, <2>5, AfterServe, RequestFields DEF DeadStaysDead, Changed
<1>11. ASSUME NEW q \in Requests, Drop(q), Others(q), req'[q] = Idle PROVE DeadStaysDead'
  <2>1. alive' \subseteq alive /\ record' = record
    BY <1>11 DEF Drop
  <2> QED
    BY <1>0, <1>1, <1>11, <1>b, <2>1, IdleFields, Numbers
<1>12. ASSUME NEW q \in Requests, Commit(q) PROVE DeadStaysDead'
  <2>1. alive' = alive
    BY <1>12 DEF Commit
  <2>2. \A p \in Requests : p # q => /\ req'[p].wrote = req[p].wrote
                                     /\ req'[p].was = req[p].was /\ req'[p].now = req[p].now
    BY <1>0, <1>12, AfterCommit
  <2>3. \A r \in Runs : record'[r] = req[q].now[r] \/ record'[r] = record[r]
    BY <1>0, <1>12, AfterCommit
  <2>4. req'[q] = Idle
    BY <1>0, <1>12, AfterCommit
  <2>5. \A p \in Requests : \A r \in Changed(p)' : p # q /\ r \in Changed(p)
    BY <2>2, <2>4, IdleFields DEF Changed
  <2>6. ASSUME NEW p \in Requests, NEW r \in Changed(p)' PROVE req'[p].was[r].proc \notin alive'
    BY <1>0, <2>1, <2>2, <2>5 DEF DeadStaysDead
  <2>7. ASSUME NEW r \in Runs, record'[r].status # "READY" PROVE record'[r].proc \notin alive'
    BY <1>0, <2>1, <2>3, <2>7 DEF DeadStaysDead
  <2>8. ASSUME NEW r \in Runs, NEW p \in Requests
        PROVE  /\ req'[p].was[r].status # "READY" => req'[p].was[r].proc \notin alive'
               /\ req'[p].now[r].status # "READY" => req'[p].now[r].proc \notin alive'
    BY <1>0, <1>b, <2>1, <2>2, <2>4, IdleFields, Numbers DEF DeadStaysDead
  <2> QED
    BY <2>6, <2>7, <2>8 DEF DeadStaysDead
<1>13. ASSUME NEW r \in Runs, Look(r) \/ Expire(r) PROVE DeadStaysDead'
  BY <1>2, <1>13 DEF Look, Expire
<1>14. ASSUME NEW n \in alive, Exit(n) PROVE DeadStaysDead'
  BY <1>2, <1>14 DEF Exit
<1>15. CASE UNCHANGED vars
  BY <1>2, <1>15 DEF vars
<1> QED
  BY StepCases, <1>3, <1>4, <1>5, <1>6, <1>7, <1>8, <1>9, <1>10, <1>11, <1>12, <1>13, <1>14, <1>15

-----------------------------------------------------------------------------
(* What is called READY has a process.                                     *)

LEMMA ProcessStep == ASSUME PreviewInv, [Next]_vars PROVE ReadyIsAProcess'
<1>0. TypeOK /\ ReadyIsAProcess /\ PhasesFit
  BY DEF PreviewInv
<1>b. NoPreview.status # "READY"
  BY DEF NoPreview, Preview
<1>1. ASSUME NEW q \in Requests, Others(q), record' = record,
             \A r \in Runs :
                /\ req'[q].was[r].status = "READY" => req'[q].was[r].proc # NoProcess
                /\ req'[q].now[r].status = "READY" => req'[q].now[r].proc # NoProcess
      PROVE  ReadyIsAProcess'
  <2>1. ASSUME NEW r \in Runs, NEW p \in Requests
        PROVE  /\ req'[p].was[r].status = "READY" => req'[p].was[r].proc # NoProcess
               /\ req'[p].now[r].status = "READY" => req'[p].now[r].proc # NoProcess
    <3>1. CASE p = q
      BY <1>1, <3>1
    <3>2. CASE p # q
      BY <1>0, <1>1, <3>2 DEF Others, ReadyIsAProcess
    <3> QED
      BY <3>1, <3>2
  <2> QED
    BY <1>0, <1>1, <2>1 DEF ReadyIsAProcess
<1>2. ASSUME req' = req, record' = record PROVE ReadyIsAProcess'
  BY <1>0, <1>2 DEF ReadyIsAProcess
<1>3. ASSUME NEW q \in Requests, NEW r \in Runs, Launch(q, r) PROVE ReadyIsAProcess'
  <2>1. ASSUME NEW s \in Runs
        PROVE  /\ req'[q].was[s].status = "READY" => req'[q].was[s].proc # NoProcess
               /\ req'[q].now[s].status = "READY" => req'[q].now[s].proc # NoProcess
    <3>1. CASE s \in Expired
      <4>1. req'[q].was[s] = record[s] /\ req'[q].now[s] = Preview("EXPIRED", record[s].proc)
        BY <1>0, <1>3, <3>1, AfterLaunch
      <4> QED
        BY <1>0, <4>1, PreviewFields DEF ReadyIsAProcess
    <3>2. CASE s \notin Expired
      <4>1. req'[q].was[s] = NoPreview /\ req'[q].now[s] = NoPreview
        BY <1>0, <1>3, <3>2, AfterLaunch
      <4> QED
        BY <1>b, <4>1
    <3> QED
      BY <3>1, <3>2
  <2> QED
    BY <1>0, <1>1, <1>3, <2>1, AfterLaunch DEF Launch
<1>4. ASSUME NEW q \in Requests, NEW r \in Runs, Stop(q, r) \/ Discard(q, r) PROVE ReadyIsAProcess'
  <2>1. Others(q) /\ Struck(q, r) /\ record' = record
    BY <1>0, <1>4, AfterKilling
  <2>2. ASSUME NEW s \in Runs
        PROVE  /\ req'[q].was[s].status = "READY" => req'[q].was[s].proc # NoProcess
               /\ req'[q].now[s].status = "READY" => req'[q].now[s].proc # NoProcess
    <3>1. CASE s = r
      BY <1>0, <2>1, <3>1, PreviewFields DEF Struck, ReadyIsAProcess
    <3>2. CASE s # r
      BY <1>b, <2>1, <3>2 DEF Struck
    <3> QED
      BY <3>1, <3>2
  <2> QED
    BY <1>1, <2>1, <2>2
<1>5. ASSUME NEW q \in Requests, Lock(q) \/ Reuse(q) \/ Start(q) PROVE ReadyIsAProcess'
  <2>1. record' = record
    BY <1>5 DEF Lock, Reuse, Start
  <2>2. Others(q) /\ req'[q].was = req[q].was /\ req'[q].now = req[q].now
    BY <1>0, <1>5, AfterLock, AfterReuse, AfterStart
  <2> QED
    BY <1>0, <1>1, <2>1, <2>2 DEF ReadyIsAProcess
<1>6. ASSUME NEW q \in Requests, ReadRun(q) PROVE ReadyIsAProcess'
  <2>1. ASSUME NEW s \in Runs
        PROVE  /\ req'[q].was[s].status = "READY" => req'[q].was[s].proc # NoProcess
               /\ req'[q].now[s].status = "READY" => req'[q].now[s].proc # NoProcess
    <3>1. \/ req'[q].was[s] = record[s] /\ req'[q].now[s] = record[s]
          \/ req'[q].was[s] = req[q].was[s] /\ req'[q].now[s] = req[q].now[s]
      BY <1>0, <1>6, AfterReadRun
    <3> QED
      BY <1>0, <3>1 DEF ReadyIsAProcess
  <2> QED
    BY <1>0, <1>1, <1>6, <2>1, AfterReadRun DEF ReadRun
<1>7. ASSUME NEW q \in Requests, Clear(q) PROVE ReadyIsAProcess'
  <2>1. Others(q) /\ req'[q].was = req[q].was
    BY <1>0, <1>7, AfterClear
  <2>2. ASSUME NEW s \in Runs
        PROVE  /\ req'[q].was[s].status = "READY" => req'[q].was[s].proc # NoProcess
               /\ req'[q].now[s].status = "READY" => req'[q].now[s].proc # NoProcess
    <3>1. req'[q].now[s] = NoPreview \/ req'[q].now[s] = req[q].now[s]
      BY <1>0, <1>7, AfterClear
    <3> QED
      BY <1>0, <1>b, <2>1, <3>1 DEF ReadyIsAProcess
  <2> QED
    BY <1>1, <1>7, <2>1, <2>2 DEF Clear
<1>8. ASSUME NEW q \in Requests, Serve(q) PROVE ReadyIsAProcess'
  <2>1. Others(q) /\ req'[q].was = req[q].was
    BY <1>0, <1>8, AfterServe
  <2>2. req[q].proc # NoProcess
    BY <1>0, <1>8 DEF Serve, PhasesFit, Fits, Started
  <2>3. ASSUME NEW s \in Runs
        PROVE  /\ req'[q].was[s].status = "READY" => req'[q].was[s].proc # NoProcess
               /\ req'[q].now[s].status = "READY" => req'[q].now[s].proc # NoProcess
    <3>1. req'[q].now[s] = Preview("READY", req[q].proc) \/ req'[q].now[s] = req[q].now[s]
      BY <1>0, <1>8, AfterServe
    <3> QED
      BY <1>0, <2>1, <2>2, <3>1, PreviewFields DEF ReadyIsAProcess
  <2> QED
    BY <1>1, <1>8, <2>1, <2>3 DEF Serve
<1>9. ASSUME NEW q \in Requests, Drop(q), Others(q), req'[q] = Idle PROVE ReadyIsAProcess'
  BY <1>1, <1>9, <1>b, IdleFields DEF Drop
<1>10. ASSUME NEW q \in Requests, Commit(q) PROVE ReadyIsAProcess'
  <2>1. \A r \in Runs : record'[r] = req[q].now[r] \/ record'[r] = record[r]
    BY <1>0, <1>10, AfterCommit
  <2>2. \A p \in Requests : p # q => req'[p].was = req[p].was /\ req'[p].now = req[p].now
    BY <1>0, <1>10, AfterCommit
  <2>3. req'[q] = Idle
    BY <1>0, <1>10, AfterCommit
  <2>4. ASSUME NEW r \in Runs, NEW p \in Requests
        PROVE  /\ req'[p].was[r].status = "READY" => req'[p].was[r].proc # NoProcess
               /\ req'[p].now[r].status = "READY" => req'[p].now[r].proc # NoProcess
    BY <1>0, <1>b, <2>2, <2>3, IdleFields DEF ReadyIsAProcess
  <2>5. ASSUME NEW r \in Runs, record'[r].status = "READY" PROVE record'[r].proc # NoProcess
    BY <1>0, <2>1, <2>5 DEF ReadyIsAProcess
  <2> QED
    BY <2>4, <2>5 DEF ReadyIsAProcess
<1>11. ASSUME NEW r \in Runs, Look(r) \/ Expire(r) PROVE ReadyIsAProcess'
  BY <1>2, <1>11 DEF Look, Expire
<1>12. ASSUME NEW n \in alive, Exit(n) PROVE ReadyIsAProcess'
  BY <1>2, <1>12 DEF Exit
<1>13. CASE UNCHANGED vars
  BY <1>2, <1>13 DEF vars
<1> QED
  BY StepCases, <1>3, <1>4, <1>5, <1>6, <1>7, <1>8, <1>9, <1>10, <1>11, <1>12, <1>13

-----------------------------------------------------------------------------
(* Where a request is, and what its session has.                           *)

LEMMA OneRun ==
  ASSUME TypeOK, OneRunEach, NEW p \in Requests, Started(p), NEW r \in Runs
  PROVE  /\ record[r].proc # req[p].proc
         /\ \A q \in Requests :
               /\ req[q].proc = req[p].proc => q = p
               /\ req[q].was[r].proc # req[p].proc
               /\ req[q].now[r].proc = req[p].proc => q = p /\ r = req[p].run /\ req[p].at = "reply"
  BY DEF OneRunEach

\* Nothing but its own request kills a process that is not recorded yet.
LEMMA StartedLives ==
  ASSUME PreviewInv, [Next]_vars, NEW p \in Requests, Started(p), req'[p].proc = req[p].proc,
         req[p].proc \in alive \cup gone
  PROVE  req[p].proc \in alive' \cup gone'
<1>0. TypeOK /\ OneRunEach /\ PhasesFit
  BY DEF PreviewInv
<1>1. ASSUME alive \subseteq alive', gone \subseteq gone' PROVE req[p].proc \in alive' \cup gone'
  BY <1>1
<1>2. ASSUME NEW q \in Requests, NEW r \in Runs, Launch(q, r) PROVE req[p].proc \in alive' \cup gone'
  <2>1. alive' = alive \ {record[s].proc : s \in Expired} /\ gone' = gone
    BY <1>2 DEF Launch
  <2>2. \A s \in Expired : s \in Runs /\ record[s].proc # req[p].proc
    BY <1>0, OneRun DEF Expired
  <2> QED
    BY <2>1, <2>2
<1>3. ASSUME NEW q \in Requests, NEW r \in Runs, Stop(q, r) \/ Discard(q, r)
      PROVE  req[p].proc \in alive' \cup gone'
  <2>1. alive' = alive \ {record[r].proc} /\ gone' = gone
    BY <1>0, <1>3, AfterKilling
  <2> QED
    BY <1>0, <2>1, OneRun
<1>4. ASSUME NEW q \in Requests, Clear(q) PROVE req[p].proc \in alive' \cup gone'
  <2>1. alive' = alive \ {req[q].now[req[q].run].proc} /\ gone' = gone /\ req[q].at = "decide"
    BY <1>4 DEF Clear
  <2>2. req[q].run \in Runs
    BY <1>0, <1>4, AfterClear
  <2>3. req[q].now[req[q].run].proc # req[p].proc
    BY <1>0, <2>1, <2>2, OneRun
  <2> QED
    BY <2>1, <2>3
<1>5. ASSUME NEW q \in Requests, Drop(q), Others(q), req'[q] = Idle
      PROVE  req[p].proc \in alive' \cup gone'
  <2>1. p # q
    BY <1>5, IdleFields DEF Started
  <2>3. req[q].proc # req[p].proc
    BY <1>0, <2>1 DEF OneRunEach
  <2> QED
    BY <1>5, <2>3 DEF Drop
<1>6. ASSUME NEW r \in Runs, Look(r) PROVE req[p].proc \in alive' \cup gone'
  BY <1>0, <1>6, OneRun DEF Look
<1>7. ASSUME NEW n \in alive, Exit(n) PROVE req[p].proc \in alive' \cup gone'
  BY <1>7 DEF Exit
<1>8. ASSUME NEW q \in Requests, Lock(q) \/ ReadRun(q) \/ Reuse(q) \/ Start(q) \/ Serve(q) \/ Commit(q)
      PROVE  req[p].proc \in alive' \cup gone'
  BY <1>8 DEF Lock, ReadRun, Reuse, Start, Serve, Commit
<1>9. ASSUME NEW r \in Runs, Expire(r) PROVE req[p].proc \in alive' \cup gone'
  BY <1>9 DEF Expire
<1>10. CASE UNCHANGED vars
  BY <1>10 DEF vars
<1> QED
  BY StepCases, <1>2, <1>3, <1>4, <1>5, <1>6, <1>7, <1>8, <1>9, <1>10

LEMMA PhasesStep == ASSUME PreviewInv, [Next]_vars PROVE PhasesFit'
<1>0. TypeOK /\ OneRunEach /\ PhasesFit
  BY DEF PreviewInv
<1>b. NoPreview.status = "NONE" /\ NoPreview.proc = NoProcess
  BY DEF NoPreview, Preview
<1>1. ASSUME NEW p \in Requests,
             req'[p].at = req[p].at, req'[p].run = req[p].run, req'[p].wrote = req[p].wrote,
             req'[p].held = req[p].held, req'[p].proc = req[p].proc,
             req'[p].was = req[p].was, req'[p].now = req[p].now,
             req[p].at = "idle" => req'[p] = Idle
      PROVE  Fits(p)'
  <2>1. Fits(p)
    BY <1>0 DEF PhasesFit
  <2>2. Started(p) /\ req[p].proc \in alive \cup gone => req[p].proc \in alive' \cup gone'
    BY <1>1, StartedLives
  <2> QED
    BY <1>1, <2>1, <2>2 DEF Fits, Started, Flushed, Missing
<1>2. ASSUME NEW q \in Requests, Others(q), Fits(q)' PROVE PhasesFit'
  <2>1. \A p \in Requests : p # q => Fits(p)'
    BY <1>0, <1>1, <1>2 DEF Others, PhasesFit, Fits
  <2> QED
    BY <1>2, <2>1 DEF PhasesFit
<1>3. ASSUME req' = req PROVE PhasesFit'
  BY <1>0, <1>1, <1>3 DEF PhasesFit, Fits
<1>4. ASSUME NEW q \in Requests, NEW r \in Runs, Launch(q, r) PROVE PhasesFit'
  <2>1. /\ Others(q) /\ req'[q].at = "mark" /\ req'[q].wrote = Expired /\ req'[q].proc = NoProcess
        /\ req'[q].run = r
    BY <1>0, <1>4, AfterLaunch
  <2>2. ASSUME NEW s \in Expired
        PROVE  req'[q].now[s].status # "READY" /\ req'[q].now[s].proc = req'[q].was[s].proc
    <3>1. req'[q].was[s] = record[s] /\ req'[q].now[s] = Preview("EXPIRED", record[s].proc)
      BY <1>0, <1>4, AfterLaunch
    <3> QED
      BY <3>1, PreviewFields
  <2>3. Fits(q)'
    BY <2>1, <2>2 DEF Fits, Started
  <2> QED
    BY <1>2, <2>1, <2>3
<1>5. ASSUME NEW q \in Requests, NEW r \in Runs, Stop(q, r) \/ Discard(q, r) PROVE PhasesFit'
  <2>1. /\ Others(q) /\ req'[q].at = "reply" /\ req'[q].wrote = {r} /\ req'[q].proc = NoProcess
        /\ req'[q].run = r /\ Struck(q, r)
    BY <1>0, <1>5, AfterKilling
  <2>2. req'[q].now[r].status # "READY"
    BY <2>1, PreviewFields DEF Struck
  <2>3. Fits(q)'
    BY <2>1, <2>2 DEF Fits, Started
  <2> QED
    BY <1>2, <2>1, <2>3
<1>6. ASSUME NEW q \in Requests, Lock(q) PROVE PhasesFit'
  <2>1. Fits(q)
    BY <1>0 DEF PhasesFit
  <2>2. ~Started(q)
    BY <1>0, <1>6, <2>1, AfterLock DEF Fits, Flushed
  <2>3. req[q].at # "idle"
    BY <1>0, <1>6, <2>1, AfterLock, IdleFields DEF Fits, Missing
  <2>4. Others(q)
    BY <1>0, <1>6, AfterLock
  <2>5. /\ req'[q].at = req[q].at /\ req'[q].run = req[q].run /\ req'[q].wrote = req[q].wrote
        /\ req'[q].proc = req[q].proc /\ req'[q].was = req[q].was /\ req'[q].now = req[q].now
    BY <1>0, <1>6, AfterLock
  <2>6. Fits(q)'
    BY <2>1, <2>2, <2>3, <2>5 DEF Fits, Started
  <2> QED
    BY <1>2, <2>4, <2>6
<1>7. ASSUME NEW q \in Requests, ReadRun(q) PROVE PhasesFit'
  <2>0. req[q].at = "mark"
    BY <1>7 DEF ReadRun
  <2>1. Fits(q) /\ ~Started(q)
    BY <1>0, <2>0 DEF PhasesFit, Fits
  <2>2. /\ Others(q) /\ req[q].run \in Runs
        /\ req'[q].at = "decide" /\ req'[q].run = req[q].run /\ req'[q].wrote = req[q].wrote
        /\ req'[q].proc = req[q].proc
    BY <1>0, <1>7, AfterReadRun
  <2>3. ASSUME NEW s \in req[q].wrote
        PROVE  s \in Runs /\ req'[q].was[s] = req[q].was[s] /\ req'[q].now[s] = req[q].now[s]
    <3>1. s \in Runs
      BY <1>0, RequestFields
    <3> QED
      BY <1>0, <1>7, <3>1, AfterReadRun
  <2>4. /\ req'[q].now[req[q].run].proc = req'[q].was[req[q].run].proc
        /\ req[q].run \notin req[q].wrote => req'[q].now[req[q].run] = req'[q].was[req[q].run]
    <3>1. CASE req[q].run \in req[q].wrote
      BY <2>0, <2>1, <2>3, <3>1 DEF Fits
    <3>2. CASE req[q].run \notin req[q].wrote
      BY <1>0, <1>7, <2>2, <3>2, AfterReadRun
    <3> QED
      BY <3>1, <3>2
  <2>5. \A s \in req'[q].wrote : req'[q].now[s].status # "READY"
    BY <2>0, <2>1, <2>2, <2>3 DEF Fits
  <2>6. Fits(q)'
    BY <2>1, <2>2, <2>4, <2>5 DEF Fits, Started
  <2> QED
    BY <1>2, <2>2, <2>6
<1>8. ASSUME NEW q \in Requests, Reuse(q) PROVE PhasesFit'
  <2>0. req[q].at = "decide"
    BY <1>8 DEF Reuse
  <2>1. Fits(q) /\ ~Started(q)
    BY <1>0, <2>0 DEF PhasesFit, Fits
  <2>2. Others(q)
    BY <1>0, <1>8, AfterReuse
  <2>3. /\ req'[q].at = "reply" /\ req'[q].run = req[q].run
        /\ req'[q].wrote = req[q].wrote \cup {req[q].run}
        /\ req'[q].proc = req[q].proc /\ req'[q].was = req[q].was /\ req'[q].now = req[q].now
    BY <1>0, <1>8, AfterReuse
  <2>4. \A s \in req'[q].wrote : req[q].now[s].status = "READY" =>
           s = req[q].run /\ req[q].now[s] = req[q].was[s]
    BY <2>0, <2>1, <2>3 DEF Fits
  <2>5. Fits(q)'
    BY <2>1, <2>3, <2>4 DEF Fits, Started
  <2> QED
    BY <1>2, <2>2, <2>5
<1>9. ASSUME NEW q \in Requests, Clear(q) PROVE PhasesFit'
  <2>0. req[q].at = "decide"
    BY <1>9 DEF Clear
  <2>1. Fits(q) /\ ~Started(q)
    BY <1>0, <2>0 DEF PhasesFit, Fits
  <2>2. /\ Others(q) /\ req[q].run \in Runs
        /\ req'[q].at = "build" /\ req'[q].run = req[q].run
        /\ req'[q].wrote = req[q].wrote \cup {req[q].run} /\ req'[q].proc = req[q].proc
        /\ req'[q].was = req[q].was
    BY <1>0, <1>9, AfterClear
  <2>3. req'[q].now[req[q].run] = NoPreview
    BY <1>0, <1>9, <2>2, AfterClear
  <2>4. ASSUME NEW s \in req'[q].wrote PROVE req'[q].now[s].status # "READY"
    <3>1. CASE s = req[q].run
      BY <1>b, <2>3, <3>1
    <3>2. CASE s # req[q].run
      <4>1. s \in req[q].wrote /\ s \in Runs
        BY <1>0, <2>2, <3>2, RequestFields
      <4>2. req'[q].now[s] = req[q].now[s]
        BY <1>0, <1>9, <3>2, <4>1, AfterClear
      <4> QED
        BY <2>1, <3>2, <4>1, <4>2 DEF Fits
    <3> QED
      BY <3>1, <3>2
  <2>5. Fits(q)'
    BY <2>1, <2>2, <2>3, <2>4 DEF Fits, Started
  <2> QED
    BY <1>2, <2>2, <2>5
<1>10. ASSUME NEW q \in Requests, Start(q) PROVE PhasesFit'
  <2>0. req[q].at = "build" /\ Flushed(q) /\ starts' = starts + 1
    BY <1>10 DEF Start
  <2>1. Fits(q)
    BY <1>0 DEF PhasesFit
  <2>2. Others(q) /\ req'[q].proc # NoProcess
    BY <1>0, <1>10, <2>0, AfterStart, Numbers DEF NoProcess
  <2>3. /\ req'[q].at = "check" /\ req'[q].run = req[q].run /\ req'[q].wrote = req[q].wrote
        /\ req'[q].held = req[q].held /\ req'[q].was = req[q].was /\ req'[q].now = req[q].now
    BY <1>0, <1>10, AfterStart
  <2>4. \A s \in req[q].wrote : req[q].now[s].status # "READY"
    BY <1>b, <2>0, <2>1 DEF Fits
  <2>5. Fits(q)'
    BY <2>0, <2>1, <2>2, <2>3, <2>4 DEF Fits, Started, Flushed, Missing
  <2> QED
    BY <1>2, <2>2, <2>5
<1>11. ASSUME NEW q \in Requests, Serve(q) PROVE PhasesFit'
  <2>0. req[q].at = "check" /\ req[q].proc \in alive /\ alive' = alive
    BY <1>11 DEF Serve
  <2>1. Fits(q) /\ Started(q) /\ Flushed(q)
    BY <1>0, <2>0 DEF PhasesFit, Fits
  <2>2. /\ Others(q) /\ req[q].run \in Runs
        /\ req'[q].at = "reply" /\ req'[q].run = req[q].run /\ req'[q].wrote = req[q].wrote
        /\ req'[q].held = req[q].held /\ req'[q].proc = req[q].proc /\ req'[q].was = req[q].was
    BY <1>0, <1>11, AfterServe
  <2>3. req'[q].now[req[q].run] = Preview("READY", req[q].proc)
    BY <1>0, <1>11, <2>2, AfterServe
  <2>4. ASSUME NEW s \in req[q].wrote, req'[q].now[s].status = "READY" PROVE s = req[q].run
    <3> SUFFICES ASSUME s # req[q].run PROVE FALSE
      OBVIOUS
    <3>1. s \in Runs
      BY <1>0, RequestFields
    <3>2. req'[q].now[s] = req[q].now[s]
      BY <1>0, <1>11, <3>1, AfterServe
    <3> QED
      BY <2>1, <2>4, <3>2 DEF Fits
  <2>5. Fits(q)'
    BY <2>0, <2>1, <2>2, <2>3, <2>4 DEF Fits, Started, Flushed, Missing
  <2> QED
    BY <1>2, <2>2, <2>5
<1>12. ASSUME NEW q \in Requests, Drop(q), Others(q), req'[q] = Idle PROVE PhasesFit'
  <2>1. Fits(q)'
    BY <1>12, IdleFields DEF Fits, Started
  <2> QED
    BY <1>2, <1>12, <2>1
<1>13. ASSUME NEW q \in Requests, Commit(q) PROVE PhasesFit'
  <2>1. req'[q] = Idle
    BY <1>0, <1>13, AfterCommit
  <2>2. Fits(q)'
    BY <2>1, IdleFields DEF Fits, Started
  <2>3. ASSUME NEW p \in Requests, p # q PROVE Fits(p)'
    <3>1. /\ req'[p].at = req[p].at /\ req'[p].run = req[p].run /\ req'[p].wrote = req[p].wrote
          /\ req'[p].held = req[p].held /\ req'[p].proc = req[p].proc
          /\ req'[p].was = req[p].was /\ req'[p].now = req[p].now
      BY <1>0, <1>13, <2>3, AfterCommit
    <3>2. req[p].at = "idle" => req'[p] = Idle
      BY <1>13, <2>3 DEF Commit
    <3> QED
      BY <1>1, <3>1, <3>2
  <2> QED
    BY <2>2, <2>3 DEF PhasesFit
<1>14. ASSUME NEW r \in Runs, Look(r) \/ Expire(r) PROVE PhasesFit'
  BY <1>3, <1>14 DEF Look, Expire
<1>15. ASSUME NEW n \in alive, Exit(n) PROVE PhasesFit'
  BY <1>3, <1>15 DEF Exit
<1>16. CASE UNCHANGED vars
  BY <1>3, <1>16 DEF vars
<1> QED
  BY StepCases, <1>4, <1>5, <1>6, <1>7, <1>8, <1>9, <1>10, <1>11, <1>12, <1>13, <1>14, <1>15, <1>16

-----------------------------------------------------------------------------
(* A process is the preview of one run, and of one request.                *)

LEMMA NamesOf ==
  ASSUME NEW r, NEW n
  PROVE  n \in Names(r) <=>
           /\ n # NoProcess
           /\ \/ n = record[r].proc
              \/ \E q \in Requests : n = req[q].was[r].proc \/ n = req[q].now[r].proc
  BY DEF Names

LEMMA NamesNext ==
  ASSUME NEW r, NEW n
  PROVE  n \in Names(r)' <=>
           /\ n # NoProcess
           /\ \/ n = record'[r].proc
              \/ \E q \in Requests : n = req'[q].was[r].proc \/ n = req'[q].now[r].proc
  BY DEF Names

LEMMA OneRunStep == ASSUME PreviewInv, [Next]_vars PROVE OneRunEach'
<1>0. TypeOK /\ OneRunEach /\ PhasesFit
  BY DEF PreviewInv
<1>b. NoPreview.status = "NONE" /\ NoPreview.proc = NoProcess
  BY DEF NoPreview, Preview
<1>c. ASSUME NEW r \in Runs, NEW s \in Runs, NEW n, n \in Names(r), n \in Names(s) PROVE r = s
  BY <1>0, <1>c DEF OneRunEach
<1>1. ASSUME NEW q \in Requests, Others(q), record' = record,
             req'[q].proc = req[q].proc \/ req'[q].proc = NoProcess,
             Started(q)' => req'[q].run = req[q].run /\ (req[q].at = "reply" => req'[q].at = "reply"),
             \A r \in Runs :
                /\ req'[q].was[r].proc \in {req[q].was[r].proc, record[r].proc, NoProcess}
                /\ req'[q].now[r].proc \in {req[q].now[r].proc, record[r].proc, NoProcess}
      PROVE  OneRunEach'
  <2>1. ASSUME NEW r \in Runs, NEW n \in Names(r)' PROVE n \in Names(r)
    <3>1. n # NoProcess
      BY <2>1, NamesNext
    <3>2. CASE n = record'[r].proc
      BY <1>1, <3>1, <3>2, NamesOf
    <3>3. ASSUME NEW p \in Requests, n = req'[p].was[r].proc \/ n = req'[p].now[r].proc
          PROVE  n \in Names(r)
      <4>1. CASE p = q
        BY <1>1, <3>1, <3>3, <4>1, NamesOf
      <4>2. CASE p # q
        BY <1>1, <3>1, <3>3, <4>2, NamesOf DEF Others
      <4> QED
        BY <4>1, <4>2
    <3> QED
      BY <2>1, <3>2, <3>3, NamesNext
  <2>2. ASSUME NEW p \in Requests, Started(p)'
        PROVE  /\ Started(p) /\ req'[p].proc = req[p].proc /\ req'[p].run = req[p].run
               /\ req[p].at = "reply" => req'[p].at = "reply"
    BY <1>1, <2>2 DEF Started, Others
  <2>3. ASSUME NEW p \in Requests, Started(p)', NEW r \in Runs
        PROVE  record'[r].proc # req'[p].proc
    BY <1>0, <1>1, <2>2, <2>3, OneRun
  <2>4. ASSUME NEW p \in Requests, Started(p)', NEW o \in Requests, req'[o].proc = req'[p].proc
        PROVE  o = p
    <3>1. Started(p) /\ req'[p].proc = req[p].proc /\ Started(o)'
      BY <2>2, <2>4 DEF Started
    <3>2. req'[o].proc = req[o].proc
      BY <2>2, <3>1
    <3> QED
      BY <1>0, <2>4, <3>1, <3>2 DEF OneRunEach
  <2>5. ASSUME NEW p \in Requests, Started(p)', NEW r \in Runs, NEW o \in Requests
        PROVE  /\ req'[o].was[r].proc # req'[p].proc
               /\ req'[o].now[r].proc = req'[p].proc => o = p /\ r = req'[p].run /\ req'[p].at = "reply"
    <3>1. /\ Started(p) /\ req'[p].proc = req[p].proc /\ req'[p].run = req[p].run
          /\ req[p].at = "reply" => req'[p].at = "reply"
      BY <2>2, <2>5
    <3>2. /\ req'[o].was[r].proc \in {req[o].was[r].proc, record[r].proc, NoProcess}
          /\ req'[o].now[r].proc \in {req[o].now[r].proc, record[r].proc, NoProcess}
      <4>1. CASE o = q
        BY <1>1, <4>1
      <4>2. CASE o # q
        BY <1>1, <4>2 DEF Others
      <4> QED
        BY <4>1, <4>2
    <3>3. /\ record[r].proc # req[p].proc /\ req[o].was[r].proc # req[p].proc
          /\ req[o].now[r].proc = req[p].proc => o = p /\ r = req[p].run /\ req[p].at = "reply"
      BY <1>0, <3>1, OneRun
    <3> QED
      BY <3>1, <3>2, <3>3 DEF Started
  <2>6. ASSUME NEW r \in Runs, NEW s \in Runs, (Names(r) \cap Names(s))' # {} PROVE r = s
    BY <1>c, <2>1, <2>6
  <2> QED
    BY <2>3, <2>4, <2>5, <2>6 DEF OneRunEach
<1>2. ASSUME req' = req, record' = record PROVE OneRunEach'
  BY <1>0, <1>2 DEF OneRunEach, Names, Started
<1>3. ASSUME NEW q \in Requests, NEW r \in Runs, Launch(q, r) PROVE OneRunEach'
  <2>1. ASSUME NEW s \in Runs
        PROVE  /\ req'[q].was[s].proc \in {record[s].proc, NoProcess}
               /\ req'[q].now[s].proc \in {record[s].proc, NoProcess}
    <3>1. CASE s \in Expired
      <4>1. req'[q].was[s] = record[s] /\ req'[q].now[s] = Preview("EXPIRED", record[s].proc)
        BY <1>0, <1>3, <3>1, AfterLaunch
      <4> QED
        BY <4>1, PreviewFields
    <3>2. CASE s \notin Expired
      <4>1. req'[q].was[s] = NoPreview /\ req'[q].now[s] = NoPreview
        BY <1>0, <1>3, <3>2, AfterLaunch
      <4> QED
        BY <1>b, <4>1
    <3> QED
      BY <3>1, <3>2
  <2>2. Others(q) /\ req'[q].proc = NoProcess /\ record' = record
    BY <1>0, <1>3, AfterLaunch DEF Launch
  <2> QED
    BY <1>1, <2>1, <2>2 DEF Started
<1>4. ASSUME NEW q \in Requests, NEW r \in Runs, Stop(q, r) \/ Discard(q, r) PROVE OneRunEach'
  <2>1. Others(q) /\ Struck(q, r) /\ record' = record /\ req'[q].proc = NoProcess
    BY <1>0, <1>4, AfterKilling
  <2>2. ASSUME NEW s \in Runs
        PROVE  /\ req'[q].was[s].proc \in {record[s].proc, NoProcess}
               /\ req'[q].now[s].proc \in {record[s].proc, NoProcess}
    <3>1. CASE s = r
      BY <2>1, <3>1, PreviewFields DEF Struck
    <3>2. CASE s # r
      BY <1>b, <2>1, <3>2 DEF Struck
    <3> QED
      BY <3>1, <3>2
  <2> QED
    BY <1>1, <2>1, <2>2 DEF Started
<1>5. ASSUME NEW q \in Requests, Lock(q) \/ Reuse(q) PROVE OneRunEach'
  <2>1. record' = record
    BY <1>5 DEF Lock, Reuse
  <2>2. /\ Others(q) /\ req'[q].was = req[q].was /\ req'[q].now = req[q].now
        /\ req'[q].proc = req[q].proc /\ req'[q].run = req[q].run
        /\ req[q].at = "reply" => req'[q].at = "reply"
    BY <1>0, <1>5, AfterLock, AfterReuse
  <2> QED
    BY <1>1, <2>1, <2>2
<1>6. ASSUME NEW q \in Requests, ReadRun(q) PROVE OneRunEach'
  <2>1. ASSUME NEW s \in Runs
        PROVE  /\ req'[q].was[s].proc \in {req[q].was[s].proc, record[s].proc}
               /\ req'[q].now[s].proc \in {req[q].now[s].proc, record[s].proc}
    <3>1. \/ req'[q].was[s] = record[s] /\ req'[q].now[s] = record[s]
          \/ req'[q].was[s] = req[q].was[s] /\ req'[q].now[s] = req[q].now[s]
      BY <1>0, <1>6, AfterReadRun
    <3> QED
      BY <3>1
  <2>2. /\ Others(q) /\ req'[q].proc = req[q].proc /\ req'[q].run = req[q].run
        /\ record' = record /\ req[q].at = "mark"
    BY <1>0, <1>6, AfterReadRun DEF ReadRun
  <2> QED
    BY <1>1, <2>1, <2>2
<1>7. ASSUME NEW q \in Requests, Clear(q) PROVE OneRunEach'
  <2>1. /\ Others(q) /\ req'[q].was = req[q].was /\ req'[q].proc = req[q].proc
        /\ req'[q].run = req[q].run /\ record' = record /\ req[q].at = "decide"
    BY <1>0, <1>7, AfterClear DEF Clear
  <2>2. ASSUME NEW s \in Runs PROVE req'[q].now[s].proc \in {req[q].now[s].proc, NoProcess}
    <3>1. req'[q].now[s] = NoPreview \/ req'[q].now[s] = req[q].now[s]
      BY <1>0, <1>7, AfterClear
    <3> QED
      BY <1>b, <3>1
  <2> QED
    BY <1>1, <2>1, <2>2
<1>8. ASSUME NEW q \in Requests, Drop(q), Others(q), req'[q] = Idle PROVE OneRunEach'
  BY <1>1, <1>8, <1>b, IdleFields DEF Drop, Started
<1>9. ASSUME NEW q \in Requests, Start(q) PROVE OneRunEach'
  <2>1. /\ Others(q) /\ req'[q].was = req[q].was /\ req'[q].now = req[q].now
        /\ req'[q].proc = starts + 1 /\ record' = record
    BY <1>0, <1>9, AfterStart DEF Start
  <2>2. \A p \in Requests : req'[p].was = req[p].was /\ req'[p].now = req[p].now
    BY <2>1 DEF Others
  <2>3. /\ \A r \in Runs : /\ record[r].proc # starts + 1
                           /\ \A p \in Requests : /\ req[p].was[r].proc # starts + 1
                                                  /\ req[p].now[r].proc # starts + 1
        /\ \A p \in Requests : req[p].proc # starts + 1
    <3>1. \A n \in 0 .. starts : n # starts + 1
      BY <1>0, Numbers
    <3> QED
      BY <1>0, <3>1, Numbers
  <2>4. ASSUME NEW r \in Runs PROVE Names(r)' = Names(r)
    BY <2>1, <2>2 DEF Names
  <2>5. ASSUME NEW r \in Runs, NEW s \in Runs, (Names(r) \cap Names(s))' # {} PROVE r = s
    BY <1>c, <2>4, <2>5
  <2>6. ASSUME NEW p \in Requests, Started(p)'
        PROVE  /\ \A o \in Requests : req'[o].proc = req'[p].proc => o = p
               /\ \A r \in Runs :
                     /\ record'[r].proc # req'[p].proc
                     /\ \A o \in Requests :
                           /\ req'[o].was[r].proc # req'[p].proc
                           /\ req'[o].now[r].proc = req'[p].proc =>
                                 o = p /\ r = req'[p].run /\ req'[p].at = "reply"
    <3>1. CASE p = q
      <4>1. \A o \in Requests : o # q => req'[o].proc = req[o].proc
        BY <2>1 DEF Others
      <4> QED
        BY <2>1, <2>2, <2>3, <3>1, <4>1
    <3>2. CASE p # q
      <4>1. req'[p] = req[p] /\ Started(p)
        BY <2>1, <2>6, <3>2 DEF Others, Started
      <4>2. ASSUME NEW o \in Requests, req'[o].proc = req'[p].proc PROVE o = p
        <5>1. o # q
          BY <2>1, <2>3, <4>1, <4>2
        <5>2. req[o].proc = req[p].proc
          BY <2>1, <4>1, <4>2, <5>1 DEF Others
        <5> QED
          BY <1>0, <4>1, <5>2 DEF OneRunEach
      <4>3. ASSUME NEW r \in Runs, NEW o \in Requests
            PROVE  /\ record'[r].proc # req'[p].proc
                   /\ req'[o].was[r].proc # req'[p].proc
                   /\ req'[o].now[r].proc = req'[p].proc => o = p /\ r = req'[p].run /\ req'[p].at = "reply"
        <5>1. /\ record[r].proc # req[p].proc /\ req[o].was[r].proc # req[p].proc
              /\ req[o].now[r].proc = req[p].proc => o = p /\ r = req[p].run /\ req[p].at = "reply"
          BY <1>0, <4>1, OneRun
        <5> QED
          BY <2>1, <2>2, <4>1, <5>1
      <4> QED
        BY <4>2, <4>3
    <3> QED
      BY <3>1, <3>2
  <2> QED
    BY <2>5, <2>6 DEF OneRunEach
<1>10. ASSUME NEW q \in Requests, Serve(q) PROVE OneRunEach'
  <2>1. /\ Others(q) /\ req'[q].was = req[q].was /\ req'[q].proc = req[q].proc
        /\ req'[q].run = req[q].run /\ req'[q].at = "reply" /\ record' = record /\ req[q].at = "check"
    BY <1>0, <1>10, AfterServe DEF Serve
  <2>2. Started(q)
    BY <1>0, <2>1 DEF PhasesFit, Fits
  <2>3. \A r \in Runs : r \notin {req[q].run} => req'[q].now[r] = req[q].now[r]
    BY <1>0, <1>10, AfterServe
  <2>4. req[q].run \in Runs /\ req'[q].now[req[q].run].proc = req[q].proc
    BY <1>0, <1>10, AfterServe, PreviewFields
  <2>5. ASSUME NEW r \in Runs PROVE req[q].proc \notin Names(r)
    <3>1. record[r].proc # req[q].proc
      BY <1>0, <2>2, OneRun
    <3>2. \A o \in Requests : req[o].was[r].proc # req[q].proc /\ req[o].now[r].proc # req[q].proc
      BY <1>0, <2>1, <2>2, OneRun
    <3> QED
      BY <3>1, <3>2, NamesOf
  <2>6. ASSUME NEW r \in Runs, NEW n \in Names(r)', n # req[q].proc PROVE n \in Names(r)
    <3>1. n # NoProcess
      BY <2>6, NamesNext
    <3>2. CASE n = record'[r].proc
      BY <2>1, <3>1, <3>2, NamesOf
    <3>3. ASSUME NEW p \in Requests, n = req'[p].was[r].proc \/ n = req'[p].now[r].proc
          PROVE  n \in Names(r)
      <4>1. CASE p = q
        <5>1. n = req[q].was[r].proc \/ n = req[q].now[r].proc
          BY <2>1, <2>3, <2>4, <2>6, <3>3, <4>1
        <5> QED
          BY <3>1, <5>1, NamesOf
      <4>2. CASE p # q
        BY <2>1, <3>1, <3>3, <4>2, NamesOf DEF Others
      <4> QED
        BY <4>1, <4>2
    <3> QED
      BY <2>6, <3>2, <3>3, NamesNext
  <2>7. ASSUME NEW r \in Runs, req[q].proc \in Names(r)' PROVE r = req[q].run
    <3> SUFFICES ASSUME r # req[q].run PROVE FALSE
      OBVIOUS
    <3>1. req'[q].now[r] = req[q].now[r]
      BY <2>3
    <3>2. \A p \in Requests : req'[p].was[r] = req[p].was[r] /\ req'[p].now[r] = req[p].now[r]
      BY <2>1, <3>1 DEF Others
    <3>3. req[q].proc \in Names(r)
      BY <2>1, <2>7, <3>2, NamesOf, NamesNext
    <3> QED
      BY <2>5, <3>3
  <2>8. ASSUME NEW r \in Runs, NEW s \in Runs, (Names(r) \cap Names(s))' # {} PROVE r = s
    <3>1. PICK n : n \in Names(r)' /\ n \in Names(s)'
      BY <2>8
    <3> QED
      BY <1>c, <2>6, <2>7, <3>1
  <2>9. ASSUME NEW p \in Requests, Started(p)'
        PROVE  /\ \A o \in Requests : req'[o].proc = req'[p].proc => o = p
               /\ \A r \in Runs :
                     /\ record'[r].proc # req'[p].proc
                     /\ \A o \in Requests :
                           /\ req'[o].was[r].proc # req'[p].proc
                           /\ req'[o].now[r].proc = req'[p].proc =>
                                 o = p /\ r = req'[p].run /\ req'[p].at = "reply"
    <3>1. /\ Started(p) /\ req'[p].proc = req[p].proc /\ req'[p].run = req[p].run
          /\ req[p].at = "reply" => req'[p].at = "reply"
      BY <2>1, <2>9 DEF Others, Started
    <3>2. \A o \in Requests : req'[o].proc = req[o].proc
      BY <2>1 DEF Others
    <3>3. ASSUME NEW r \in Runs, NEW o \in Requests
          PROVE  /\ record'[r].proc # req'[p].proc
                 /\ req'[o].was[r].proc # req'[p].proc
                 /\ req'[o].now[r].proc = req'[p].proc => o = p /\ r = req'[p].run /\ req'[p].at = "reply"
      <4>1. /\ record[r].proc # req[p].proc /\ req[o].was[r].proc # req[p].proc
            /\ req[o].now[r].proc = req[p].proc => o = p /\ r = req[p].run /\ req[p].at = "reply"
        BY <1>0, <3>1, OneRun
      <4>2. req'[o].was[r] = req[o].was[r]
        BY <2>1 DEF Others
      <4>3. CASE o = q /\ r = req[q].run
        BY <1>0, <2>1, <2>4, <3>1, <4>1, <4>2, <4>3 DEF OneRunEach
      <4>4. CASE ~(o = q /\ r = req[q].run)
        <5>1. req'[o].now[r] = req[o].now[r]
          BY <2>1, <2>3, <4>4 DEF Others
        <5> QED
          BY <2>1, <3>1, <4>1, <4>2, <5>1
      <4> QED
        BY <4>3, <4>4
    <3> QED
      BY <1>0, <3>1, <3>2, <3>3 DEF OneRunEach
  <2> QED
    BY <2>8, <2>9 DEF OneRunEach
<1>11. ASSUME NEW q \in Requests, Commit(q) PROVE OneRunEach'
  <2>1. req'[q] = Idle /\ \A r \in Runs : record'[r] = req[q].now[r] \/ record'[r] = record[r]
    BY <1>0, <1>11, AfterCommit
  <2>2. \A p \in Requests : p # q =>
           /\ req'[p].at = req[p].at /\ req'[p].run = req[p].run /\ req'[p].proc = req[p].proc
           /\ req'[p].was = req[p].was /\ req'[p].now = req[p].now
    BY <1>0, <1>11, AfterCommit
  <2>3. ASSUME NEW r \in Runs, NEW n \in Names(r)' PROVE n \in Names(r)
    <3>1. n # NoProcess
      BY <2>3, NamesNext
    <3>2. CASE n = record'[r].proc
      BY <2>1, <3>1, <3>2, NamesOf
    <3>3. ASSUME NEW p \in Requests, n = req'[p].was[r].proc \/ n = req'[p].now[r].proc
          PROVE  n \in Names(r)
      <4>1. CASE p = q
        BY <1>b, <2>1, <3>1, <3>3, <4>1, IdleFields
      <4>2. CASE p # q
        BY <2>2, <3>1, <3>3, <4>2, NamesOf
      <4> QED
        BY <4>1, <4>2
    <3> QED
      BY <2>3, <3>2, <3>3, NamesNext
  <2>4. ASSUME NEW r \in Runs, NEW s \in Runs, (Names(r) \cap Names(s))' # {} PROVE r = s
    BY <1>c, <2>3, <2>4
  <2>5. ASSUME NEW p \in Requests, Started(p)'
        PROVE  /\ \A o \in Requests : req'[o].proc = req'[p].proc => o = p
               /\ \A r \in Runs :
                     /\ record'[r].proc # req'[p].proc
                     /\ \A o \in Requests :
                           /\ req'[o].was[r].proc # req'[p].proc
                           /\ req'[o].now[r].proc = req'[p].proc =>
                                 o = p /\ r = req'[p].run /\ req'[p].at = "reply"
    <3>1. p # q
      BY <2>1, <2>5, IdleFields DEF Started
    <3>2. Started(p) /\ req'[p].proc = req[p].proc /\ req'[p].run = req[p].run /\ req'[p].at = req[p].at
      BY <2>2, <2>5, <3>1 DEF Started
    <3>3. ASSUME NEW o \in Requests, req'[o].proc = req'[p].proc PROVE o = p
      <4>1. o # q
        BY <2>1, <2>5, <3>3, IdleFields DEF Started
      <4> QED
        BY <1>0, <2>2, <3>2, <3>3, <4>1 DEF OneRunEach
    <3>4. ASSUME NEW r \in Runs, NEW o \in Requests
          PROVE  /\ record'[r].proc # req'[p].proc
                 /\ req'[o].was[r].proc # req'[p].proc
                 /\ req'[o].now[r].proc = req'[p].proc => o = p /\ r = req'[p].run /\ req'[p].at = "reply"
      <4>1. /\ record[r].proc # req[p].proc /\ req[o].was[r].proc # req[p].proc
            /\ req[o].now[r].proc = req[p].proc => o = p /\ r = req[p].run /\ req[p].at = "reply"
            /\ req[q].now[r].proc # req[p].proc
        BY <1>0, <3>1, <3>2, OneRun
      <4>2. CASE o = q
        BY <1>b, <2>1, <3>2, <4>1, <4>2, IdleFields DEF Started
      <4>3. CASE o # q
        BY <2>1, <2>2, <3>2, <4>1, <4>3
      <4> QED
        BY <4>2, <4>3
    <3> QED
      BY <3>3, <3>4
  <2> QED
    BY <2>4, <2>5 DEF OneRunEach
<1>12. ASSUME NEW r \in Runs, Look(r) \/ Expire(r) PROVE OneRunEach'
  BY <1>2, <1>12 DEF Look, Expire
<1>13. ASSUME NEW n \in alive, Exit(n) PROVE OneRunEach'
  BY <1>2, <1>13 DEF Exit
<1>14. CASE UNCHANGED vars
  BY <1>2, <1>14 DEF vars
<1> QED
  BY StepCases, <1>3, <1>4, <1>5, <1>6, <1>7, <1>8, <1>9, <1>10, <1>11, <1>12, <1>13, <1>14

-----------------------------------------------------------------------------
(* Processes are recorded, under way or known to be astray.                *)

LEMMA LeakStep == ASSUME PreviewInv, [Next]_vars PROVE NothingLeaks'
<1>0. TypeOK /\ PhasesFit /\ DeadStaysDead /\ NothingLeaks
  BY DEF PreviewInv
<1>a. ASSUME NEW n \in alive
      PROVE  \/ \E r \in Runs : record[r].status = "READY" /\ record[r].proc = n
             \/ \E q \in Requests : req[q].proc = n
             \/ n \in astray
  BY <1>0 DEF NothingLeaks, Recorded, UnderWay
<1>b. ASSUME \A n \in alive' :
                \/ \E r \in Runs : record'[r].status = "READY" /\ record'[r].proc = n
                \/ \E q \in Requests : req'[q].proc = n
                \/ n \in astray'
      PROVE  NothingLeaks'
  BY <1>b DEF NothingLeaks, Recorded, UnderWay
<1>c. NoProcess \notin alive
  BY <1>0, Numbers
<1>1. ASSUME record' = record, astray \subseteq astray', alive' \subseteq alive,
             \A p \in Requests : \/ req'[p].proc = req[p].proc
                                 \/ req[p].proc \notin alive'
                                 \/ req[p].proc \in astray'
      PROVE  NothingLeaks'
  <2>1. ASSUME NEW n \in alive'
        PROVE  \/ \E r \in Runs : record'[r].status = "READY" /\ record'[r].proc = n
               \/ \E q \in Requests : req'[q].proc = n
               \/ n \in astray'
    BY <1>1, <1>a, <2>1
  <2> QED
    BY <1>b, <2>1
<1>2. ASSUME NEW q \in Requests, Others(q), record' = record, astray' = astray, alive' \subseteq alive,
             req'[q].proc = req[q].proc \/ req[q].proc = NoProcess
      PROVE  NothingLeaks'
  <2>1. \A p \in Requests : req'[p].proc = req[p].proc \/ req[p].proc \notin alive'
    BY <1>2, <1>c DEF Others
  <2> QED
    BY <1>1, <1>2, <2>1
<1>3. ASSUME NEW q \in Requests, NEW r \in Runs, Launch(q, r) PROVE NothingLeaks'
  <2>1. req[q].at = "idle" /\ record' = record /\ astray' = astray /\ alive' \subseteq alive
    BY <1>3 DEF Launch
  <2>2. req[q].proc = NoProcess
    BY <1>0, <2>1, IdleFields DEF PhasesFit, Fits
  <2> QED
    BY <1>0, <1>2, <1>3, <2>1, <2>2, AfterLaunch
<1>4. ASSUME NEW q \in Requests, NEW r \in Runs, Stop(q, r) \/ Discard(q, r) PROVE NothingLeaks'
  <2>1. /\ req[q].at = "idle" /\ record' = record /\ astray' = astray /\ Others(q)
        /\ alive' = alive \ {record[r].proc}
    BY <1>0, <1>4, AfterKilling
  <2>2. req[q].proc = NoProcess
    BY <1>0, <2>1, IdleFields DEF PhasesFit, Fits
  <2> QED
    BY <1>2, <2>1, <2>2
<1>5. ASSUME NEW q \in Requests, Lock(q) \/ ReadRun(q) \/ Reuse(q) \/ Clear(q) \/ Serve(q)
      PROVE  NothingLeaks'
  <2>1. record' = record /\ astray' = astray /\ alive' \subseteq alive
    BY <1>5 DEF Lock, ReadRun, Reuse, Clear, Serve
  <2>2. Others(q) /\ req'[q].proc = req[q].proc
    BY <1>0, <1>5, AfterLock, AfterReadRun, AfterReuse, AfterClear, AfterServe
  <2> QED
    BY <1>2, <2>1, <2>2
<1>6. ASSUME NEW q \in Requests, Start(q) PROVE NothingLeaks'
  <2>1. /\ record' = record /\ astray' = astray /\ alive' = alive \cup {starts'} /\ req[q].at = "build"
        /\ req'[q].proc = starts' /\ Others(q)
    BY <1>0, <1>6, AfterStart DEF Start
  <2>2. req[q].proc = NoProcess
    BY <1>0, <2>1 DEF PhasesFit, Fits, Started
  <2>3. ASSUME NEW n \in alive'
        PROVE  \/ \E r \in Runs : record'[r].status = "READY" /\ record'[r].proc = n
               \/ \E p \in Requests : req'[p].proc = n
               \/ n \in astray'
    <3>1. CASE n = starts'
      BY <2>1, <3>1
    <3>2. CASE n \in alive
      BY <1>a, <1>c, <2>1, <2>2, <3>2 DEF Others
    <3> QED
      BY <2>1, <3>1, <3>2
  <2> QED
    BY <1>b, <2>3
<1>7. ASSUME NEW q \in Requests, Drop(q), Others(q), req'[q] = Idle PROVE NothingLeaks'
  BY <1>1, <1>7 DEF Drop, Others
<1>8. ASSUME NEW q \in Requests, Commit(q) PROVE NothingLeaks'
  <2>1. /\ alive' = alive /\ astray' = astray \cup (alive \cap {record[r].proc : r \in Crossed(q)})
        /\ req[q].at = "reply"
    BY <1>8 DEF Commit
  <2>2. \A p \in Requests : p # q => req'[p].proc = req[p].proc
    BY <1>0, <1>8, AfterCommit
  <2>3. \A r \in Runs : record'[r] = IF r \in req[q].wrote THEN req[q].now[r] ELSE record[r]
    BY <1>0, <1>8, AfterCommit
  <2>4. req[q].run \in Runs
    BY <1>0, <1>8, AfterCommit
  <2>5. ASSUME NEW n \in alive
        PROVE  \/ \E r \in Runs : record'[r].status = "READY" /\ record'[r].proc = n
               \/ \E p \in Requests : req'[p].proc = n
               \/ n \in astray'
    <3>1. ASSUME NEW r \in Runs, record[r].status = "READY", record[r].proc = n
          PROVE  (record'[r].status = "READY" /\ record'[r].proc = n) \/ n \in astray'
      <4>1. CASE r \notin req[q].wrote
        BY <2>3, <3>1, <4>1
      <4>2. CASE r \in Crossed(q)
        BY <2>1, <2>5, <3>1, <4>2
      <4>3. CASE r \in req[q].wrote /\ r \notin Crossed(q)
        <5>1. record[r] = req[q].was[r] /\ record'[r] = req[q].now[r]
          BY <2>3, <4>3 DEF Crossed
        <5>2. r \notin Changed(q)
          BY <1>0, <2>5, <3>1, <5>1 DEF DeadStaysDead
        <5>3. req[q].now[r] = req[q].was[r]
          BY <4>3, <5>2 DEF Changed
        <5> QED
          BY <3>1, <5>1, <5>3
      <4> QED
        BY <4>1, <4>2, <4>3
    <3>2. ASSUME req[q].proc = n
          PROVE  record'[req[q].run].status = "READY" /\ record'[req[q].run].proc = n
      <4>1. Started(q)
        BY <1>c, <2>5, <3>2 DEF Started
      <4>2. req[q].now[req[q].run] = Preview("READY", n) /\ req[q].run \in req[q].wrote
        BY <1>0, <2>1, <3>2, <4>1 DEF PhasesFit, Fits
      <4> QED
        BY <2>3, <2>4, <4>2, PreviewFields
    <3> QED
      BY <1>a, <2>1, <2>2, <2>4, <2>5, <3>1, <3>2
  <2> QED
    BY <1>b, <2>1, <2>5
<1>9. ASSUME NEW r \in Runs, Look(r) \/ Expire(r) PROVE NothingLeaks'
  BY <1>1, <1>9 DEF Look, Expire
<1>10. ASSUME NEW n \in alive, Exit(n) PROVE NothingLeaks'
  BY <1>1, <1>10 DEF Exit
<1>11. CASE UNCHANGED vars
  BY <1>1, <1>11 DEF vars
<1> QED
  BY StepCases, <1>3, <1>4, <1>5, <1>6, <1>7, <1>8, <1>9, <1>10, <1>11

-----------------------------------------------------------------------------
(* A record that says READY tells of a process that runs, is being killed  *)
(* by a request under way, or is known to be gone.                         *)

\* What a request kills stays listed while its session has it.
LEMMA KilledStays ==
  ASSUME NEW q \in Requests, due' = due,
         \A r \in Changed(q) : /\ r \in Changed(q)' /\ req'[q].was[r] = req[q].was[r]
  PROVE  Killed(q) \subseteq Killed(q)'
  BY DEF Killed, IsActive

LEMMA OtherKilled ==
  ASSUME NEW p \in Requests, due' = due, req'[p].wrote = req[p].wrote,
         req'[p].was = req[p].was, req'[p].now = req[p].now
  PROVE  Killed(p)' = Killed(p)
  BY DEF Killed, Changed, IsActive

LEMMA ServedStep == ASSUME PreviewInv, [Next]_vars PROVE ReadyIsServed'
<1>0. TypeOK /\ PhasesFit /\ DeadStaysDead /\ ReadyIsServed /\ ReadyIsAProcess /\ OneRunEach
  BY DEF PreviewInv
<1>b. NoPreview.status = "NONE" /\ NoPreview.proc = NoProcess
  BY DEF NoPreview, Preview
<1>a. ASSUME NEW r \in Runs, IsActive(record[r]), record[r].proc \notin alive, record[r].proc \notin gone
      PROVE  \E q \in Requests : record[r].proc \in Killed(q)
  BY <1>0, <1>a DEF ReadyIsServed, BeingKilled
<1>c. ASSUME NEW r \in Runs, NEW s \in Runs, NEW q \in Requests, IsActive(record[r]),
             record[r].proc = record[s].proc \/ record[r].proc = req[q].was[s].proc
                                             \/ record[r].proc = req[q].now[s].proc
      PROVE  r = s
  <2>1. record[r].proc # NoProcess
    BY <1>0, <1>c DEF ReadyIsAProcess, IsActive
  <2>2. record[r].proc \in Names(r) /\ record[r].proc \in Names(s)
    BY <1>c, <2>1, NamesOf
  <2> QED
    BY <1>0, <2>2 DEF OneRunEach
\* Records and expiry unchanged: what was served is, or is being killed.
<1>1. ASSUME record' = record, due' = due, gone \subseteq gone',
             \A q \in Requests : Killed(q) \subseteq Killed(q)' \cup gone',
             \A r \in Runs : IsActive(record[r]) /\ record[r].proc \in alive =>
                \/ record[r].proc \in alive' \cup gone'
                \/ \E q \in Requests : record[r].proc \in Killed(q)'
      PROVE  ReadyIsServed'
  <2> SUFFICES ASSUME NEW r \in Runs, IsActive(record[r])
               PROVE  \/ record[r].proc \in alive' \cup gone'
                      \/ \E q \in Requests : record[r].proc \in Killed(q)'
    BY <1>1 DEF ReadyIsServed, BeingKilled, IsActive
  <2>1. CASE record[r].proc \in alive
    BY <1>1, <2>1
  <2>2. CASE record[r].proc \in gone
    BY <1>1, <2>2
  <2>3. CASE record[r].proc \notin alive /\ record[r].proc \notin gone
    BY <1>1, <1>a, <2>3
  <2> QED
    BY <2>1, <2>2, <2>3
\* The same for the step of one request.
<1>2. ASSUME NEW q \in Requests, Others(q), record' = record, due' = due, gone \subseteq gone',
             Killed(q) \subseteq Killed(q)' \cup gone',
             \A r \in Runs : IsActive(record[r]) /\ record[r].proc \in alive =>
                record[r].proc \in alive' \cup gone' \cup Killed(q)'
      PROVE  ReadyIsServed'
  <2>1. \A p \in Requests : Killed(p) \subseteq Killed(p)' \cup gone'
    <3> TAKE p \in Requests
    <3>1. CASE p = q
      BY <1>2, <3>1
    <3>2. CASE p # q
      <4>1. req'[p] = req[p]
        BY <1>2, <3>2 DEF Others
      <4> QED
        BY <1>2, <4>1, OtherKilled
    <3> QED
      BY <3>1, <3>2
  <2> QED
    BY <1>1, <1>2, <2>1
<1>d. ASSUME NEW q \in Requests, req[q].at = "idle" PROVE Killed(q) = {}
  <2>1. req[q] = Idle
    BY <1>0, <1>d DEF PhasesFit, Fits
  <2> QED
    BY <2>1, IdleFields DEF Killed, Changed
<1>3. ASSUME NEW q \in Requests, NEW r \in Runs, Launch(q, r) PROVE ReadyIsServed'
  <2>1. /\ req[q].at = "idle" /\ record' = record /\ due' = due /\ gone' = gone
        /\ alive' = alive \ {record[s].proc : s \in Expired}
    BY <1>3 DEF Launch
  <2>2. \A s \in Expired : record[s].proc \in due
    BY DEF Expired
  <2>3. \A s \in Runs : IsActive(record[s]) /\ record[s].proc \in alive => record[s].proc \in alive'
    BY <2>1, <2>2 DEF IsActive
  <2>4. Others(q) /\ Killed(q) = {}
    BY <1>0, <1>3, <1>d, <2>1, AfterLaunch
  <2> QED
    BY <1>2, <2>1, <2>3, <2>4
<1>4. ASSUME NEW q \in Requests, NEW r \in Runs, Stop(q, r) \/ Discard(q, r) PROVE ReadyIsServed'
  <2>1. /\ req[q].at = "idle" /\ record' = record /\ due' = due /\ gone' = gone /\ Others(q)
        /\ Struck(q, r) /\ req'[q].wrote = {r} /\ alive' = alive \ {record[r].proc}
    BY <1>0, <1>4, AfterKilling
  <2>2. ASSUME NEW s \in Runs, IsActive(record[s]), record[s].proc \in alive, record[s].proc \notin alive'
        PROVE  record[s].proc \in Killed(q)'
    <3>1. s = r
      BY <1>c, <2>1, <2>2
    <3>2. req'[q].was[r] = record[r] /\ req'[q].now[r] = Preview("STOPPED", record[r].proc)
      BY <2>1 DEF Struck
    <3>3. req'[q].now[r] # req'[q].was[r]
      BY <2>2, <3>1, <3>2, PreviewFields DEF IsActive
    <3>4. r \in Changed(q)'
      BY <2>1, <3>3 DEF Changed
    <3> QED
      BY <2>1, <2>2, <3>1, <3>2, <3>4 DEF Killed, IsActive
  <2>3. Killed(q) = {}
    BY <1>d, <2>1
  <2> QED
    BY <1>2, <2>1, <2>2, <2>3
<1>5. ASSUME NEW q \in Requests, Lock(q) \/ Start(q) PROVE ReadyIsServed'
  <2>1. record' = record /\ due' = due /\ gone' = gone /\ alive \subseteq alive'
    BY <1>5 DEF Lock, Start
  <2>2. /\ Others(q) /\ req'[q].wrote = req[q].wrote
        /\ req'[q].was = req[q].was /\ req'[q].now = req[q].now
    BY <1>0, <1>5, AfterLock, AfterStart
  <2>3. Killed(q)' = Killed(q)
    BY <2>1, <2>2, OtherKilled
  <2> QED
    BY <1>2, <2>1, <2>2, <2>3
<1>6. ASSUME NEW q \in Requests, ReadRun(q) PROVE ReadyIsServed'
  <2>1. record' = record /\ due' = due /\ gone' = gone /\ alive' = alive
    BY <1>6 DEF ReadRun
  <2>2. Others(q) /\ req'[q].wrote = req[q].wrote
    BY <1>0, <1>6, AfterReadRun
  <2>3. ASSUME NEW s \in Changed(q) PROVE s \in Changed(q)' /\ req'[q].was[s] = req[q].was[s]
    <3>1. s \in req[q].wrote /\ s \in Runs /\ req[q].now[s] # req[q].was[s]
      BY <1>0, RequestFields DEF Changed
    <3>2. req'[q].was[s] = req[q].was[s] /\ req'[q].now[s] = req[q].now[s]
      BY <1>0, <1>6, <3>1, AfterReadRun
    <3> QED
      BY <2>2, <3>1, <3>2 DEF Changed
  <2>4. Killed(q) \subseteq Killed(q)'
    BY <2>1, <2>3, KilledStays
  <2> QED
    BY <1>2, <2>1, <2>2, <2>4
<1>7. ASSUME NEW q \in Requests, Reuse(q) PROVE ReadyIsServed'
  <2>1. record' = record /\ due' = due /\ gone' = gone /\ alive' = alive
    BY <1>7 DEF Reuse
  <2>2. /\ Others(q) /\ req'[q].wrote = req[q].wrote \cup {req[q].run}
        /\ req'[q].was = req[q].was /\ req'[q].now = req[q].now
    BY <1>0, <1>7, AfterReuse
  <2>3. \A s \in Changed(q) : s \in Changed(q)' /\ req'[q].was[s] = req[q].was[s]
    BY <2>2 DEF Changed
  <2>4. Killed(q) \subseteq Killed(q)'
    BY <2>1, <2>3, KilledStays
  <2> QED
    BY <1>2, <2>1, <2>2, <2>4
<1>8. ASSUME NEW q \in Requests, Clear(q) PROVE ReadyIsServed'
  <2> DEFINE r == req[q].run
  <2>1. /\ record' = record /\ due' = due /\ gone' = gone /\ req[q].at = "decide"
        /\ alive' = alive \ {req[q].now[r].proc}
    BY <1>8 DEF Clear
  <2>2. /\ Others(q) /\ r \in Runs /\ req'[q].wrote = req[q].wrote \cup {r} /\ req'[q].was = req[q].was
    BY <1>0, <1>8, AfterClear
  <2>3. req[q].now[r].proc = req[q].was[r].proc
    BY <1>0, <2>1 DEF PhasesFit, Fits
  <2>4. ASSUME NEW s \in Runs PROVE req'[q].now[s] = IF s = r THEN NoPreview ELSE req[q].now[s]
    BY <1>0, <1>8, AfterClear
  <2>5. r \in Changed(q)' \/ req[q].was[r] = NoPreview
    BY <2>2, <2>4 DEF Changed
  <2>6. ASSUME NEW s \in Runs, IsActive(record[s]), record[s].proc \in alive, record[s].proc \notin alive'
        PROVE  record[s].proc \in Killed(q)'
    <3>1. record[s].proc = req[q].now[r].proc /\ record[s].proc = req[q].was[r].proc
      BY <2>1, <2>3, <2>6
    <3>2. req[q].was[r].status = "READY"
      BY <1>0, <2>2, <2>6, <3>1 DEF DeadStaysDead
    <3>3. r \in Changed(q)'
      BY <1>b, <2>5, <3>2
    <3> QED
      BY <2>1, <2>2, <2>6, <3>1, <3>2, <3>3 DEF Killed, IsActive
  <2>7. Killed(q) \subseteq Killed(q)'
    <3> SUFFICES ASSUME NEW s \in Changed(q), IsActive(req[q].was[s])
                 PROVE  req[q].was[s].proc \in Killed(q)'
      BY DEF Killed
    <3>1. s \in req[q].wrote /\ s \in Runs /\ req[q].now[s] # req[q].was[s]
      BY <1>0, RequestFields DEF Changed
    <3>2. s \in Changed(q)'
      <4>1. CASE s = r
        <5>1. req[q].was[s] # NoPreview
          BY <1>b DEF IsActive
        <5> QED
          BY <2>5, <4>1, <5>1
      <4>2. CASE s # r
        BY <2>2, <2>4, <3>1, <4>2 DEF Changed
      <4> QED
        BY <4>1, <4>2
    <3> QED
      BY <2>1, <2>2, <3>2 DEF Killed, IsActive
  <2> QED
    BY <1>2, <2>1, <2>2, <2>6, <2>7
<1>9. ASSUME NEW q \in Requests, Serve(q) PROVE ReadyIsServed'
  <2> DEFINE r == req[q].run
  <2>1. record' = record /\ due' = due /\ gone' = gone /\ alive' = alive /\ req[q].at = "check"
    BY <1>9 DEF Serve
  <2>2. Others(q) /\ r \in Runs /\ req'[q].wrote = req[q].wrote /\ req'[q].was = req[q].was
    BY <1>0, <1>9, AfterServe
  <2>3. ASSUME NEW s \in Runs
        PROVE  req'[q].now[s] = IF s = r THEN Preview("READY", req[q].proc) ELSE req[q].now[s]
    BY <1>0, <1>9, AfterServe
  <2>4. Started(q)
    BY <1>0, <2>1 DEF PhasesFit, Fits
  <2>5. ASSUME NEW s \in Changed(q) PROVE s \in Changed(q)' /\ req'[q].was[s] = req[q].was[s]
    <3>1. s \in req[q].wrote /\ s \in Runs /\ req[q].now[s] # req[q].was[s]
      BY <1>0, RequestFields DEF Changed
    <3>2. req[q].was[s].proc # req[q].proc
      BY <1>0, <2>4, <3>1, OneRun
    <3>3. req'[q].now[s] # req[q].was[s]
      BY <2>3, <3>1, <3>2, PreviewFields
    <3> QED
      BY <2>2, <3>1, <3>3 DEF Changed
  <2>6. Killed(q) \subseteq Killed(q)'
    BY <2>1, <2>5, KilledStays
  <2> QED
    BY <1>2, <2>1, <2>2, <2>6
<1>10. ASSUME NEW q \in Requests, Drop(q), Others(q), req'[q] = Idle PROVE ReadyIsServed'
  <2>1. ASSUME NEW r \in Runs, IsActive(record[r]), record[r].proc \in alive
        PROVE  record[r].proc \in alive'
    <3>1. record[r].proc # NoProcess
      BY <1>0, <2>1 DEF ReadyIsAProcess, IsActive
    <3>2. record[r].proc # req[q].proc
      BY <1>0, <3>1, OneRun DEF Started
    <3> QED
      BY <1>10, <2>1, <3>2 DEF Drop
  <2>2. Killed(q) \subseteq gone'
    BY <1>10 DEF Drop
  <2> QED
    BY <1>2, <1>10, <2>1, <2>2 DEF Drop
<1>11. ASSUME NEW q \in Requests, Commit(q) PROVE ReadyIsServed'
  <2> DEFINE run == req[q].run
  <2>1. /\ alive' = alive /\ due' = due /\ req[q].at = "reply"
        /\ gone' = gone \cup {req[q].now[r].proc : r \in Crossed(q) \ Changed(q)}
    BY <1>11 DEF Commit
  <2>2. \A p \in Requests : p # q => /\ req'[p].wrote = req[p].wrote
                                     /\ req'[p].was = req[p].was /\ req'[p].now = req[p].now
    BY <1>0, <1>11, AfterCommit
  <2>3. \A r \in Runs : record'[r] = IF r \in req[q].wrote THEN req[q].now[r] ELSE record[r]
    BY <1>0, <1>11, AfterCommit
  <2>4. \A p \in Requests : p # q => Killed(p)' = Killed(p)
    BY <2>1, <2>2, OtherKilled
  <2>5. ASSUME NEW r \in Runs, IsActive(record[r]), r \notin Changed(q)
        PROVE  \/ record[r].proc \in alive' \cup gone'
               \/ \E p \in Requests : record[r].proc \in Killed(p)'
    <3>1. record[r].proc \notin Killed(q)
      <4> SUFFICES ASSUME NEW s \in Changed(q), record[r].proc = req[q].was[s].proc PROVE FALSE
        BY DEF Killed
      <4>1. s \in Runs
        BY <1>0, RequestFields DEF Changed
      <4>2. r = s
        BY <1>c, <2>5, <4>1
      <4> QED
        BY <2>5, <4>2
    <3>2. \/ record[r].proc \in alive \cup gone
          \/ \E p \in Requests : record[r].proc \in Killed(p)
      BY <1>a, <2>5
    <3> QED
      BY <2>1, <2>4, <3>1, <3>2
  <2>6. ASSUME NEW r \in Runs, IsActive(record'[r])
        PROVE  \/ record'[r].proc \in alive' \cup gone'
               \/ \E p \in Requests : record'[r].proc \in Killed(p)'
    <3>1. CASE r \notin req[q].wrote
      <4>1. r \notin Changed(q) /\ record'[r] = record[r]
        BY <2>3, <3>1 DEF Changed
      <4> QED
        BY <2>5, <2>6, <4>1
    <3>2. CASE r \in req[q].wrote
      <4>1. record'[r] = req[q].now[r] /\ req[q].now[r].status = "READY"
        BY <2>3, <2>6, <3>2 DEF IsActive
      <4>2. r = run /\ (~Started(q) => req[q].now[r] = req[q].was[r])
        BY <1>0, <3>2, <4>1 DEF PhasesFit, Fits
      <4>3. CASE Started(q)
        <5>1. req[q].now[r] = Preview("READY", req[q].proc) /\ req[q].proc \in alive \cup gone
          BY <1>0, <2>1, <4>2, <4>3 DEF PhasesFit, Fits
        <5> QED
          BY <2>1, <4>1, <5>1, PreviewFields
      <4>4. CASE ~Started(q) /\ r \in Crossed(q)
        <5>1. r \notin Changed(q)
          BY <4>2, <4>4 DEF Changed
        <5> QED
          BY <2>1, <4>1, <4>4, <5>1
      <4>5. CASE ~Started(q) /\ r \notin Crossed(q)
        <5>1. r \notin Changed(q) /\ record'[r] = record[r]
          BY <3>2, <4>1, <4>2, <4>5 DEF Changed, Crossed
        <5> QED
          BY <2>5, <2>6, <5>1
      <4> QED
        BY <4>3, <4>4, <4>5
    <3> QED
      BY <3>1, <3>2
  <2>7. ASSUME NEW r \in Runs, IsActive(record[r])' PROVE IsActive(record'[r])
    BY <2>1, <2>7 DEF IsActive
  <2> QED
    BY <2>6, <2>7 DEF ReadyIsServed, BeingKilled
<1>12. ASSUME NEW r \in Runs, Look(r) PROVE ReadyIsServed'
  <2>1. /\ record' = record /\ due' = due /\ gone' = gone /\ req' = req
        /\ record[r].proc \in due /\ alive' = alive \ {record[r].proc}
    BY <1>12 DEF Look
  <2>2. \A q \in Requests : Killed(q)' = Killed(q)
    BY <2>1, OtherKilled
  <2>3. \A s \in Runs : IsActive(record[s]) /\ record[s].proc \in alive => record[s].proc \in alive'
    BY <2>1 DEF IsActive
  <2> QED
    BY <1>1, <2>1, <2>2, <2>3
<1>13. ASSUME NEW r \in Runs, Expire(r) PROVE ReadyIsServed'
  <2>1. /\ record' = record /\ due' = due \cup {record[r].proc} /\ gone' = gone /\ req' = req
        /\ alive' = alive
    BY <1>13 DEF Expire
  <2> SUFFICES ASSUME NEW s \in Runs, IsActive(record[s])'
               PROVE  \/ record[s].proc \in alive \cup gone
                      \/ \E q \in Requests : record[s].proc \in Killed(q)'
    BY <2>1 DEF ReadyIsServed, BeingKilled
  <2>2. IsActive(record[s]) /\ record[s].proc \notin due'
    BY <2>1 DEF IsActive
  <2>3. ASSUME NEW q \in Requests, record[s].proc \in Killed(q) PROVE record[s].proc \in Killed(q)'
    BY <2>1, <2>2, <2>3 DEF Killed, Changed, IsActive
  <2> QED
    BY <1>a, <2>2, <2>3
<1>14. ASSUME NEW n \in alive, Exit(n) PROVE ReadyIsServed'
  <2>1. /\ record' = record /\ due' = due /\ gone' = gone \cup {n} /\ req' = req
        /\ alive' = alive \ {n}
    BY <1>14 DEF Exit
  <2>2. \A q \in Requests : Killed(q)' = Killed(q)
    BY <2>1, OtherKilled
  <2> QED
    BY <1>1, <2>1, <2>2
<1>15. CASE UNCHANGED vars
  <2>1. record' = record /\ due' = due /\ gone' = gone /\ req' = req /\ alive' = alive
    BY <1>15 DEF vars
  <2>2. \A q \in Requests : Killed(q)' = Killed(q)
    BY <2>1, OtherKilled
  <2> QED
    BY <1>1, <2>1, <2>2
<1> QED
  BY StepCases, <1>3, <1>4, <1>5, <1>6, <1>7, <1>8, <1>9, <1>10, <1>11, <1>12, <1>13, <1>14, <1>15

-----------------------------------------------------------------------------
(* The limit of previews.                                                  *)

LEMMA Counting ==
  ASSUME NEW A, NEW B \in SUBSET Runs, A \subseteq B
  PROVE  Cardinality(A) \in Nat /\ Cardinality(B) \in Nat /\ Cardinality(A) <= Cardinality(B)
<1>1. IsFiniteSet(B)
  BY ConstantsAssumption, FS_Subset
<1>2. IsFiniteSet(A) /\ Cardinality(A) <= Cardinality(B)
  BY <1>1, FS_Subset
<1> QED
  BY <1>1, <1>2, FS_CardinalityType

LEMMA CountingOneMore ==
  ASSUME NEW A \in SUBSET Runs, NEW r \in Runs
  PROVE  Cardinality(A \cup {r}) <= Cardinality(A) + 1 /\ Cardinality(A) \in Nat
                                                     /\ Cardinality(A \cup {r}) \in Nat
<1>1. IsFiniteSet(A)
  BY ConstantsAssumption, FS_Subset
<1>2. /\ IsFiniteSet(A \cup {r})
      /\ Cardinality(A \cup {r}) = IF r \in A THEN Cardinality(A) ELSE Cardinality(A) + 1
  BY <1>1, FS_AddElement
<1>3. Cardinality(A) \in Nat
  BY <1>1, FS_CardinalityType
<1> QED
  BY <1>2, <1>3

LEMMA LimitType == TypeOK => limit \in Nat /\ ActiveRuns \subseteq Runs
  BY ConstantsAssumption DEF TypeOK, ActiveRuns

LEMMA RoomFrame ==
  ASSUME TypeOK, NEW p \in Requests, HasRoom(p), ActiveRuns' \subseteq ActiveRuns, due \subseteq due',
         limit' = limit, req[p].at # "idle",
         req'[p].at = req[p].at, req'[p].run = req[p].run, req'[p].wrote = req[p].wrote,
         req'[p].proc = req[p].proc, req'[p].now = req[p].now, req[p].late => req'[p].late,
         crowded => crowded'
  PROVE  HasRoom(p)'
<1>1. limit \in Nat /\ ActiveRuns \subseteq Runs /\ req[p].run \in Runs
  BY LimitType DEF TypeOK
<1>2. /\ Cardinality(ActiveRuns' \ req[p].wrote) \in Nat /\ Cardinality(ActiveRuns \ req[p].wrote) \in Nat
      /\ Cardinality(ActiveRuns' \ req[p].wrote) <= Cardinality(ActiveRuns \ req[p].wrote)
  <2>1. ActiveRuns' \ req[p].wrote \subseteq ActiveRuns \ req[p].wrote /\ ActiveRuns \ req[p].wrote \in SUBSET Runs
    BY <1>1
  <2> QED
    BY <2>1, Counting
<1>3. /\ Cardinality(ActiveRuns' \cup {req[p].run}) \in Nat /\ Cardinality(ActiveRuns \cup {req[p].run}) \in Nat
      /\ Cardinality(ActiveRuns' \cup {req[p].run}) <= Cardinality(ActiveRuns \cup {req[p].run})
  <2>1. /\ ActiveRuns' \cup {req[p].run} \subseteq ActiveRuns \cup {req[p].run}
        /\ ActiveRuns \cup {req[p].run} \in SUBSET Runs
    BY <1>1
  <2> QED
    BY <2>1, Counting
<1>4. IsActive(req[p].now[req[p].run])' => IsActive(req[p].now[req[p].run])
  BY DEF IsActive
<1>5. Started(p)' = Started(p)
  BY DEF Started
<1> QED
  BY <1>1, <1>2, <1>3, <1>4, <1>5 DEF HasRoom

LEMMA SlotStep == ASSUME PreviewInv, [Next]_vars PROVE SlotsHold' /\ RoomIsLeft'
<1>0. TypeOK /\ PhasesFit /\ SlotsHold /\ RoomIsLeft
  BY DEF PreviewInv
<1>b. NoPreview.status # "READY"
  BY DEF NoPreview, Preview
<1>l. limit \in Nat /\ ActiveRuns \subseteq Runs /\ limit' = limit
  BY <1>0, LimitType DEF Next, vars
<1>1. ASSUME ActiveRuns' \subseteq ActiveRuns, crowded => crowded' PROVE SlotsHold'
  <2>1. /\ Cardinality(ActiveRuns') \in Nat /\ Cardinality(ActiveRuns) \in Nat
        /\ Cardinality(ActiveRuns') <= Cardinality(ActiveRuns)
    BY <1>1, <1>l, Counting
  <2> QED
    BY <1>0, <1>1, <1>l, <2>1 DEF SlotsHold
<1>2. ASSUME NEW p \in Requests, req'[p] = Idle PROVE HasRoom(p)'
  BY <1>2, IdleFields DEF HasRoom, Started
<1>3. ASSUME NEW p \in Requests, req'[p] = req[p], ActiveRuns' \subseteq ActiveRuns, due \subseteq due',
             crowded => crowded'
      PROVE  HasRoom(p)'
  <2>1. CASE req[p].at = "idle"
    <3>1. req'[p] = Idle
      BY <1>0, <1>3, <2>1 DEF PhasesFit, Fits
    <3> QED
      BY <1>2, <3>1
  <2>2. CASE req[p].at # "idle"
    <3>1. HasRoom(p)
      BY <1>0 DEF RoomIsLeft
    <3> QED
      BY <1>0, <1>3, <1>l, <2>2, <3>1, RoomFrame
  <2> QED
    BY <2>1, <2>2
<1>4. ASSUME NEW q \in Requests, Others(q), record' = record, due' = due, crowded' = crowded, HasRoom(q)'
      PROVE  SlotsHold' /\ RoomIsLeft'
  <2>1. ActiveRuns' = ActiveRuns
    BY <1>4 DEF ActiveRuns, IsActive
  <2>2. \A p \in Requests : p # q => HasRoom(p)'
    BY <1>3, <1>4, <2>1 DEF Others
  <2> QED
    BY <1>1, <1>4, <2>1, <2>2 DEF RoomIsLeft
<1>5. ASSUME NEW q \in Requests, NEW r \in Runs, Launch(q, r) PROVE SlotsHold' /\ RoomIsLeft'
  <2>1. Others(q) /\ req'[q].at = "mark" /\ req'[q].proc = NoProcess
    BY <1>0, <1>5, AfterLaunch
  <2>2. HasRoom(q)'
    BY <2>1 DEF HasRoom, Started
  <2> QED
    BY <1>4, <1>5, <2>1, <2>2 DEF Launch
<1>6. ASSUME NEW q \in Requests, NEW r \in Runs, Stop(q, r) \/ Discard(q, r)
      PROVE  SlotsHold' /\ RoomIsLeft'
  <2>1. /\ Others(q) /\ req'[q].at = "reply" /\ req'[q].run = r /\ req'[q].proc = NoProcess
        /\ Struck(q, r) /\ record' = record /\ due' = due /\ crowded' = crowded
    BY <1>0, <1>6, AfterKilling
  <2>2. req'[q].now[r].status # "READY"
    BY <2>1, PreviewFields DEF Struck
  <2>3. HasRoom(q)'
    BY <2>1, <2>2 DEF HasRoom, Started, IsActive
  <2> QED
    BY <1>4, <2>1, <2>3
<1>7. ASSUME NEW q \in Requests, Lock(q) PROVE SlotsHold' /\ RoomIsLeft'
  <2>1. record' = record /\ due' = due /\ crowded' = crowded
    BY <1>7 DEF Lock
  <2>2. /\ Others(q) /\ req'[q].at = req[q].at /\ req'[q].run = req[q].run
        /\ req'[q].wrote = req[q].wrote /\ req'[q].proc = req[q].proc
        /\ req'[q].late = req[q].late /\ req'[q].now = req[q].now
    BY <1>0, <1>7, AfterLock
  <2>3. req[q].at # "idle"
    BY <1>0, <1>7, AfterLock, IdleFields DEF PhasesFit, Fits, Missing
  <2>4. ActiveRuns' = ActiveRuns
    BY <2>1 DEF ActiveRuns, IsActive
  <2>5. HasRoom(q)'
    BY <1>0, <1>l, <2>1, <2>2, <2>3, <2>4, RoomFrame DEF RoomIsLeft
  <2> QED
    BY <1>4, <2>1, <2>2, <2>5
<1>8. ASSUME NEW q \in Requests, ReadRun(q) PROVE SlotsHold' /\ RoomIsLeft'
  <2>1. /\ record' = record /\ due' = due /\ crowded' = crowded /\ req[q].at = "mark"
    BY <1>8 DEF ReadRun
  <2>2. /\ Others(q) /\ req[q].run \in Runs /\ req'[q].at = "decide" /\ req'[q].run = req[q].run
        /\ req'[q].proc = req[q].proc
    BY <1>0, <1>8, AfterReadRun
  <2>3. ~Started(q)
    BY <1>0, <2>1 DEF PhasesFit, Fits
  <2>4. IsActive(req'[q].now[req[q].run]) => req[q].run \in ActiveRuns
    <3>1. CASE req[q].run \in req[q].wrote
      <4>1. req'[q].now[req[q].run] = req[q].now[req[q].run]
        BY <1>0, <1>8, <2>2, <3>1, AfterReadRun
      <4>2. req[q].now[req[q].run].status # "READY"
        BY <1>0, <2>1, <3>1 DEF PhasesFit, Fits
      <4> QED
        BY <4>1, <4>2 DEF IsActive
    <3>2. CASE req[q].run \notin req[q].wrote
      <4>1. req'[q].now[req[q].run] = record[req[q].run]
        BY <1>0, <1>8, <2>2, <3>2, AfterReadRun
      <4> QED
        BY <2>2, <4>1 DEF ActiveRuns
    <3> QED
      BY <3>1, <3>2
  <2>5. ActiveRuns' = ActiveRuns
    BY <2>1 DEF ActiveRuns, IsActive
  <2>6. IsActive(req[q].now[req[q].run])' => ActiveRuns' \cup {req'[q].run} = ActiveRuns
    BY <2>1, <2>2, <2>4, <2>5 DEF IsActive
  <2>7. HasRoom(q)'
    BY <1>0, <1>l, <2>1, <2>2, <2>3, <2>6 DEF HasRoom, Started, SlotsHold
  <2> QED
    BY <1>4, <2>1, <2>2, <2>7
<1>9. ASSUME NEW q \in Requests, Reuse(q) PROVE SlotsHold' /\ RoomIsLeft'
  <2>1. record' = record /\ due' = due /\ crowded' = crowded /\ req[q].at = "decide"
    BY <1>9 DEF Reuse
  <2>2. /\ Others(q) /\ req'[q].at = "reply" /\ req'[q].run = req[q].run /\ req'[q].proc = req[q].proc
        /\ req'[q].late = req[q].late /\ req'[q].now = req[q].now
    BY <1>0, <1>9, AfterReuse
  <2>3. ~Started(q) /\ HasRoom(q)
    BY <1>0, <2>1 DEF PhasesFit, Fits, RoomIsLeft
  <2>4. ActiveRuns' = ActiveRuns
    BY <2>1 DEF ActiveRuns, IsActive
  <2>5. HasRoom(q)'
    BY <1>l, <2>1, <2>2, <2>3, <2>4 DEF HasRoom, Started, IsActive
  <2> QED
    BY <1>4, <2>1, <2>2, <2>5
<1>10. ASSUME NEW q \in Requests, Clear(q) PROVE SlotsHold' /\ RoomIsLeft'
  <2>1. /\ record' = record /\ due' = due /\ crowded' = crowded /\ req[q].at = "decide"
        /\ Cardinality(Active(q)) < limit
    BY <1>10 DEF Clear
  <2>2. /\ Others(q) /\ req'[q].at = "build" /\ req'[q].wrote = req[q].wrote \cup {req[q].run}
    BY <1>0, <1>10, AfterClear
  <2>3. ActiveRuns \ req'[q].wrote \subseteq Active(q) /\ Active(q) \in SUBSET Runs
    BY <2>2 DEF ActiveRuns, Active, Seen
  <2>4. ActiveRuns' = ActiveRuns
    BY <2>1 DEF ActiveRuns, IsActive
  <2>5. Cardinality(ActiveRuns' \ req'[q].wrote) < limit'
    <3>1. /\ Cardinality(ActiveRuns \ req'[q].wrote) \in Nat /\ Cardinality(Active(q)) \in Nat
          /\ Cardinality(ActiveRuns \ req'[q].wrote) <= Cardinality(Active(q))
      BY <2>3, Counting
    <3> QED
      BY <1>l, <2>1, <2>4, <3>1
  <2>6. HasRoom(q)'
    BY <2>2, <2>5 DEF HasRoom
  <2> QED
    BY <1>4, <2>1, <2>2, <2>6
<1>11. ASSUME NEW q \in Requests, Start(q) \/ Serve(q) PROVE SlotsHold' /\ RoomIsLeft'
  <2>1. record' = record /\ due' = due /\ crowded' = crowded /\ req[q].at \in {"build", "check"}
    BY <1>11 DEF Start, Serve
  <2>2. Others(q) /\ req'[q].late = req[q].late /\ req'[q].wrote = req[q].wrote
    BY <1>0, <1>11, AfterStart, AfterServe
  <2>3. req'[q].at = "check" \/ Started(q)'
    <3>1. CASE Start(q)
      BY <1>0, <3>1, AfterStart
    <3>2. CASE Serve(q)
      <4>1. Started(q)
        BY <1>0, <3>2 DEF Serve, PhasesFit, Fits
      <4> QED
        BY <1>0, <3>2, <4>1, AfterServe DEF Started
    <3> QED
      BY <1>11, <3>1, <3>2
  <2>4. HasRoom(q)
    BY <1>0 DEF RoomIsLeft
  <2>5. ActiveRuns' = ActiveRuns
    BY <2>1 DEF ActiveRuns, IsActive
  <2>6. req'[q].at # "decide" /\ (req'[q].at = "reply" => Started(q)')
    BY <1>0, <1>11, <2>3, AfterStart, AfterServe
  <2>7. HasRoom(q)'
    BY <1>l, <2>1, <2>2, <2>3, <2>4, <2>5, <2>6 DEF HasRoom
  <2> QED
    BY <1>4, <2>1, <2>2, <2>7
<1>12. ASSUME NEW q \in Requests, Drop(q), Others(q), req'[q] = Idle PROVE SlotsHold' /\ RoomIsLeft'
  BY <1>2, <1>4, <1>12 DEF Drop
<1>13. ASSUME NEW q \in Requests, Commit(q) PROVE SlotsHold' /\ RoomIsLeft'
  <2> DEFINE run == req[q].run
  <2>1. due' = due /\ req[q].at = "reply" /\ crowded' = (crowded \/ (req[q].late /\ Fresh(q) # {}))
    BY <1>13 DEF Commit
  <2>2. \A p \in Requests : p # q =>
           /\ req'[p].at = req[p].at /\ req'[p].run = req[p].run /\ req'[p].wrote = req[p].wrote
           /\ req'[p].proc = req[p].proc /\ req'[p].now = req[p].now
    BY <1>0, <1>13, AfterCommit
  <2>3. \A r \in Runs : record'[r] = IF r \in req[q].wrote THEN req[q].now[r] ELSE record[r]
    BY <1>0, <1>13, AfterCommit
  <2>4. run \in Runs /\ req'[q] = Idle
    BY <1>0, <1>13, AfterCommit
  <2>5. ASSUME Fresh(q) = {} PROVE ActiveRuns' \subseteq ActiveRuns
    <3> SUFFICES ASSUME NEW r \in Runs, IsActive(record'[r]) PROVE IsActive(record[r])
      BY <2>1 DEF ActiveRuns, IsActive
    <3>1. r \in req[q].wrote => record[r] = req[q].now[r]
      BY <2>3, <2>5 DEF Fresh, IsActive
    <3> QED
      BY <2>3, <3>1
  <2>6. ASSUME NEW r \in ActiveRuns' PROVE r = run \/ r \in ActiveRuns \ req[q].wrote
    <3>1. r \in Runs /\ IsActive(record'[r])
      BY <2>1, <2>6 DEF ActiveRuns, IsActive
    <3>2. CASE r \in req[q].wrote
      <4>1. req[q].now[r].status = "READY"
        BY <2>3, <3>1, <3>2 DEF IsActive
      <4> QED
        BY <1>0, <3>2, <4>1 DEF PhasesFit, Fits
    <3>3. CASE r \notin req[q].wrote
      BY <2>3, <3>1, <3>3 DEF ActiveRuns
    <3> QED
      BY <3>2, <3>3
  <2>7. SlotsHold'
    <3>1. CASE Fresh(q) = {} \/ crowded \/ req[q].late
      BY <1>1, <2>1, <2>5, <3>1 DEF SlotsHold
    <3>2. CASE ~crowded /\ ~req[q].late
      <4>0. HasRoom(q)
        BY <1>0 DEF RoomIsLeft
      <4>1. CASE Started(q)
        <5>1. Cardinality(ActiveRuns \ req[q].wrote) < limit
          BY <3>2, <4>0, <4>1 DEF HasRoom
        <5>2. ActiveRuns \ req[q].wrote \in SUBSET Runs
          BY <1>l
        <5>3. /\ Cardinality((ActiveRuns \ req[q].wrote) \cup {run}) <= Cardinality(ActiveRuns \ req[q].wrote) + 1
              /\ Cardinality(ActiveRuns \ req[q].wrote) \in Nat
              /\ Cardinality((ActiveRuns \ req[q].wrote) \cup {run}) \in Nat
          BY <2>4, <5>2, CountingOneMore
        <5>4. /\ ActiveRuns' \subseteq (ActiveRuns \ req[q].wrote) \cup {run}
              /\ (ActiveRuns \ req[q].wrote) \cup {run} \in SUBSET Runs
          BY <2>4, <2>6, <5>2
        <5>5. /\ Cardinality(ActiveRuns') \in Nat
              /\ Cardinality(ActiveRuns') <= Cardinality((ActiveRuns \ req[q].wrote) \cup {run})
          BY <5>4, Counting
        <5> QED
          BY <1>l, <5>1, <5>3, <5>5 DEF SlotsHold
      <4>2. CASE ~Started(q) /\ IsActive(req[q].now[run])
        <5>1. Cardinality(ActiveRuns \cup {run}) <= limit
          BY <2>1, <3>2, <4>0, <4>2 DEF HasRoom
        <5>2. ActiveRuns' \subseteq ActiveRuns \cup {run} /\ ActiveRuns \cup {run} \in SUBSET Runs
          BY <1>l, <2>4, <2>6
        <5>3. /\ Cardinality(ActiveRuns') \in Nat /\ Cardinality(ActiveRuns \cup {run}) \in Nat
              /\ Cardinality(ActiveRuns') <= Cardinality(ActiveRuns \cup {run})
          BY <5>2, Counting
        <5> QED
          BY <1>l, <5>1, <5>3 DEF SlotsHold
      <4>3. CASE ~IsActive(req[q].now[run])
        <5>1. run \notin ActiveRuns' \/ run \in ActiveRuns
          BY <2>1, <2>3, <2>4, <4>3 DEF ActiveRuns, IsActive
        <5>2. ActiveRuns' \subseteq ActiveRuns
          BY <2>6, <5>1
        <5> QED
          BY <1>1, <2>1, <5>2
      <4> QED
        BY <4>1, <4>2, <4>3
    <3> QED
      BY <3>1, <3>2
  <2>8. ASSUME NEW p \in Requests PROVE HasRoom(p)'
    <3>1. CASE p = q
      BY <1>2, <2>4, <3>1
    <3>2. CASE p # q /\ req[p].at = "idle"
      <4>1. req'[p] = Idle
        BY <1>13, <3>2 DEF Commit
      <4> QED
        BY <1>2, <4>1
    <3>3. CASE p # q /\ req[p].at # "idle" /\ Fresh(q) # {}
      <4>1. req'[p].late
        BY <1>0, <1>13, <3>3, AfterCommit
      <4> QED
        BY <4>1 DEF HasRoom
    <3>4. CASE p # q /\ req[p].at # "idle" /\ Fresh(q) = {}
      <4>1. req[p].late => req'[p].late
        BY <1>0, <1>13, <3>4, AfterCommit
      <4>2. HasRoom(p)
        BY <1>0 DEF RoomIsLeft
      <4> QED
        BY <1>0, <1>l, <2>1, <2>2, <2>5, <3>4, <4>1, <4>2, RoomFrame
    <3> QED
      BY <3>1, <3>2, <3>3, <3>4
  <2> QED
    BY <2>7, <2>8 DEF RoomIsLeft
<1>14. ASSUME req' = req, record' = record, due \subseteq due', crowded' = crowded
       PROVE  SlotsHold' /\ RoomIsLeft'
  <2>1. ActiveRuns' \subseteq ActiveRuns
    BY <1>14 DEF ActiveRuns, IsActive
  <2>2. \A p \in Requests : HasRoom(p)'
    BY <1>3, <1>14, <2>1
  <2> QED
    BY <1>1, <1>14, <2>1, <2>2 DEF RoomIsLeft
<1>15. ASSUME NEW r \in Runs, Look(r) \/ Expire(r) PROVE SlotsHold' /\ RoomIsLeft'
  BY <1>14, <1>15 DEF Look, Expire
<1>16. ASSUME NEW n \in alive, Exit(n) PROVE SlotsHold' /\ RoomIsLeft'
  BY <1>14, <1>16 DEF Exit
<1>17. CASE UNCHANGED vars
  BY <1>14, <1>17 DEF vars
<1> QED
  BY StepCases, <1>5, <1>6, <1>7, <1>8, <1>9, <1>10, <1>11, <1>12, <1>13, <1>15, <1>16, <1>17

-----------------------------------------------------------------------------
(* The theorems.                                                           *)

LEMMA InitInv == Init => PreviewInv
<1> SUFFICES ASSUME Init PROVE PreviewInv
  OBVIOUS
<1> USE ConstantsAssumption
<1>1. /\ \A r \in Runs : record[r] = NoPreview
      /\ \A q \in Requests : req[q] = Idle
      /\ alive = {} /\ due = {} /\ limit \in Nat
  BY DEF Init
<1>2. NoPreview.status = "NONE" /\ NoPreview.proc = NoProcess
  BY DEF NoPreview, Preview
<1>3. TypeOK
  <2>1. starts = 0 /\ 0 \in 0 .. starts
    BY DEF Init
  <2>2. NoPreview \in PreviewRow
    BY <2>1 DEF NoPreview, Preview, PreviewRow, NoProcess
  <2>3. Idle \in Request
    BY <2>1, <2>2 DEF Idle, Request, NoProcess
  <2>4. record \in [Runs -> PreviewRow] /\ req \in [Requests -> Request]
    BY <2>2, <2>3 DEF Init
  <2>5. \A q \in Requests : req[q].at # "idle" => req[q].run \in Runs
    BY <1>1, IdleFields
  <2>6. starts \in 0 .. MaxStarts /\ mishaps \in 0 .. MaxMishaps
    <3>1. starts = 0 /\ mishaps = 0
      BY DEF Init
    <3> QED
      BY <3>1
  <2>7. crowded = FALSE /\ limit \in Limits /\ alive = {} /\ due = {} /\ astray = {} /\ gone = {}
    BY DEF Init
  <2> QED
    BY <2>4, <2>5, <2>6, <2>7 DEF TypeOK
<1>4. NothingLeaks /\ DeadStaysDead /\ ReadyIsServed
  BY <1>1, <1>2, IdleFields DEF NothingLeaks, DeadStaysDead, ReadyIsServed, Changed, IsActive
<1>5. PhasesFit
  BY <1>1, <1>2, IdleFields DEF PhasesFit, Fits, Started
<1>6. ReadyIsAProcess
  BY <1>1, <1>2, IdleFields DEF ReadyIsAProcess
<1>7. OneRunEach
  <2>1. \A r \in Runs : Names(r) = {}
    BY <1>1, <1>2, IdleFields, NamesOf
  <2> QED
    BY <1>1, <2>1, IdleFields DEF OneRunEach, Started
<1>8. SlotsHold
  <2>1. ActiveRuns = {}
    BY <1>1, <1>2 DEF ActiveRuns, IsActive
  <2> QED
    BY <1>1, <2>1, FS_EmptySet DEF SlotsHold
<1>9. RoomIsLeft
  BY <1>1, IdleFields DEF RoomIsLeft, HasRoom, Started
<1> QED
  BY <1>3, <1>4, <1>5, <1>6, <1>7, <1>8, <1>9 DEF PreviewInv

\* The inductive invariant: what a request has read, written and killed, where it is,
\* and that a process belongs to one run, together keep what records say true.
THEOREM PreviewInvariant == Spec => []PreviewInv
<1>1. PreviewInv /\ [Next]_vars => PreviewInv'
  <2> SUFFICES ASSUME PreviewInv, [Next]_vars PROVE PreviewInv'
    OBVIOUS
  <2>1. TypeOK'
    BY TypeStep DEF PreviewInv
  <2> QED
    BY <2>1, LeakStep, ServedStep, SlotStep, DeadStep, PhasesStep, ProcessStep, OneRunStep DEF PreviewInv
<1> QED
  BY InitInv, <1>1, PTL DEF Spec

\* Every state is one that the types describe.
THEOREM TypeCorrect == Spec => []TypeOK
<1>1. PreviewInv => TypeOK
  BY DEF PreviewInv
<1> QED
  BY <1>1, PreviewInvariant, PTL

\* A process that runs is known to a record or to a request under way, unless the
\* request that started it was lost or a record was replaced unread
\* (launch_run_preview, _write_preview_summary).
THEOREM ProcessesAreKnown == Spec => []NothingLeaks
<1>1. PreviewInv => NothingLeaks
  BY DEF PreviewInv
<1> QED
  BY <1>1, PreviewInvariant, PTL

\* A record that says READY and has not expired tells of a process that runs, or of
\* one that a request has killed or that went by itself.
THEOREM ReadyTellsTheTruth == Spec => []ReadyIsServed
<1>1. PreviewInv => ReadyIsServed
  BY DEF PreviewInv
<1> QED
  BY <1>1, PreviewInvariant, PTL

\* Unless launches overlap, no more previews are ready than the limit allows
\* (_count_active_previews).
THEOREM LimitHolds == Spec => []SlotsHold
<1>1. PreviewInv => SlotsHold
  BY DEF PreviewInv
<1> QED
  BY <1>1, PreviewInvariant, PTL

=============================================================================
