---------------------------- MODULE RunControl_proofs ----------------------------
(***************************************************************************)
(* Theorems about RunControl, for every graph of items and any number of   *)
(* workers and requests: what was done stays in the workspace or in what a *)
(* resume makes of it, the latest checkpoint applies, and no request       *)
(* resets a workspace in use, but for the mishaps that RunControlProps     *)
(* names.                                                                  *)
(***************************************************************************)
EXTENDS RunControlProps, FiniteSetTheorems, TLAPS

USE ConstantsAssumption

-----------------------------------------------------------------------------
(* Types.                                                                  *)

Executed(n) == [job : Items, since : 1 .. n, wrote : BOOLEAN]
Captured(n) == [at : 0 .. n, work : SUBSET Items]
Read(n) == [id : 0 .. n - 1,
            next : {"read_items", "resume", "unblock", "commit", "push",
                    "reset", "patch", "publish"},
            status : {"OPEN", "COMPLETED"} \cup Stopped,
            seen : [Items -> Row] \cup {<<>>},
            fresh : BOOLEAN]
Mishaps == {"overlap", "named", "late", "discarded", "committed", "torn", "reset"}
Tree == [there : BOOLEAN, work : SUBSET Items]

\* The invariant on types, with the bounds of the fields apart.
TypeParts ==
  /\ run \in {"OPEN", "COMPLETED"} \cup Stopped
  /\ item \in [Items -> Row]
  /\ started \in Nat
  /\ execution \subseteq Executed(started)
  /\ Cardinality(execution) <= Workers
  /\ tree \in Tree
  /\ head \subseteq Items
  /\ remote \subseteq Items
  /\ pr \in BOOLEAN
  /\ checkpoints \subseteq Captured(started)
  /\ calls \in 0 .. MaxCalls
  /\ pending \subseteq Read(calls)
  /\ mishaps \subseteq Mishaps

LEMMA TypeIs == TypeOK <=> TypeParts
  BY DEF TypeOK, TypeParts, Executed, Captured, Read, Mishaps, Tree

LEMMA TypeIsNext == TypeOK' <=> TypeParts'
  BY DEF TypeOK, TypeParts, Executed, Captured, Read, Mishaps, Tree

USE DEF TypeParts

LEMMA RowTypes ==
  /\ Queued \in Row
  /\ \A status \in {"QUEUED", "RUNNING", "DONE", "FAILED", "CANCELED"},
        why \in {"-", "code", "confirm", "budget"} : [status |-> status, why |-> why] \in Row
  /\ \A row \in Row, status \in {"QUEUED", "RUNNING", "DONE", "FAILED", "CANCELED"} :
        [row EXCEPT !.status = status] \in Row
  BY DEF Queued, Row

\* What follows from one request to the next, and from one number to the next.
LEMMA MoreOfThem ==
  ASSUME NEW n \in Nat
  PROVE  /\ Executed(n) \subseteq Executed(n + 1)
         /\ Captured(n) \subseteq Captured(n + 1)
         /\ Read(n) \subseteq Read(n + 1)
  BY DEF Executed, Captured, Read

LEMMA OutdatedType ==
  ASSUME NEW n, NEW S, S \subseteq Read(n)
  PROVE  Outdated(S) \subseteq Read(n)
  BY DEF Outdated, Read

\* Rows that are set apart by an operator keep their type.
LEMMA RequeuedTypes ==
  ASSUME item \in [Items -> Row]
  PROVE  /\ \A why : RequeuedFor(why) \in [Items -> Row]
         /\ CanceledQueued \in [Items -> Row]
  BY RowTypes DEF RequeuedFor, CanceledQueued

\* The workspace a clone makes has a type.
LEMMA CloneTypes ==
  ASSUME tree \in Tree, head \subseteq Items, remote \subseteq Items
  PROVE  Cloned \in Tree /\ ClonedHead \subseteq Items
  BY DEF Tree, Cloned, ClonedHead

\* Workers take and leave executions one at a time.
LEMMA OneMore ==
  ASSUME IsFiniteSet(execution), Cardinality(execution) <= Workers, NEW e,
         NEW f \in execution, Workers \in Nat
  PROVE  /\ IsFiniteSet(execution \ {f}) /\ Cardinality(execution \ {f}) <= Workers
         /\ IsFiniteSet((execution \ {f}) \cup {e}) /\ Cardinality((execution \ {f}) \cup {e}) <= Workers
<1>1. /\ IsFiniteSet(execution \ {f})
      /\ Cardinality(execution \ {f}) = Cardinality(execution) - 1
  BY FS_RemoveElement
<1>2. /\ IsFiniteSet((execution \ {f}) \cup {e})
      /\ Cardinality((execution \ {f}) \cup {e}) \in
            {Cardinality(execution \ {f}), Cardinality(execution \ {f}) + 1}
  BY <1>1, FS_AddElement
<1>3. Cardinality(execution) \in Nat
  BY FS_CardinalityType
<1> QED
  BY <1>1, <1>2, <1>3

LEMMA ClaimType ==
  ASSUME TypeOK, IsFiniteSet(execution), NEW i \in Items, Claim(i)
  PROVE  TypeOK' /\ IsFiniteSet(execution')
<1> DEFINE e == [job |-> i, since |-> started + 1, wrote |-> FALSE]
<1>1. started \in Nat /\ started' = started + 1
  BY DEF TypeOK, Claim
<1>2. e \in Executed(started')
  BY <1>1 DEF Executed
<1>3. execution' = execution \cup {e} /\ Cardinality(execution) < Workers
  BY DEF Claim, FreeWorker
<1> HIDE DEF e
<1>4. IsFiniteSet(execution') /\ Cardinality(execution') <= Workers
  <2>1. Cardinality(execution) \in Nat
    BY FS_CardinalityType
  <2>2. /\ IsFiniteSet(execution \cup {e})
        /\ Cardinality(execution \cup {e}) \in {Cardinality(execution), Cardinality(execution) + 1}
    BY FS_AddElement
  <2> QED
    BY <1>3, <2>1, <2>2
<1>5. execution' \subseteq Executed(started') /\ checkpoints' \subseteq Captured(started')
  BY <1>1, <1>2, <1>3, MoreOfThem, TypeIs DEF Claim
<1>6. tree' \in Tree /\ head' \subseteq Items
  BY CloneTypes, TypeIs DEF Claim
<1>7. item' \in [Items -> Row]
  BY RowTypes, TypeIs DEF Claim
<1> QED
  BY <1>4, <1>5, <1>6, <1>7, TypeIs, TypeIsNext DEF Claim, requests

LEMMA WriteType ==
  ASSUME TypeOK, IsFiniteSet(execution), NEW e \in execution, Write(e)
  PROVE  TypeOK' /\ IsFiniteSet(execution')
<1> DEFINE f == [e EXCEPT !.wrote = TRUE]
<1>1. e \in Executed(started)
  BY TypeIs
<1>2. f \in Executed(started) /\ e.job \in Items
  BY <1>1 DEF Executed
<1>3. execution' = (execution \ {e}) \cup {f}
  BY DEF Write
<1> HIDE DEF f
<1>4. IsFiniteSet(execution') /\ Cardinality(execution') <= Workers
  BY <1>3, OneMore, TypeIs
<1>5. execution' \subseteq Executed(started)
  BY <1>2, <1>3, TypeIs
<1>6. tree' \in Tree
  BY <1>2, TypeIs DEF Write, Tree
<1> QED
  BY <1>4, <1>5, <1>6, TypeIs, TypeIsNext DEF Write, requests

LEMMA ReportType ==
  ASSUME TypeOK, IsFiniteSet(execution), NEW e \in execution, Report(e)
  PROVE  TypeOK' /\ IsFiniteSet(execution')
<1>1. e \in Executed(started) /\ e.job \in Items /\ e.since \in 0 .. started
  BY TypeIs DEF Executed
<1>2. execution' = execution \ {e}
  BY DEF Report, ReportDone, ReportFailed
<1>3. IsFiniteSet(execution') /\ Cardinality(execution') <= Workers /\ execution' \subseteq Executed(started)
  BY <1>2, OneMore, TypeIs
<1>4. item' \in [Items -> Row]
  <2>1. ASSUME NEW row \in Row PROVE [item EXCEPT ![e.job] = row] \in [Items -> Row]
    BY <1>1, TypeIs
  <2>2. CASE ReportDone(e)
    BY <2>1, <2>2, RowTypes DEF ReportDone
  <2>3. ASSUME NEW why \in {"code", "confirm", "budget"}, ReportFailed(e, why)
        PROVE  item' \in [Items -> Row]
    BY <2>1, <2>3, RowTypes DEF ReportFailed
  <2> QED
    BY <2>2, <2>3 DEF Report
<1>5. checkpoints' \subseteq Captured(started)
  <2>1. Diff \subseteq Items
    BY TypeIs DEF Diff, Tree
  <2>2. [at |-> e.since, work |-> Diff] \in Captured(started)
    BY <1>1, <2>1 DEF Captured
  <2> QED
    BY <2>2, TypeIs DEF Report, ReportDone, ReportFailed, CapturedAt
<1>6. mishaps' \subseteq Mishaps
  BY TypeIs DEF Report, ReportDone, ReportFailed, Mishaps
<1> QED
  BY <1>3, <1>4, <1>5, <1>6, TypeIs, TypeIsNext DEF Report, ReportDone, ReportFailed, workspace, requests

LEMMA TickType ==
  ASSUME TypeOK, IsFiniteSet(execution), Tick \/ PauseForSpend
  PROVE  TypeOK' /\ IsFiniteSet(execution')
<1>1. item' \in [Items -> Row]
  BY RequeuedTypes, TypeIs DEF Tick, PauseForSpend, CancelStarved, GiveUp, Unresolvable, Complete
<1>2. run' \in {"OPEN", "COMPLETED"} \cup Stopped
  BY TypeIs DEF Tick, PauseForSpend, CancelStarved, GiveUp, Unresolvable, Complete, Stopped
<1>3. head' \subseteq Items /\ remote' \subseteq Items
  BY TypeIs DEF Tick, PauseForSpend, CancelStarved, GiveUp, Unresolvable, Complete, workspace, Tree
<1> QED
  BY <1>1, <1>2, <1>3, TypeIs, TypeIsNext
  DEF Tick, PauseForSpend, CancelStarved, GiveUp, Unresolvable, Complete, workspace, requests

LEMMA RequestType ==
  ASSUME TypeOK, IsFiniteSet(execution), Request
  PROVE  TypeOK' /\ IsFiniteSet(execution')
<1>1. calls \in Nat /\ calls' = calls + 1 /\ calls' \in 0 .. MaxCalls
  BY TypeIs DEF Request, Cancel, Extend, Confirm, Discard, ResumeRun, UnblockRead, PushRead, PullRequestRead, Calls, Pends
<1>2. pending' \subseteq Read(calls')
  <2>1. pending \subseteq Read(calls') /\ Outdated(pending) \subseteq Read(calls')
    BY <1>1, MoreOfThem, OutdatedType, TypeIs
  <2>2. ASSUME NEW next \in {"read_items", "unblock", "commit", "reset"}, Pends(next)
        PROVE  pending' \subseteq Read(calls')
    <3>1. [id |-> calls, next |-> next, status |-> run, seen |-> <<>>, fresh |-> TRUE] \in Read(calls')
      BY <1>1, TypeIs DEF Read
    <3> QED
      BY <2>1, <2>2, <3>1 DEF Pends
  <2> QED
    BY <2>1, <2>2 DEF Request, Cancel, Extend, Confirm, Discard, ResumeRun, UnblockRead, PushRead, PullRequestRead
<1>3. item' \in [Items -> Row] /\ run' \in {"OPEN", "COMPLETED"} \cup Stopped
  BY RequeuedTypes, TypeIs
  DEF Request, Cancel, Extend, Confirm, Discard, ResumeRun, UnblockRead, PushRead, PullRequestRead, Stopped
<1>4. tree' \in Tree /\ head' \subseteq Items /\ mishaps' \subseteq Mishaps
  <2>1. CASE Discard
    <3>1. [there |-> FALSE, work |-> {}] \in Tree
      BY DEF Tree
    <3> QED
      BY <2>1, <3>1, TypeIs DEF Discard, Mishaps
  <2>2. CASE ~Discard
    BY <2>2, TypeIs DEF Request, Cancel, Extend, Confirm, ResumeRun, UnblockRead, PushRead, PullRequestRead, workspace
  <2> QED
    BY <2>1, <2>2
<1> QED
  BY <1>1, <1>2, <1>3, <1>4, TypeIs, TypeIsNext
  DEF Request, Cancel, Extend, Confirm, Discard, ResumeRun, UnblockRead, PushRead, PullRequestRead, workspace

\* What a resume makes of the items, whatever it read.
LEMMA ResumedType ==
  ASSUME item \in [Items -> Row], NEW S, NEW seen
  PROVE  [i \in Items |-> IF i \in S /\ seen[i].status # "QUEUED" THEN Queued ELSE item[i]]
            \in [Items -> Row]
  BY RowTypes

\* What serves the request for a pull request, and what each of its steps leaves alone.
PullRequest(r) ==
  \/ PullRequestReset(r) \/ PullRequestFailed(r)
  \/ PullRequestCommit(r) \/ PullRequestPush(r) \/ PullRequestAsPushed(r)

LEMMA PullRequestKeeps ==
  ASSUME NEW r, PullRequest(r)
  PROVE  /\ UNCHANGED <<run, item, execution, started, checkpoints, calls>>
         /\ mishaps \subseteq mishaps' /\ mishaps' \subseteq mishaps \cup {"reset", "committed"}
         /\ \/ pending' = pending \ {r}
            \/ r.next = "reset" /\ pending' = (pending \ {r}) \cup {[r EXCEPT !.next = "patch"]}
            \/ r.next = "patch" /\ pending' = (pending \ {r}) \cup {[r EXCEPT !.next = "publish"]}
<1>1. CASE PullRequestReset(r)
  BY <1>1 DEF PullRequestReset, Continues
<1>2. CASE PullRequestCommit(r)
  BY <1>2 DEF PullRequestCommit, Continues
<1>3. CASE PullRequestFailed(r) \/ PullRequestPush(r) \/ PullRequestAsPushed(r)
  BY <1>3 DEF PullRequestFailed, PullRequestPush, PullRequestAsPushed, Ends, Continues, workspace
<1> QED
  BY <1>1, <1>2, <1>3 DEF PullRequest

\* Its steps reset the workspace to what was pushed, or add a commit to it, or push.
LEMMA PullRequestWorks ==
  ASSUME TypeOK, NEW r, PullRequest(r)
  PROVE  /\ tree' \in Tree /\ pr' \in BOOLEAN
         /\ \/ UNCHANGED <<tree, head, remote>>
            \/ /\ PullRequestReset(r)
               /\ tree'.there /\ tree'.work = remote /\ head' = remote /\ remote' = remote
            \/ /\ PullRequestCommit(r)
               /\ tree.there /\ tree'.there /\ tree.work \subseteq tree'.work
               /\ head' = tree'.work /\ tree'.work \subseteq Items /\ remote' = remote
            \/ tree.there /\ tree' = tree /\ head' = head /\ remote' = head
<1>0. /\ tree \in Tree /\ tree.work \subseteq Items /\ remote \subseteq Items /\ pr \in BOOLEAN
      /\ \A c \in checkpoints : c.work \subseteq Items
  BY TypeIs DEF Tree, Captured
<1>1. CASE PullRequestReset(r)
  BY <1>0, <1>1 DEF PullRequestReset, Tree
<1>2. CASE PullRequestCommit(r)
  <2>1. PICK work \in Patched : /\ tree' = [tree EXCEPT !.work = @ \cup work]
                               /\ head' = tree.work \cup work
    BY <1>2 DEF PullRequestCommit
  <2>2. work \subseteq Items
    BY <1>0 DEF Patched
  <2>3. tree' \in Tree /\ tree'.there = tree.there /\ tree'.work = tree.work \cup work
    BY <1>0, <2>1, <2>2 DEF Tree
  <2> QED
    BY <1>0, <1>2, <2>1, <2>2, <2>3 DEF PullRequestCommit
<1>3. CASE PullRequestPush(r)
  BY <1>0, <1>3 DEF PullRequestPush
<1>4. CASE PullRequestFailed(r) \/ PullRequestAsPushed(r)
  BY <1>0, <1>4 DEF PullRequestFailed, PullRequestAsPushed, workspace
<1> QED
  BY <1>1, <1>2, <1>3, <1>4 DEF PullRequest

LEMMA ServeType ==
  ASSUME TypeOK, IsFiniteSet(execution), NEW r \in pending, Serve(r)
  PROVE  TypeOK' /\ IsFiniteSet(execution')
<1>0. r \in Read(calls) /\ Outdated(pending \ {r}) \subseteq Read(calls)
  BY OutdatedType, TypeIs
<1>1. CASE ResumeItems(r)
  <2>1. [r EXCEPT !.next = "resume", !.seen = item] \in Read(calls)
    BY <1>0, TypeIs DEF Read
  <2>2. pending' \subseteq Read(calls)
    BY <1>1, <2>1, TypeIs DEF ResumeItems, Continues
  <2> QED
    BY <1>1, <2>2, TypeIs, TypeIsNext DEF ResumeItems, Continues, workspace
<1>2. ASSUME NEW mode \in Modes, NEW target, NEW c \in checkpoints, ResumeCommit(r, mode, target, c)
      PROVE  TypeOK' /\ IsFiniteSet(execution')
  <2>1. item' \in [Items -> Row]
    BY <1>2, ResumedType, TypeIs DEF ResumeCommit
  <2>2. tree' \in Tree /\ head' \subseteq Items
    <3>1. c.work \subseteq Items /\ ClonedHead \subseteq Items
      BY CloneTypes, TypeIs DEF Captured
    <3>2. [there |-> TRUE, work |-> ClonedHead \cup c.work] \in Tree
      BY <3>1 DEF Tree
    <3> QED
      BY <1>2, <3>1, <3>2, TypeIs DEF ResumeCommit
  <2>3. mishaps' \subseteq Mishaps
    BY <1>2, TypeIs DEF ResumeCommit, Mishaps, Overlap
  <2>4. pending' \subseteq Read(calls) /\ calls' = calls
    BY <1>0, <1>2 DEF ResumeCommit, EndsOpening
  <2> QED
    BY <1>2, <2>1, <2>2, <2>3, <2>4, TypeIs, TypeIsNext DEF ResumeCommit
<1>3. ASSUME NEW mode \in Modes, NEW c \in checkpoints, ResumeTorn(r, mode, c)
      PROVE  TypeOK' /\ IsFiniteSet(execution')
  <2>1. tree' \in Tree /\ head' \subseteq Items
    BY <1>3, CloneTypes, TypeIs DEF ResumeTorn, Tree
  <2>2. mishaps' \subseteq Mishaps
    BY <1>3, TypeIs DEF ResumeTorn, Mishaps, Overlap
  <2>3. pending' \subseteq Read(calls) /\ calls' = calls
    BY <1>3, TypeIs DEF ResumeTorn, Ends, Continues
  <2> QED
    BY <1>3, <2>1, <2>2, <2>3, TypeIs, TypeIsNext DEF ResumeTorn
<1>4. CASE UnblockCommit(r)
  <2>1. item' \in [Items -> Row] /\ run' \in {"OPEN", "COMPLETED"} \cup Stopped
    BY <1>4, RequeuedTypes, TypeIs DEF UnblockCommit
  <2>2. mishaps' \subseteq Mishaps
    BY <1>4, TypeIs DEF UnblockCommit, Mishaps, Overlap
  <2>3. pending' \subseteq Read(calls) /\ calls' = calls
    BY <1>0, <1>4, TypeIs DEF UnblockCommit, EndsOpening, Ends, Continues
  <2> QED
    BY <1>4, <2>1, <2>2, <2>3, TypeIs, TypeIsNext DEF UnblockCommit, workspace
<1>5. CASE PushCommit(r) \/ PushFailed(r) \/ Pushed(r)
  <2>1. [r EXCEPT !.next = "push"] \in Read(calls)
    BY <1>0 DEF Read
  <2>2. pending' \subseteq Read(calls) /\ calls' = calls
    BY <1>5, <2>1, TypeIs DEF PushCommit, PushFailed, Pushed, Ends, Continues
  <2>3. run' \in {"OPEN", "COMPLETED"} \cup Stopped /\ head' \subseteq Items /\ remote' \subseteq Items
    BY <1>5, TypeIs DEF PushCommit, PushFailed, Pushed, workspace, Tree
  <2>4. mishaps' \subseteq Mishaps
    BY <1>5, TypeIs DEF PushCommit, PushFailed, Pushed, Overlap, Mishaps
  <2> QED
    BY <1>5, <2>2, <2>3, <2>4, TypeIs, TypeIsNext DEF PushCommit, PushFailed, Pushed, workspace
<1>6. CASE PullRequest(r)
  <2>1. pending' \subseteq Read(calls)
    <3>1. [r EXCEPT !.next = "patch"] \in Read(calls) /\ [r EXCEPT !.next = "publish"] \in Read(calls)
      BY <1>0 DEF Read
    <3> QED
      BY <1>6, <3>1, PullRequestKeeps, TypeIs
  <2>2. tree' \in Tree /\ head' \subseteq Items /\ remote' \subseteq Items /\ pr' \in BOOLEAN
    BY <1>6, PullRequestWorks, TypeIs
  <2>3. mishaps' \subseteq Mishaps
    BY <1>6, PullRequestKeeps, TypeIs DEF Mishaps
  <2> QED
    BY <1>6, <2>1, <2>2, <2>3, PullRequestKeeps, TypeIs, TypeIsNext
<1> QED
  BY <1>1, <1>2, <1>3, <1>4, <1>5, <1>6 DEF Serve, Resume, PullRequest

LEMMA TypeStep ==
  ASSUME TypeOK, IsFiniteSet(execution), [Next]_vars
  PROVE  TypeOK' /\ IsFiniteSet(execution')
<1>1. CASE UNCHANGED vars
  BY <1>1 DEF vars, TypeOK
<1> QED
  BY <1>1, ClaimType, WriteType, ReportType, TickType, RequestType, ServeType DEF Next

HIDE DEF TypeParts

-----------------------------------------------------------------------------
(* Steps.                                                                  *)

\* Apart from workers, nobody adds executions or checkpoints.
LEMMA OnlyWorkersWork ==
  ASSUME Tick \/ PauseForSpend \/ Request \/ \E r \in pending : Serve(r)
  PROVE  UNCHANGED <<execution, started, checkpoints>>
<1>1. CASE Tick \/ PauseForSpend
  BY <1>1 DEF Tick, PauseForSpend, CancelStarved, GiveUp, Unresolvable, Complete
<1>2. CASE Request
  BY <1>2 DEF Request, Cancel, Extend, Confirm, Discard, ResumeRun, UnblockRead, PushRead, PullRequestRead
<1>3. ASSUME NEW r \in pending, Serve(r)
      PROVE  UNCHANGED <<execution, started, checkpoints>>
  <2>1. CASE PullRequest(r)
    BY <2>1, PullRequestKeeps
  <2> QED
    BY <1>3, <2>1 DEF Serve, ResumeItems, Resume, ResumeCommit, ResumeTorn, UnblockCommit,
                      PushCommit, PushFailed, Pushed, PullRequest
<1> QED
  BY <1>1, <1>2, <1>3

\* What is executed, and captured, has a number.
LEMMA Numbers ==
  ASSUME TypeOK
  PROVE  /\ \A e \in execution : e \in Executed(started) /\ e.job \in Items /\ e.since \in 1 .. started
         /\ \A c \in checkpoints : c.at \in 0 .. started /\ c.work \subseteq Items
         /\ started \in Nat
  BY TypeIs DEF TypeParts, Executed, Captured

LEMMA NumbersStep ==
  ASSUME TypeOK, NumberedApart, [Next]_vars
  PROVE  NumberedApart'
<1>1. CASE UNCHANGED <<execution, checkpoints>>
  BY <1>1 DEF NumberedApart
<1>2. ASSUME NEW i \in Items, Claim(i) PROVE NumberedApart'
  <2> DEFINE new == [job |-> i, since |-> started + 1, wrote |-> FALSE]
  <2>1. new.since = started + 1 /\ execution' = execution \cup {new} /\ checkpoints' = checkpoints
    BY <1>2 DEF Claim
  <2> HIDE DEF new
  <2> QED
    BY <2>1, Numbers DEF NumberedApart
<1>3. ASSUME NEW e \in execution, Write(e) PROVE NumberedApart'
  <2> DEFINE new == [e EXCEPT !.wrote = TRUE]
  <2>1. e \in Executed(started)
    BY Numbers
  <2>2. new.since = e.since
    BY <2>1 DEF Executed
  <2>3. execution' = (execution \ {e}) \cup {new} /\ checkpoints' = checkpoints
    BY <1>3 DEF Write
  <2> HIDE DEF new
  <2> QED
    BY <2>2, <2>3 DEF NumberedApart
<1>4. ASSUME NEW e \in execution, ReportDone(e) PROVE NumberedApart'
  <2> DEFINE new == [at |-> CapturedAt(e), work |-> Diff]
  <2>1. new.at = e.since /\ checkpoints' = checkpoints \cup {new} /\ execution' = execution \ {e}
    BY <1>4 DEF ReportDone, CapturedAt
  <2> HIDE DEF new
  <2>2. PICK last \in checkpoints : \A d \in checkpoints : d.at <= last.at
    BY DEF NumberedApart
  <2>3. \E c \in checkpoints' : \A d \in checkpoints' : d.at <= c.at
    <3>1. CASE last.at <= new.at
      BY <2>1, <2>2, <3>1, Numbers
    <3>2. CASE new.at <= last.at
      BY <2>1, <2>2, <3>2, Numbers
    <3> QED
      BY <2>1, <3>1, <3>2, Numbers
  <2>4. \A f, g \in execution' : f.since = g.since => f = g
    BY <2>1 DEF NumberedApart
  <2>5. \A f \in execution', c \in checkpoints' : c.at # f.since
    BY <2>1 DEF NumberedApart
  <2>6. \A c, d \in checkpoints' : c.at = d.at => c = d
    BY <2>1 DEF NumberedApart
  <2> QED
    BY <2>3, <2>4, <2>5, <2>6 DEF NumberedApart
<1>5. ASSUME NEW e \in execution, NEW why, ReportFailed(e, why) PROVE NumberedApart'
  BY <1>5 DEF ReportFailed, NumberedApart
<1> QED
  BY <1>1, <1>2, <1>3, <1>4, <1>5, OnlyWorkersWork DEF Next, Report, vars

\* The latest checkpoint.
LEMMA LatestIs ==
  ASSUME TypeOK, NumberedApart
  PROVE  /\ LatestCheckpoint \in checkpoints
         /\ \A d \in checkpoints : d.at <= LatestCheckpoint.at
         /\ \A c \in checkpoints : (\A d \in checkpoints : d.at <= c.at) => c = LatestCheckpoint
<1>1. \E c \in checkpoints : \A d \in checkpoints : c.at >= d.at
  BY Numbers DEF NumberedApart
<1>2. LatestCheckpoint \in checkpoints /\ \A d \in checkpoints : LatestCheckpoint.at >= d.at
  BY <1>1 DEF LatestCheckpoint
<1> HIDE DEF LatestCheckpoint
<1>3. \A d \in checkpoints : d.at <= LatestCheckpoint.at
  BY <1>2, Numbers
<1>4. ASSUME NEW c \in checkpoints, \A d \in checkpoints : d.at <= c.at
      PROVE  c = LatestCheckpoint
  <2>1. c.at = LatestCheckpoint.at
    BY <1>2, <1>3, <1>4, Numbers
  <2> QED
    BY <1>2, <2>1 DEF NumberedApart
<1> QED
  BY <1>2, <1>3, <1>4

\* A report that is not late makes the latest checkpoint.
LEMMA LatestAfterReport ==
  ASSUME TypeOK, NumberedApart, TypeOK', NumberedApart',
         NEW e \in execution, ReportDone(e), "late" \notin mishaps'
  PROVE  LatestCheckpoint' = [at |-> e.since, work |-> Diff]
<1> DEFINE new == [at |-> e.since, work |-> Diff]
<1>1. new.at = e.since /\ checkpoints' = checkpoints \cup {new}
  BY DEF ReportDone, CapturedAt
<1>2. \A c \in checkpoints : ~(c.at > e.since)
  BY DEF ReportDone
<1> HIDE DEF new
<1>3. new \in checkpoints' /\ \A d \in checkpoints' : d.at <= new.at
  BY <1>1, <1>2, Numbers
<1>4. LatestCheckpoint' = CHOOSE c \in checkpoints' : \A d \in checkpoints' : c.at >= d.at
  BY DEF LatestCheckpoint
<1>5. \A c, d \in checkpoints' : c.at = d.at => c = d
  BY DEF NumberedApart
<1>6. \A c \in checkpoints' : c.at \in Nat
  BY <1>1, Numbers
<1>7. \E c \in checkpoints' : \A d \in checkpoints' : c.at >= d.at
  BY <1>3, <1>6
<1>8. LatestCheckpoint' \in checkpoints' /\ \A d \in checkpoints' : LatestCheckpoint'.at >= d.at
  BY <1>4, <1>7
<1>9. LatestCheckpoint'.at = new.at
  BY <1>3, <1>6, <1>8
<1> QED
  BY <1>3, <1>5, <1>8, <1>9 DEF new

LEMMA LatestStays == ASSUME checkpoints' = checkpoints PROVE LatestCheckpoint' = LatestCheckpoint
  BY DEF LatestCheckpoint

\* Every step, by its name.
LEMMA StepCases ==
  ASSUME [Next]_vars
  PROVE  \/ UNCHANGED vars
         \/ \E i \in Items : Claim(i)
         \/ \E e \in execution : Write(e) \/ ReportDone(e)
                                 \/ \E why \in {"code", "confirm", "budget"} : ReportFailed(e, why)
         \/ CancelStarved \/ GiveUp \/ Unresolvable \/ Complete \/ PauseForSpend
         \/ Cancel \/ Extend \/ Confirm \/ Discard \/ ResumeRun \/ UnblockRead \/ PushRead \/ PullRequestRead
         \/ \E r \in pending :
               \/ ResumeItems(r) \/ UnblockCommit(r) \/ PushCommit(r) \/ PushFailed(r) \/ Pushed(r)
               \/ PullRequest(r)
               \/ \E mode \in Modes, c \in checkpoints :
                     \/ \E target \in Targets(r.seen) : ResumeCommit(r, mode, target, c)
                     \/ ResumeTorn(r, mode, c)
<1>1. CASE UNCHANGED vars
  BY <1>1
<1>2. CASE \E i \in Items : Claim(i)
  BY <1>2
<1>3. CASE \E e \in execution : Write(e) \/ Report(e)
  BY <1>3 DEF Report
<1>4. CASE Tick \/ PauseForSpend
  BY <1>4 DEF Tick
<1>5. CASE Request
  BY <1>5 DEF Request
<1>6. CASE \E r \in pending : Serve(r)
  BY <1>6 DEF Serve, Resume, PullRequest
<1> QED
  BY <1>1, <1>2, <1>3, <1>4, <1>5, <1>6 DEF Next

\* Who changes the workspace, and the rows of the items.
LEMMA WorkspaceTouched ==
  ASSUME [Next]_vars
  PROVE  \/ UNCHANGED workspace
         \/ \E i \in Items : Claim(i)
         \/ \E e \in execution : Write(e)
         \/ Complete \/ Discard
         \/ \E r \in pending :
               \/ PushCommit(r) \/ Pushed(r) \/ PullRequest(r)
               \/ \E mode \in Modes, c \in checkpoints :
                     \/ \E target \in Targets(r.seen) : ResumeCommit(r, mode, target, c)
                     \/ ResumeTorn(r, mode, c)
<1>1. CASE UNCHANGED vars
  BY <1>1 DEF vars, workspace
<1>2. CASE \E e \in execution : ReportDone(e) \/ \E why \in {"code", "confirm", "budget"} : ReportFailed(e, why)
  BY <1>2 DEF ReportDone, ReportFailed
<1>3. CASE \/ CancelStarved \/ GiveUp \/ Unresolvable \/ PauseForSpend
           \/ Cancel \/ Extend \/ Confirm \/ ResumeRun \/ UnblockRead \/ PushRead \/ PullRequestRead
  BY <1>3 DEF CancelStarved, GiveUp, Unresolvable, PauseForSpend, Cancel, Extend, Confirm,
              ResumeRun, UnblockRead, PushRead, PullRequestRead
<1>4. CASE \E r \in pending : ResumeItems(r) \/ UnblockCommit(r) \/ PushFailed(r)
  BY <1>4 DEF ResumeItems, UnblockCommit, PushFailed
<1> QED
  BY <1>1, <1>2, <1>3, <1>4, StepCases

LEMMA ItemsTouched ==
  ASSUME [Next]_vars
  PROVE  \/ UNCHANGED item
         \/ \E i \in Items : Claim(i)
         \/ \E e \in execution : ReportDone(e) \/ \E why \in {"code", "confirm", "budget"} : ReportFailed(e, why)
         \/ item' = CanceledQueued
         \/ \E why \in {"confirm", "budget"} : item' = RequeuedFor(why)
         \/ \E r \in pending, mode \in Modes, c \in checkpoints :
               \E target \in Targets(r.seen) : ResumeCommit(r, mode, target, c)
<1>1. CASE UNCHANGED vars
  BY <1>1 DEF vars
<1>2. CASE \E e \in execution : Write(e)
  BY <1>2 DEF Write
<1>3. CASE \/ CancelStarved \/ GiveUp \/ Unresolvable \/ Complete \/ PauseForSpend
           \/ Cancel \/ Extend \/ Confirm \/ Discard \/ ResumeRun \/ UnblockRead \/ PushRead \/ PullRequestRead
  BY <1>3 DEF CancelStarved, GiveUp, Unresolvable, Complete, PauseForSpend, Cancel, Extend, Confirm,
              Discard, ResumeRun, UnblockRead, PushRead, PullRequestRead
<1>4. ASSUME NEW r \in pending,
             \/ ResumeItems(r) \/ UnblockCommit(r) \/ PushCommit(r) \/ PushFailed(r) \/ Pushed(r) \/ PullRequest(r)
             \/ \E mode \in Modes, c \in checkpoints : ResumeTorn(r, mode, c)
      PROVE  UNCHANGED item \/ item' = RequeuedFor("confirm")
  BY <1>4, PullRequestKeeps DEF ResumeItems, UnblockCommit, PushCommit, PushFailed, Pushed, ResumeTorn
<1> QED
  BY <1>1, <1>2, <1>3, <1>4, StepCases

\* Who else changes the rows starts and finishes nothing, and stops nothing but
\* by a resume.
LEMMA RowsKept ==
  ASSUME TypeOK,
         item' \in {item, CanceledQueued, RequeuedFor("confirm"), RequeuedFor("budget")}
  PROVE  \A i \in Items :
            /\ item[i].status \in {"RUNNING", "DONE"} => item'[i] = item[i]
            /\ item'[i].status \in {"RUNNING", "DONE"} => item'[i] = item[i]
<1>1. CASE item' = item
  BY <1>1
<1>2. CASE item' = CanceledQueued
  BY <1>2, TypeIs DEF CanceledQueued, TypeParts, Row
<1>3. CASE item' = RequeuedFor("confirm") \/ item' = RequeuedFor("budget")
  BY <1>3, TypeIs DEF RequeuedFor, Queued, TypeParts, Row
<1> QED
  BY <1>1, <1>2, <1>3

LEMMA RowsRequeued ==
  ASSUME TypeOK, NEW r, NEW mode, NEW target, NEW c, ResumeCommit(r, mode, target, c)
  PROVE  \A i \in Items : item'[i].status \in {"RUNNING", "DONE"} => item'[i] = item[i]
  BY DEF ResumeCommit, Queued

-----------------------------------------------------------------------------
(* The workspace.                                                          *)

LEMMA Clones ==
  ASSUME TypeOK, WorkspaceFits
  PROVE  /\ remote \subseteq ClonedHead /\ ClonedHead \subseteq Cloned.work /\ Cloned.there
         /\ tree.there => ClonedHead = head /\ Cloned = tree
         /\ ~tree.there => ClonedHead = remote /\ Cloned.work = remote
  BY DEF WorkspaceFits, Cloned, ClonedHead

LEMMA WorkspaceStep ==
  ASSUME TypeOK, WorkspaceFits, [Next]_vars
  PROVE  WorkspaceFits'
<1>0. tree \in Tree
  BY TypeIs DEF TypeParts
<1>1. CASE UNCHANGED workspace
  BY <1>1 DEF WorkspaceFits, workspace
<1>2. ASSUME NEW i \in Items, Claim(i) PROVE WorkspaceFits'
  BY <1>2, Clones DEF Claim, WorkspaceFits
<1>3. ASSUME NEW e \in execution, Write(e) PROVE WorkspaceFits'
  <2>1. tree'.there = tree.there /\ (tree.there => tree'.work = tree.work \cup {e.job})
        /\ (~tree.there => tree' = tree)
    BY <1>0, <1>3 DEF Write, Tree
  <2> QED
    BY <1>3, <2>1 DEF Write, WorkspaceFits
<1>4. CASE Complete
  BY <1>4 DEF Complete, WorkspaceFits
<1>5. CASE Discard
  BY <1>5 DEF Discard, WorkspaceFits
<1>6. ASSUME NEW r \in pending, PushCommit(r) \/ Pushed(r) PROVE WorkspaceFits'
  BY <1>6 DEF PushCommit, Pushed, WorkspaceFits
<1>7. ASSUME NEW r \in pending, NEW mode, NEW target, NEW c, ResumeCommit(r, mode, target, c)
      PROVE  WorkspaceFits'
  BY <1>7, Clones DEF ResumeCommit, WorkspaceFits
<1>8. ASSUME NEW r \in pending, NEW mode, NEW c, ResumeTorn(r, mode, c)
      PROVE  WorkspaceFits'
  BY <1>8, Clones DEF ResumeTorn, WorkspaceFits
<1>9. ASSUME NEW r \in pending, PullRequest(r) PROVE WorkspaceFits'
  BY <1>9, PullRequestWorks DEF WorkspaceFits
<1> QED
  BY <1>1, <1>2, <1>3, <1>4, <1>5, <1>6, <1>7, <1>8, <1>9, WorkspaceTouched

-----------------------------------------------------------------------------
(* Requests and what they have read.                                       *)

\* Mishaps are not undone, but for a commit, by a checkpoint.
LEMMA MishapsStay ==
  ASSUME [Next]_vars
  PROVE  /\ \A m \in mishaps : m # "committed" => m \in mishaps'
         /\ mishaps \subseteq mishaps' \/ \E e \in execution : ReportDone(e)
<1>1. CASE UNCHANGED vars
  BY <1>1 DEF vars
<1>2. CASE \E i \in Items : Claim(i)
  BY <1>2 DEF Claim
<1>3. CASE \E e \in execution : Write(e) \/ ReportDone(e)
                                 \/ \E why \in {"code", "confirm", "budget"} : ReportFailed(e, why)
  BY <1>3 DEF Write, ReportDone, ReportFailed
<1>4. CASE \/ CancelStarved \/ GiveUp \/ Unresolvable \/ Complete \/ PauseForSpend
           \/ Cancel \/ Extend \/ Confirm \/ Discard \/ ResumeRun \/ UnblockRead \/ PushRead \/ PullRequestRead
  BY <1>4 DEF CancelStarved, GiveUp, Unresolvable, Complete, PauseForSpend, Cancel, Extend, Confirm,
              Discard, ResumeRun, UnblockRead, PushRead, PullRequestRead
<1>5. ASSUME NEW r \in pending,
             \/ ResumeItems(r) \/ UnblockCommit(r) \/ PushCommit(r) \/ PushFailed(r) \/ Pushed(r) \/ PullRequest(r)
             \/ \E mode \in Modes, c \in checkpoints :
                   \/ \E target \in Targets(r.seen) : ResumeCommit(r, mode, target, c)
                   \/ ResumeTorn(r, mode, c)
      PROVE  mishaps \subseteq mishaps'
  BY <1>5, PullRequestKeeps
  DEF ResumeItems, UnblockCommit, PushCommit, PushFailed, Pushed, ResumeCommit, ResumeTorn
<1> QED
  BY <1>1, <1>2, <1>3, <1>4, <1>5, StepCases

\* Requests have the fields of their type.
LEMMA Requesting ==
  ASSUME TypeOK
  PROVE  \A r \in pending : r \in Read(calls) /\ r.fresh \in BOOLEAN
  BY TypeIs DEF TypeParts, Read

\* An outdated request is one that was pending, but not fresh.
LEMMA OutdatedIs ==
  ASSUME TypeOK, NEW p \in Outdated(pending)
  PROVE  p.fresh = FALSE /\ \E r \in pending : p.next = r.next /\ p.status = r.status /\ p.seen = r.seen
<1>1. PICK r \in pending : p = [r EXCEPT !.fresh = FALSE]
  BY DEF Outdated
<1>2. r \in Read(calls)
  BY Requesting
<1> QED
  BY <1>1, <1>2 DEF Read

\* A request that goes on.
LEMMA GoesOn ==
  ASSUME TypeOK, NEW r \in pending
  PROVE  /\ LET reads == [r EXCEPT !.next = "resume", !.seen = item]
            IN  /\ reads.next = "resume" /\ reads.seen = item
                /\ reads.status = r.status /\ reads.fresh = r.fresh
         /\ \A next \in {"push", "patch", "publish"} :
               LET goes == [r EXCEPT !.next = next]
               IN  /\ goes.next = next /\ goes.seen = r.seen
                   /\ goes.status = r.status /\ goes.fresh = r.fresh
  BY Requesting DEF Read

\* A request that has just begun.
Begun(p) ==
  /\ p.status = run /\ p.fresh = TRUE
  /\ \/ p.next = "read_items" /\ run \in Stopped
     \/ p.next = "unblock" /\ run \in {"OPEN", "PAUSED"}
     \/ p.next = "commit" /\ run \in {"COMPLETED", "FAILED"}
     \/ p.next = "reset"
  /\ UNCHANGED <<run, item, execution, mishaps>>

\* A request that has read the items, or committed or reset the workspace.
Proceeded(p, r) ==
  /\ p.status = r.status /\ p.fresh = r.fresh
  /\ UNCHANGED <<run, item, execution>>
  /\ \/ /\ r.next = "read_items" /\ p.next = "resume" /\ p.seen = item
        /\ Active = {} /\ mishaps' = mishaps
     \/ /\ r.next = "commit" /\ p.next = "push"
        /\ mishaps' = IF run = "COMPLETED" THEN mishaps ELSE mishaps \cup {"committed"}
     \/ p.next \in {"patch", "publish"} /\ mishaps \subseteq mishaps'

\* One that waits, with what has become of the run meanwhile: opened by nobody,
\* or the request is not fresh any more.
Completes(r) == Pushed(r) /\ r.status = "FAILED"
Waited(p, r) ==
  /\ p.next = r.next /\ p.status = r.status /\ p.seen = r.seen
  /\ p.fresh = TRUE => r.fresh = TRUE /\
        (run = "OPEN" \/ run' = run \/ \E s \in pending : Completes(s) /\ run' = "COMPLETED")

LEMMA PendingAfter ==
  ASSUME TypeOK, [Next]_vars, NEW p \in pending'
  PROVE  Begun(p) \/ \E r \in pending : Proceeded(p, r) \/ Waited(p, r)
<1>1. CASE p \in Outdated(pending)
  BY <1>1, OutdatedIs DEF Waited
<1>2. ASSUME p \in pending,
             run = "OPEN" \/ run' = run \/ \E s \in pending : Completes(s) /\ run' = "COMPLETED"
      PROVE  Waited(p, p)
  BY <1>2, Requesting DEF Waited
<1>3. CASE UNCHANGED vars
  BY <1>2, <1>3 DEF vars
<1>4. CASE \E i \in Items : Claim(i)
  BY <1>2, <1>4 DEF Claim, requests
<1>5. CASE \E e \in execution : Write(e) \/ ReportDone(e)
                                 \/ \E why \in {"code", "confirm", "budget"} : ReportFailed(e, why)
  BY <1>2, <1>5 DEF Write, ReportDone, ReportFailed, requests
<1>6. CASE CancelStarved \/ GiveUp \/ Unresolvable \/ Complete \/ PauseForSpend
  BY <1>2, <1>6 DEF CancelStarved, GiveUp, Unresolvable, Complete, PauseForSpend, requests
<1>7. CASE Cancel \/ Discard
  BY <1>2, <1>7 DEF Cancel, Discard
<1>8. CASE Extend \/ Confirm
  BY <1>1, <1>8 DEF Extend, Confirm
<1>9. ASSUME NEW next, Pends(next), UNCHANGED <<run, item, execution, mishaps>>,
             \/ next = "read_items" /\ run \in Stopped
             \/ next = "unblock" /\ run \in {"OPEN", "PAUSED"}
             \/ next = "commit" /\ run \in {"COMPLETED", "FAILED"}
             \/ next = "reset"
      PROVE  Begun(p) \/ (Waited(p, p) /\ p \in pending)
  <2>1. CASE p \in pending
    BY <1>2, <1>9, <2>1
  <2>2. CASE p \notin pending
    <3>1. p = [id |-> calls, next |-> next, status |-> run, seen |-> <<>>, fresh |-> TRUE]
      BY <1>9, <2>2 DEF Pends
    <3>2. p.next = next /\ p.status = run /\ p.fresh = TRUE
      BY <3>1
    <3> QED
      BY <1>9, <3>2 DEF Begun
  <2> QED
    BY <2>1, <2>2
<1>10. CASE ResumeRun \/ UnblockRead \/ PushRead \/ PullRequestRead
  BY <1>9, <1>10 DEF ResumeRun, UnblockRead, PushRead, PullRequestRead
<1>11. ASSUME NEW r \in pending, ResumeItems(r)
       PROVE  Proceeded(p, r) \/ (Waited(p, p) /\ p \in pending)
  <2>1. CASE p \in pending
    BY <1>2, <1>11, <2>1 DEF ResumeItems
  <2>2. CASE p \notin pending
    <3>1. p = [r EXCEPT !.next = "resume", !.seen = item] /\ Active = {}
      BY <1>11, <2>2 DEF ResumeItems, Continues, Resumable
    <3>2. p.next = "resume" /\ p.seen = item /\ p.status = r.status /\ p.fresh = r.fresh
      BY <3>1, GoesOn
    <3> QED
      BY <1>11, <3>1, <3>2 DEF ResumeItems, Proceeded
  <2> QED
    BY <2>1, <2>2
<1>12. ASSUME NEW r \in pending, NEW mode, NEW target, NEW c, ResumeCommit(r, mode, target, c)
       PROVE  p \in Outdated(pending)
  BY <1>12 DEF ResumeCommit, EndsOpening, Outdated
<1>13. ASSUME NEW r \in pending, NEW mode, NEW c, ResumeTorn(r, mode, c)
       PROVE  p \in pending /\ run' = run
  BY <1>13 DEF ResumeTorn, Ends, Continues
<1>14. ASSUME NEW r \in pending, UnblockCommit(r)
       PROVE  p \in Outdated(pending) \/ (p \in pending /\ run' = run)
  BY <1>14 DEF UnblockCommit, EndsOpening, Outdated, Ends, Continues
<1>15. ASSUME NEW r \in pending, PushCommit(r)
       PROVE  Proceeded(p, r) \/ (p \in pending /\ run' = run)
  <2>1. CASE p \in pending
    BY <1>15, <2>1 DEF PushCommit
  <2>2. CASE p \notin pending
    <3>1. p = [r EXCEPT !.next = "push"] /\ tree.there
      BY <1>15, <2>2 DEF PushCommit, Ends, Continues
    <3>2. p.next = "push" /\ p.status = r.status /\ p.fresh = r.fresh
      BY <3>1, GoesOn
    <3> QED
      BY <1>15, <3>1, <3>2 DEF PushCommit, Proceeded
  <2> QED
    BY <2>1, <2>2
<1>16. ASSUME NEW r \in pending, PushFailed(r)
       PROVE  p \in pending /\ run' = run
  BY <1>16 DEF PushFailed, Ends, Continues
<1>17. ASSUME NEW r \in pending, Pushed(r)
       PROVE  p \in pending /\ (run' = run \/ (Completes(r) /\ run' = "COMPLETED"))
  BY <1>17 DEF Pushed, Ends, Continues, Completes
<1>18. ASSUME NEW r \in pending, PullRequest(r)
       PROVE  Proceeded(p, r) \/ (p \in pending /\ run' = run)
  <2>1. CASE p \in pending
    BY <1>18, <2>1, PullRequestKeeps
  <2>2. CASE p \notin pending
    <3>1. PICK next \in {"patch", "publish"} : p = [r EXCEPT !.next = next]
      BY <1>18, <2>2, PullRequestKeeps
    <3>2. p.next = next /\ p.status = r.status /\ p.fresh = r.fresh
      BY <3>1, GoesOn
    <3> QED
      BY <1>18, <3>2, PullRequestKeeps DEF Proceeded
  <2> QED
    BY <2>1, <2>2
<1> HIDE DEF Begun, Proceeded, Waited, Completes
<1> QED
  BY <1>1, <1>2, <1>3, <1>4, <1>5, <1>6, <1>7, <1>8, <1>10, <1>11, <1>12, <1>13, <1>14, <1>15,
     <1>16, <1>17, <1>18, OutdatedIs, StepCases

LEMMA RequestsStep ==
  ASSUME TypeOK, RequestsFit, [Next]_vars
  PROVE  RequestsFit'
<1> SUFFICES ASSUME NEW p \in pending'
             PROVE  /\ p.next \in {"read_items", "resume"} => p.status \in Stopped
                    /\ p.next = "resume" => p.seen \in [Items -> Row]
                    /\ p.next = "unblock" => p.status \in {"OPEN", "PAUSED"}
                    /\ p.next \in {"commit", "push"} => p.status \in {"COMPLETED", "FAILED"}
  BY DEF RequestsFit
<1>1. CASE Begun(p)
  BY <1>1 DEF Begun
<1>2. ASSUME NEW r \in pending, Proceeded(p, r) PROVE
                    /\ p.next \in {"read_items", "resume"} => p.status \in Stopped
                    /\ p.next = "resume" => p.seen \in [Items -> Row]
                    /\ p.next = "unblock" => p.status \in {"OPEN", "PAUSED"}
                    /\ p.next \in {"commit", "push"} => p.status \in {"COMPLETED", "FAILED"}
  BY <1>2, TypeIs DEF Proceeded, RequestsFit, TypeParts
<1>3. ASSUME NEW r \in pending, Waited(p, r) PROVE
                    /\ p.next \in {"read_items", "resume"} => p.status \in Stopped
                    /\ p.next = "resume" => p.seen \in [Items -> Row]
                    /\ p.next = "unblock" => p.status \in {"OPEN", "PAUSED"}
                    /\ p.next \in {"commit", "push"} => p.status \in {"COMPLETED", "FAILED"}
  BY <1>3 DEF Waited, RequestsFit
<1> QED
  BY <1>1, <1>2, <1>3, PendingAfter

\* A resume that nothing overtook finds the run stopped and idle.
LEMMA FreshResume ==
  ASSUME TypeOK, RequestsFit, ReadIsCurrent, "overlap" \notin mishaps',
         NEW r \in pending, mishaps \subseteq mishaps', Overlap(r) \subseteq mishaps'
  PROVE  /\ r.fresh = TRUE /\ StillHolds(r)
         /\ r.next = "resume" => Idle /\ run # "OPEN" /\ r.status \in Stopped
<1>1. r.fresh = TRUE
  BY Requesting DEF Overlap
<1>2. StillHolds(r)
  BY <1>1 DEF ReadIsCurrent
<1> QED
  BY <1>1, <1>2 DEF StillHolds, RequestsFit, Stopped

LEMMA FreshCommit ==
  ASSUME TypeOK, RequestsFit, ReadIsCurrent, "overlap" \notin mishaps', NEW r \in pending,
         \/ \E mode, target, c : ResumeCommit(r, mode, target, c)
         \/ \E mode, c : ResumeTorn(r, mode, c)
  PROVE  r.fresh = TRUE /\ StillHolds(r) /\ Idle /\ run # "OPEN" /\ r.status \in Stopped
<1>1. mishaps \subseteq mishaps' /\ Overlap(r) \subseteq mishaps' /\ r.next = "resume"
  BY DEF ResumeCommit, ResumeTorn
<1> QED
  BY <1>1, FreshResume

\* Nothing begins in a run that is not open.
LEMMA IdleStays ==
  ASSUME TypeOK, Idle, run # "OPEN", [Next]_vars
  PROVE  Idle'
<1>1. \A i \in Items : ~Claim(i)
  BY DEF Claim
<1>2. execution = {} /\ \A i \in Items : item[i].status # "RUNNING"
  BY DEF Idle, Active, WithStatus
<1>3. execution' = {}
  BY <1>1, <1>2, OnlyWorkersWork DEF Next, vars
<1>4. \A i \in Items : item'[i].status # "RUNNING"
  BY <1>1, <1>2, ItemsTouched, RowsKept, RowsRequeued
<1> QED
  BY <1>3, <1>4 DEF Idle, Active, WithStatus

LEMMA ReadStep ==
  ASSUME TypeOK, TypeOK', RequestsFit, ExecutedIsRunning, StoppedIsIdle, ReadIsCurrent, [Next]_vars
  PROVE  ReadIsCurrent'
<1> SUFFICES ASSUME "overlap" \notin mishaps', NEW p \in pending', p.fresh
             PROVE  StillHolds(p)'
  BY DEF ReadIsCurrent
<1>0. "overlap" \notin mishaps
  BY MishapsStay
<1>1. CASE Begun(p)
  BY <1>1 DEF Begun, StillHolds
<1>2. ASSUME NEW r \in pending, Proceeded(p, r) PROVE StillHolds(p)'
  <2>1. r.fresh /\ StillHolds(r)
    BY <1>0, <1>2, Requesting DEF Proceeded, ReadIsCurrent
  <2>2. CASE r.next = "read_items" /\ p.next = "resume"
    <3>1. Active = {} /\ execution = {}
      BY <1>0, <1>2, <2>2, Numbers DEF Proceeded, ExecutedIsRunning, Active, WithStatus
    <3>2. Idle' /\ p.next = "resume"
      BY <1>2, <2>2, <3>1 DEF Proceeded, Idle, Active, WithStatus
    <3> QED
      BY <1>2, <2>1, <2>2, <3>2 DEF Proceeded, StillHolds
  <2>3. CASE r.next = "commit" /\ p.next = "push"
    <3>1. r.status \in {"COMPLETED", "FAILED"}
      BY <2>3 DEF RequestsFit
    <3> QED
      BY <1>2, <2>1, <2>3, <3>1 DEF Proceeded, StillHolds
  <2>4. CASE p.next \in {"patch", "publish"} /\ mishaps \subseteq mishaps'
    BY <1>2, <2>1, <2>4 DEF Proceeded, StillHolds
  <2> QED
    BY <1>2, <2>2, <2>3, <2>4 DEF Proceeded
<1>3. ASSUME NEW r \in pending, Waited(p, r) PROVE StillHolds(p)'
  <2>1. p.fresh = TRUE
    BY TypeIsNext DEF TypeParts, Read
  <2>2. r.fresh = TRUE /\ StillHolds(r)
    BY <1>0, <1>3, <2>1 DEF Waited, ReadIsCurrent
  <2>3. run = "OPEN" \/ run' = run \/ \E s \in pending : Completes(s) /\ run' = "COMPLETED"
    BY <1>3, <2>1 DEF Waited
  <2>4. run \in {"FAILED", "COMPLETED"} => mishaps \subseteq mishaps'
    BY <1>0, MishapsStay DEF StoppedIsIdle, Idle
  <2>5. CASE run # "OPEN" /\ run' # run
    <3>1. PICK s \in pending : Completes(s) /\ run' = "COMPLETED"
      BY <2>3, <2>5
    <3>2. s.next = "push" /\ s.status = "FAILED" /\ mishaps \subseteq mishaps' /\ Overlap(s) \subseteq mishaps'
      BY <3>1 DEF Completes, Pushed
    <3>3. s.fresh = TRUE /\ StillHolds(s)
      BY <3>2, FreshResume
    <3>4. run = "FAILED" /\ "committed" \in mishaps
      BY <2>5, <3>1, <3>2, <3>3 DEF StillHolds
    <3>5. r.status \in {"FAILED", "OPEN"}
      BY <2>2, <3>4 DEF StillHolds
    <3>6. r.next # "resume" \/ Idle'
      BY <2>2, <2>5, IdleStays DEF StillHolds
    <3> QED
      BY <1>3, <2>2, <3>1, <3>2, <3>4, <3>5, <3>6 DEF StillHolds, Waited
  <2>6. CASE run = "OPEN" \/ run' = run
    <3>1. r.status # "OPEN" => run # "OPEN"
      BY <2>2 DEF StillHolds
    <3>2. r.status # "OPEN" => run' = run
      BY <2>6, <3>1
    <3>3. r.next = "resume" => Idle'
      BY <2>2, <3>1, IdleStays DEF StillHolds, RequestsFit, Stopped
    <3>4. r.next = "push" => r.status \in {"COMPLETED", "FAILED"}
      BY DEF RequestsFit
    <3> QED
      BY <1>3, <2>2, <2>4, <3>1, <3>2, <3>3, <3>4 DEF StillHolds, Waited
  <2> QED
    BY <2>5, <2>6
<1> QED
  BY <1>1, <1>2, <1>3, PendingAfter

\* Who changes the status of a run to one that a stopped run does not leave.
LEMMA RunTouched ==
  ASSUME [Next]_vars, run' # run, run' \in {"FAILED", "COMPLETED"}
  PROVE  GiveUp \/ Unresolvable \/ Complete \/ \E r \in pending : Completes(r)
<1>1. CASE UNCHANGED vars
  BY <1>1 DEF vars
<1>2. CASE \E i \in Items : Claim(i)
  BY <1>2 DEF Claim
<1>3. CASE \E e \in execution : Write(e) \/ ReportDone(e)
                                 \/ \E why \in {"code", "confirm", "budget"} : ReportFailed(e, why)
  BY <1>3 DEF Write, ReportDone, ReportFailed
<1>4. CASE \/ CancelStarved \/ PauseForSpend
           \/ Cancel \/ Extend \/ Confirm \/ Discard \/ ResumeRun \/ UnblockRead \/ PushRead \/ PullRequestRead
  BY <1>4 DEF CancelStarved, PauseForSpend, Cancel, Extend, Confirm, Discard, ResumeRun, UnblockRead, PushRead, PullRequestRead
<1>5. ASSUME NEW r \in pending,
             \/ ResumeItems(r) \/ UnblockCommit(r) \/ PushCommit(r) \/ PushFailed(r) \/ Pushed(r) \/ PullRequest(r)
             \/ \E mode \in Modes, c \in checkpoints :
                   \/ \E target \in Targets(r.seen) : ResumeCommit(r, mode, target, c)
                   \/ ResumeTorn(r, mode, c)
      PROVE  Completes(r)
  BY <1>5, PullRequestKeeps
  DEF ResumeItems, UnblockCommit, PushCommit, PushFailed, Pushed, ResumeCommit, ResumeTorn, Completes
<1> QED
  BY <1>1, <1>2, <1>3, <1>4, <1>5, StepCases

LEMMA IdleStep ==
  ASSUME TypeOK, RequestsFit, ExecutedIsRunning, StoppedIsIdle, ReadIsCurrent, [Next]_vars
  PROVE  StoppedIsIdle'
<1> SUFFICES ASSUME run' \in {"FAILED", "COMPLETED"}, "overlap" \notin mishaps'
             PROVE  Idle'
  BY DEF StoppedIsIdle
<1>0. "overlap" \notin mishaps
  BY MishapsStay
<1>1. CASE run \in {"FAILED", "COMPLETED"}
  BY <1>0, <1>1, IdleStays DEF StoppedIsIdle
<1>2. CASE GiveUp \/ Unresolvable \/ Complete
  <2>1. Active = {} /\ execution = {}
    BY <1>0, <1>2, Numbers DEF GiveUp, Unresolvable, Complete, Finished, ExecutedIsRunning, Active, WithStatus
  <2>2. execution' = execution /\ item' \in {item, CanceledQueued}
    BY <1>2 DEF GiveUp, Unresolvable, Complete
  <2>3. \A i \in Items : item'[i].status # "RUNNING"
    BY <2>1, <2>2, RowsKept DEF Active, WithStatus
  <2> QED
    BY <2>1, <2>2, <2>3 DEF Idle, Active, WithStatus
<1>3. ASSUME NEW r \in pending, Completes(r) PROVE Idle'
  <2>1. r.next = "push" /\ r.status = "FAILED" /\ mishaps \subseteq mishaps' /\ Overlap(r) \subseteq mishaps'
    BY <1>3 DEF Completes, Pushed
  <2>2. run \in {"FAILED", "COMPLETED"}
    BY <2>1, FreshResume DEF StillHolds
  <2> QED
    BY <1>1, <2>2
<1> QED
  BY <1>1, <1>2, <1>3, RunTouched

-----------------------------------------------------------------------------
(* Executions.                                                             *)

LEMMA ExecutionStep ==
  ASSUME TypeOK, RequestsFit, ReadIsCurrent, NumberedApart, OneExecutionEach, ExecutedIsRunning, [Next]_vars
  PROVE  OneExecutionEach' /\ ExecutedIsRunning'
<1> SUFFICES ASSUME "overlap" \notin mishaps'
             PROVE  /\ \A e, f \in execution' : e.job = f.job => e = f
                    /\ \A e \in execution' : item'[e.job].status = "RUNNING"
  BY DEF OneExecutionEach, ExecutedIsRunning
<1>0. /\ \A e, f \in execution : e.job = f.job => e = f
      /\ \A e \in execution : item[e.job].status = "RUNNING"
  BY MishapsStay DEF OneExecutionEach, ExecutedIsRunning
<1>1. ASSUME UNCHANGED execution, \A i \in Items : item[i].status = "RUNNING" => item'[i] = item[i]
      PROVE  /\ \A e, f \in execution' : e.job = f.job => e = f
             /\ \A e \in execution' : item'[e.job].status = "RUNNING"
  BY <1>0, <1>1, Numbers
<1>2. ASSUME NEW i \in Items, Claim(i)
      PROVE  /\ \A e, f \in execution' : e.job = f.job => e = f
             /\ \A e \in execution' : item'[e.job].status = "RUNNING"
  <2> DEFINE new == [job |-> i, since |-> started + 1, wrote |-> FALSE]
  <2>1. execution' = execution \cup {new} /\ new.job = i
    BY <1>2 DEF Claim
  <2> HIDE DEF new
  <2>2. item[i].status = "QUEUED" /\ item' = [item EXCEPT ![i].status = "RUNNING"]
    BY <1>2 DEF Claim, Runnable, WithStatus
  <2>3. item'[i].status = "RUNNING" /\ \A j \in Items : j # i => item'[j] = item[j]
    BY <2>2, TypeIs DEF TypeParts, Row
  <2> QED
    BY <1>0, <2>1, <2>2, <2>3, Numbers
<1>3. ASSUME NEW e \in execution, Write(e)
      PROVE  /\ \A d, f \in execution' : d.job = f.job => d = f
             /\ \A d \in execution' : item'[d.job].status = "RUNNING"
  <2> DEFINE new == [e EXCEPT !.wrote = TRUE]
  <2>1. e \in Executed(started)
    BY Numbers
  <2>2. new.job = e.job
    BY <2>1 DEF Executed
  <2>3. execution' = (execution \ {e}) \cup {new} /\ item' = item
    BY <1>3 DEF Write
  <2> HIDE DEF new
  <2> QED
    BY <1>0, <2>2, <2>3
<1>4. ASSUME NEW e \in execution, NEW row, item' = [item EXCEPT ![e.job] = row], execution' = execution \ {e}
      PROVE  /\ \A d, f \in execution' : d.job = f.job => d = f
             /\ \A d \in execution' : item'[d.job].status = "RUNNING"
  BY <1>0, <1>4, Numbers, TypeIs DEF TypeParts
<1>5. ASSUME NEW e \in execution, ReportDone(e) \/ \E why \in {"code", "confirm", "budget"} : ReportFailed(e, why)
      PROVE  /\ \A d, f \in execution' : d.job = f.job => d = f
             /\ \A d \in execution' : item'[d.job].status = "RUNNING"
  BY <1>4, <1>5 DEF ReportDone, ReportFailed
<1>6. ASSUME NEW r \in pending, NEW mode, NEW target, NEW c, ResumeCommit(r, mode, target, c)
      PROVE  execution' = {}
  BY <1>6, FreshCommit DEF ResumeCommit, Idle
<1>7. CASE UNCHANGED vars
  BY <1>1, <1>7 DEF vars
<1>8. CASE Tick \/ PauseForSpend \/ Request \/ \E r \in pending : Serve(r)
  <2>1. UNCHANGED execution
    BY <1>8, OnlyWorkersWork
  <2>2. CASE item' \in {item, CanceledQueued, RequeuedFor("confirm"), RequeuedFor("budget")}
    BY <1>1, <2>1, <2>2, RowsKept
  <2> QED
    BY <1>2, <1>5, <1>6, <2>2, ItemsTouched
<1> QED
  BY <1>2, <1>3, <1>5, <1>7, <1>8 DEF Next, Report

-----------------------------------------------------------------------------
(* What is in the workspace.                                               *)

\* An opening that nothing overtook opens a run that has stopped and was not
\* completed, unless a push has committed its workspace.
LEMMA FreshOpening ==
  ASSUME TypeOK, RequestsFit, ReadIsCurrent, [Next]_vars, "overlap" \notin mishaps',
         run' # run, run \notin {"OPEN", "PAUSED"}, run' # "COMPLETED"
  PROVE  \E r \in pending, mode \in Modes, c \in checkpoints :
            /\ \E target \in Targets(r.seen) : ResumeCommit(r, mode, target, c)
            /\ r.status # "PAUSED"
            /\ run = "COMPLETED" => "committed" \in mishaps
<1>1. CASE UNCHANGED vars
  BY <1>1 DEF vars
<1>2. CASE \E i \in Items : Claim(i)
  BY <1>2 DEF Claim
<1>3. CASE \E e \in execution : Write(e) \/ ReportDone(e)
                                 \/ \E why \in {"code", "confirm", "budget"} : ReportFailed(e, why)
  BY <1>3 DEF Write, ReportDone, ReportFailed
<1>4. CASE \/ CancelStarved \/ GiveUp \/ Unresolvable \/ Complete \/ PauseForSpend
           \/ Cancel \/ Extend \/ Confirm \/ Discard \/ ResumeRun \/ UnblockRead \/ PushRead \/ PullRequestRead
  BY <1>4 DEF CancelStarved, GiveUp, Unresolvable, Complete, PauseForSpend, Cancel, Extend, Confirm,
              Discard, ResumeRun, UnblockRead, PushRead, PullRequestRead
<1>5. ASSUME NEW r \in pending,
             \/ ResumeItems(r) \/ PushCommit(r) \/ PushFailed(r) \/ Pushed(r) \/ PullRequest(r)
             \/ \E mode \in Modes, c \in checkpoints : ResumeTorn(r, mode, c)
      PROVE  FALSE
  BY <1>5, PullRequestKeeps DEF ResumeItems, PushCommit, PushFailed, Pushed, ResumeTorn
<1>6. ASSUME NEW r \in pending, UnblockCommit(r) PROVE FALSE
  <2>1. r.status = "PAUSED" /\ mishaps \subseteq mishaps' /\ Overlap(r) \subseteq mishaps'
    BY <1>6 DEF UnblockCommit
  <2>2. StillHolds(r)
    BY <2>1, FreshResume
  <2> QED
    BY <2>1, <2>2 DEF StillHolds
<1>7. ASSUME NEW r \in pending, NEW mode, NEW target, NEW c, ResumeCommit(r, mode, target, c)
      PROVE  r.status # "PAUSED" /\ (run = "COMPLETED" => "committed" \in mishaps)
  <2>1. StillHolds(r) /\ r.status \in Stopped
    BY <1>7, FreshCommit
  <2> QED
    BY <2>1 DEF StillHolds, Stopped
<1> QED
  BY <1>1, <1>2, <1>3, <1>4, <1>5, <1>6, <1>7, StepCases

LEMMA WrittenStep ==
  ASSUME TypeOK, RequestsFit, ReadIsCurrent, WorkspaceFits, WrittenIsThere, [Next]_vars
  PROVE  WrittenIsThere'
<1> SUFFICES ASSUME "overlap" \notin mishaps', "discarded" \notin mishaps', "reset" \notin mishaps'
             PROVE  /\ run' \in {"OPEN", "PAUSED"} => tree'.there
                    /\ tree'.there => \A e \in execution' : e.wrote => e.job \in tree'.work
  BY DEF WrittenIsThere
<1>0. /\ run \in {"OPEN", "PAUSED"} => tree.there
      /\ tree.there => \A e \in execution : e.wrote => e.job \in tree.work
      /\ tree \in Tree
  BY MishapsStay, TypeIs DEF WrittenIsThere, TypeParts
<1>1. run' \in {"OPEN", "PAUSED"} => tree'.there
  <2>1. CASE Discard
    BY <2>1 DEF Discard
  <2>2. CASE ~Discard
    <3>1. tree.there => tree'.there
      <4>1. ASSUME NEW i \in Items, Claim(i) PROVE tree'.there
        BY <4>1, Clones DEF Claim
      <4>2. ASSUME NEW e \in execution, Write(e) PROVE tree'.there = tree.there
        BY <1>0, <4>2 DEF Write, Tree
      <4>3. ASSUME NEW r \in pending, NEW mode, NEW c,
                   (\E target : ResumeCommit(r, mode, target, c)) \/ ResumeTorn(r, mode, c)
            PROVE  tree.there => tree'.there
        BY <4>3 DEF ResumeCommit, ResumeTorn
      <4>4. CASE tree' = tree
        BY <4>4
      <4>5. ASSUME NEW r \in pending, PullRequest(r) PROVE tree.there => tree'.there
        BY <4>5, PullRequestWorks
      <4> QED
        BY <2>2, <4>1, <4>2, <4>3, <4>4, <4>5, WorkspaceTouched DEF workspace, Complete, PushCommit, Pushed
    <3>2. ASSUME NEW r, NEW mode, NEW target, NEW c, ResumeCommit(r, mode, target, c), r.status # "PAUSED"
          PROVE  tree'.there
      BY <3>2 DEF ResumeCommit, Restores
    <3>3. CASE run \notin {"OPEN", "PAUSED"} /\ run' \in {"OPEN", "PAUSED"}
      <4>1. run' # run /\ run' # "COMPLETED"
        BY <3>3
      <4> QED
        BY <3>2, <3>3, <4>1, FreshOpening
    <3> QED
      BY <1>0, <3>1, <3>3
  <2> QED
    BY <2>1, <2>2
<1>2. tree'.there => \A e \in execution' : e.wrote => e.job \in tree'.work
  <2>1. ASSUME NEW i \in Items, Claim(i)
        PROVE  tree'.there => \A e \in execution' : e.wrote => e.job \in tree'.work
    <3>1. tree.there /\ tree' = tree
      BY <1>0, <2>1, Clones DEF Claim
    <3> QED
      BY <1>0, <2>1, <3>1 DEF Claim
  <2>2. ASSUME NEW e \in execution, Write(e)
        PROVE  tree'.there => \A f \in execution' : f.wrote => f.job \in tree'.work
    <3> DEFINE new == [e EXCEPT !.wrote = TRUE]
    <3>1. e \in Executed(started)
      BY Numbers
    <3>2. new.job = e.job
      BY <3>1 DEF Executed
    <3>3. execution' = (execution \ {e}) \cup {new}
      BY <2>2 DEF Write
    <3> HIDE DEF new
    <3>4. tree'.there = tree.there /\ (tree.there => tree'.work = tree.work \cup {e.job})
      BY <1>0, <2>2 DEF Write, Tree
    <3> QED
      BY <1>0, <3>2, <3>3, <3>4
  <2>3. CASE tree' = tree /\ execution' \subseteq execution
    BY <1>0, <2>3
  <2>4. ASSUME NEW e \in execution, Report(e)
        PROVE  tree' = tree /\ execution' \subseteq execution
    BY <2>4 DEF Report, ReportDone, ReportFailed, workspace
  <2>5. CASE Discard
    BY <2>5 DEF Discard
  <2>6. ASSUME NEW r \in pending, NEW mode, NEW c,
               (\E target : ResumeCommit(r, mode, target, c)) \/ ResumeTorn(r, mode, c)
        PROVE  execution' = {}
    <3>1. Idle
      BY <2>6, FreshCommit
    <3>2. execution' = execution
      BY <2>6 DEF ResumeCommit, ResumeTorn
    <3> QED
      BY <3>1, <3>2 DEF Idle
  <2>8. ASSUME NEW r \in pending, PullRequest(r)
        PROVE  tree'.there => \A e \in execution' : e.wrote => e.job \in tree'.work
    <3>1. execution' = execution
      BY <2>8, PullRequestKeeps
    <3>2. CASE PullRequestReset(r)
      <4>1. AtStake \subseteq remote /\ tree'.work = remote
        BY <3>2 DEF PullRequestReset
      <4>2. \A e \in execution : e.wrote => e.job \in AtStake
        BY DEF AtStake
      <4> QED
        BY <3>1, <4>1, <4>2
    <3>3. CASE ~PullRequestReset(r)
      BY <1>0, <2>8, <3>1, <3>3, PullRequestWorks
    <3> QED
      BY <3>2, <3>3
  <2>7. CASE Tick \/ PauseForSpend \/ Request \/ \E r \in pending : Serve(r)
    <3>1. execution' = execution
      BY <2>7, OnlyWorkersWork
    <3>2. CASE tree' = tree
      BY <2>3, <3>1, <3>2
    <3> QED
      BY <2>1, <2>2, <2>5, <2>6, <2>8, <3>2, WorkspaceTouched DEF workspace, Complete, PushCommit, Pushed
  <2> QED
    BY <2>1, <2>2, <2>3, <2>4, <2>7 DEF Next, vars
<1> QED
  BY <1>1, <1>2

-----------------------------------------------------------------------------
(* Checkpoints.                                                            *)

\* The commit a resume would start from contains no more after a step that does
\* not commit; it contains less when a pull request has reset the workspace.
LEMMA CloneShrinks ==
  ASSUME TypeOK, WorkspaceFits, [Next]_vars, run # "COMPLETED", run' # "COMPLETED",
         "committed" \notin mishaps', "discarded" \notin mishaps'
  PROVE  ClonedHead' \subseteq ClonedHead
<1>0. tree \in Tree
  BY TypeIs DEF TypeParts
<1>1. CASE UNCHANGED workspace
  BY <1>1 DEF ClonedHead, workspace
<1>2. ASSUME NEW i \in Items, Claim(i) PROVE ClonedHead' \subseteq ClonedHead
  <2>1. tree'.there /\ head' = ClonedHead
    BY <1>2, Clones DEF Claim
  <2> QED
    BY <2>1 DEF ClonedHead
<1>3. ASSUME NEW e \in execution, Write(e) PROVE ClonedHead' \subseteq ClonedHead
  <2>1. tree'.there = tree.there /\ head' = head /\ remote' = remote
    BY <1>0, <1>3 DEF Write, Tree
  <2> QED
    BY <2>1 DEF ClonedHead
<1>4. CASE Complete
  BY <1>4 DEF Complete
<1>5. CASE Discard
  <2>1. head \subseteq remote /\ remote' = remote /\ ~tree'.there
    BY <1>5 DEF Discard
  <2>2. tree.there => head = remote
    BY <2>1 DEF WorkspaceFits
  <2> QED
    BY <2>1, <2>2 DEF ClonedHead
<1>6. ASSUME NEW r \in pending, PushCommit(r) PROVE ClonedHead' \subseteq ClonedHead
  <2>1. UNCHANGED <<tree, head, remote>>
    BY <1>6 DEF PushCommit
  <2> QED
    BY <2>1 DEF ClonedHead
<1>7. ASSUME NEW r \in pending, Pushed(r) PROVE ClonedHead' \subseteq ClonedHead
  <2>1. tree.there /\ tree' = tree /\ head' = head
    BY <1>7 DEF Pushed
  <2> QED
    BY <2>1 DEF ClonedHead
<1>8. ASSUME NEW r \in pending, NEW mode, NEW c,
             (\E target : ResumeCommit(r, mode, target, c)) \/ ResumeTorn(r, mode, c)
      PROVE  ClonedHead' \subseteq ClonedHead
  <2>1. \/ tree'.there /\ head' = ClonedHead
        \/ UNCHANGED <<tree, head, remote>>
    BY <1>8 DEF ResumeCommit, ResumeTorn
  <2> QED
    BY <2>1 DEF ClonedHead
<1>9. ASSUME NEW r \in pending, PullRequest(r) PROVE ClonedHead' \subseteq ClonedHead
  <2>1. ~PullRequestCommit(r)
    BY DEF PullRequestCommit
  <2>2. CASE PullRequestReset(r)
    BY <1>9, <2>2, PullRequestWorks, Clones DEF ClonedHead, PullRequestReset
  <2>3. CASE ~PullRequestReset(r)
    BY <1>9, <2>1, <2>3, PullRequestWorks DEF ClonedHead
  <2> QED
    BY <2>2, <2>3
<1> QED
  BY <1>1, <1>2, <1>3, <1>4, <1>5, <1>6, <1>7, <1>8, <1>9, WorkspaceTouched

LEMMA AppliesStep ==
  ASSUME TypeOK, TypeOK', RequestsFit, ReadIsCurrent, NumberedApart, NumberedApart', WorkspaceFits,
         CheckpointApplies, [Next]_vars
  PROVE  CheckpointApplies'
<1> SUFFICES ASSUME run' # "COMPLETED", "overlap" \notin mishaps', "committed" \notin mishaps',
                    "late" \notin mishaps', "discarded" \notin mishaps'
             PROVE  LatestCheckpoint'.work \cap ClonedHead' = {}
  BY DEF CheckpointApplies, Applies
<1>1. ASSUME NEW e \in execution, ReportDone(e) PROVE LatestCheckpoint'.work \cap ClonedHead' = {}
  <2>1. LatestCheckpoint'.work = Diff
    BY <1>1, LatestAfterReport
  <2>2. tree.there /\ tree' = tree /\ head' = head
    BY <1>1 DEF ReportDone, workspace
  <2> QED
    BY <2>1, <2>2 DEF ClonedHead, Diff
<1>2. ASSUME checkpoints' = checkpoints, mishaps \subseteq mishaps'
      PROVE  LatestCheckpoint'.work \cap ClonedHead' = {}
  <2>1. CASE run # "COMPLETED"
    <3>1. LatestCheckpoint.work \cap ClonedHead = {}
      BY <1>2, <2>1 DEF CheckpointApplies, Applies
    <3> QED
      BY <1>2, <2>1, <3>1, CloneShrinks, LatestStays
  <2>2. CASE run = "COMPLETED"
    BY <1>2, <2>2, FreshOpening
  <2> QED
    BY <2>1, <2>2
<1>3. checkpoints' = checkpoints \/ \E e \in execution : ReportDone(e)
  <2>1. CASE UNCHANGED vars
    BY <2>1 DEF vars
  <2>2. CASE \E i \in Items : Claim(i)
    BY <2>2 DEF Claim
  <2>3. CASE \E e \in execution : Write(e) \/ Report(e)
    BY <2>3 DEF Write, Report, ReportFailed
  <2> QED
    BY <2>1, <2>2, <2>3, OnlyWorkersWork DEF Next
<1> QED
  BY <1>1, <1>2, <1>3, MishapsStay

-----------------------------------------------------------------------------
(* Work that is done.                                                      *)

\* Edits of done items: in the workspace, and committed or in a checkpoint.
Edits == WithStatus({"DONE"}) \ NewFiles
Safe ==
  IF tree.there THEN Edits \subseteq tree.work /\ Edits \subseteq LatestCheckpoint.work \cup head
                ELSE Edits \subseteq LatestCheckpoint.work \cup remote

LEMMA SafeIs == WorkIsKept /\ WorkIsSafe <=> (mishaps \subseteq {"committed"} => Safe)
  BY DEF WorkIsKept, WorkIsSafe, Safe, Edits, Kept, WithStatus

LEMMA SafeIsNext == WorkIsKept' /\ WorkIsSafe' <=> (mishaps' \subseteq {"committed"} => Safe')
  BY DEF WorkIsKept, WorkIsSafe, Safe, Edits, Kept, WithStatus

LEMMA EditsAfter ==
  ASSUME TypeOK, [Next]_vars
  PROVE  Edits' \subseteq Edits \/ \E e \in execution : ReportDone(e)
<1>1. ASSUME \A i \in Items : item'[i].status = "DONE" => item[i].status = "DONE"
      PROVE  Edits' \subseteq Edits
  BY <1>1 DEF Edits, WithStatus
<1>2. ASSUME NEW i \in Items, Claim(i)
      PROVE  \A j \in Items : item'[j].status = "DONE" => item[j].status = "DONE"
  BY <1>2, TypeIs DEF Claim, TypeParts, Row
<1>3. ASSUME NEW e \in execution, NEW why \in {"code", "confirm", "budget"}, ReportFailed(e, why)
      PROVE  \A j \in Items : item'[j].status = "DONE" => item[j].status = "DONE"
  BY <1>3, TypeIs DEF ReportFailed, TypeParts
<1>4. CASE UNCHANGED item
  BY <1>1, <1>4
<1>5. CASE item' \in {CanceledQueued, RequeuedFor("confirm"), RequeuedFor("budget")}
  BY <1>1, <1>5, RowsKept
<1>6. ASSUME NEW r \in pending, NEW mode, NEW target, NEW c, ResumeCommit(r, mode, target, c)
      PROVE  \A j \in Items : item'[j].status = "DONE" => item[j].status = "DONE"
  BY <1>6, RowsRequeued
<1> QED
  BY <1>1, <1>2, <1>3, <1>4, <1>5, <1>6, ItemsTouched

LEMMA SafeStep ==
  ASSUME TypeOK, TypeOK', NumberedApart, NumberedApart', WorkspaceFits, WrittenIsThere,
         WorkIsKept, WorkIsSafe, [Next]_vars
  PROVE  WorkIsKept' /\ WorkIsSafe'
<1> SUFFICES ASSUME mishaps' \subseteq {"committed"} PROVE Safe'
  BY SafeIsNext
<1>0. /\ Safe /\ tree \in Tree
      /\ run \in {"OPEN", "PAUSED"} => tree.there
      /\ tree.there => \A e \in execution : e.wrote => e.job \in tree.work
  BY MishapsStay, SafeIs, TypeIs DEF WrittenIsThere, TypeParts
<1>1. ASSUME NEW e \in execution, ReportDone(e) PROVE Safe'
  <2>1. LatestCheckpoint'.work = Diff
    BY <1>1, LatestAfterReport
  <2>2. tree.there /\ UNCHANGED <<tree, head, remote>> /\ e.wrote
    BY <1>1 DEF ReportDone, workspace
  <2>3. Edits' \subseteq Edits \cup {e.job}
    BY <1>1, Numbers, TypeIs DEF Edits, WithStatus, ReportDone, TypeParts
  <2>4. Edits' \subseteq tree.work /\ Edits' \cap NewFiles = {}
    BY <1>0, <2>2, <2>3 DEF Safe, Edits
  <2> QED
    BY <2>1, <2>2, <2>4 DEF Safe, Diff
<1>2. ASSUME Edits' \subseteq Edits, checkpoints' = checkpoints PROVE Safe'
  <2>0. LatestCheckpoint' = LatestCheckpoint
    BY <1>2, LatestStays
  <2>1. CASE UNCHANGED workspace
    BY <1>0, <1>2, <2>0, <2>1 DEF Safe, workspace
  <2>2. ASSUME NEW i \in Items, Claim(i) PROVE UNCHANGED workspace
    BY <1>0, <2>2, Clones DEF Claim, workspace
  <2>3. ASSUME NEW e \in execution, Write(e) PROVE Safe'
    <3>1. /\ tree'.there = tree.there /\ tree.work \subseteq tree'.work
          /\ head' = head /\ remote' = remote
      BY <1>0, <2>3 DEF Write, Tree
    <3> QED
      BY <1>0, <1>2, <2>0, <3>1 DEF Safe
  <2>4. CASE Complete
    <3>1. tree.there /\ tree' = tree /\ head' = tree.work
      BY <1>0, <2>4 DEF Complete
    <3> QED
      BY <1>0, <1>2, <2>0, <3>1 DEF Safe
  <2>5. CASE Discard
    <3>1. head \subseteq remote /\ remote' = remote /\ ~tree'.there
      BY <2>5 DEF Discard
    <3> QED
      BY <1>0, <1>2, <2>0, <3>1 DEF Safe
  <2>6. ASSUME NEW r \in pending, PushCommit(r) PROVE Safe'
    <3>1. UNCHANGED workspace \/ (tree.there /\ tree' = tree /\ head' = tree.work)
      BY <2>6 DEF PushCommit, workspace
    <3> QED
      BY <1>0, <1>2, <2>0, <2>1, <3>1 DEF Safe
  <2>7. ASSUME NEW r \in pending, Pushed(r) PROVE Safe'
    <3>1. tree.there /\ tree' = tree /\ head' = head
      BY <2>7 DEF Pushed
    <3> QED
      BY <1>0, <1>2, <2>0, <3>1 DEF Safe
  <2>8. ASSUME NEW r \in pending, NEW mode, NEW target, NEW c, ResumeCommit(r, mode, target, c)
        PROVE  Safe'
    <3>1. CASE Restores(r, mode)
      <4>1. c = LatestCheckpoint /\ tree'.there /\ tree'.work = ClonedHead \cup c.work /\ head' = ClonedHead
        BY <2>8, <3>1 DEF ResumeCommit
      <4>2. Edits \subseteq LatestCheckpoint.work \cup ClonedHead
        BY <1>0, Clones DEF Safe
      <4> QED
        BY <1>2, <2>0, <4>1, <4>2 DEF Safe
    <3>2. CASE ~Restores(r, mode)
      BY <2>1, <2>8, <3>2 DEF ResumeCommit, workspace
    <3> QED
      BY <3>1, <3>2
  <2>9. ASSUME NEW r \in pending, NEW mode, NEW c, ResumeTorn(r, mode, c) PROVE FALSE
    BY <2>9 DEF ResumeTorn
  <2>10. ASSUME NEW r \in pending, PullRequest(r) PROVE Safe'
    <3>1. CASE PullRequestReset(r)
      <4>1. AtStake \subseteq remote /\ tree'.there /\ tree'.work = remote /\ head' = remote
        BY <3>1 DEF PullRequestReset
      <4>2. Edits \subseteq remote
        BY <1>0, <4>1 DEF Safe, AtStake
      <4> QED
        BY <1>2, <4>1, <4>2 DEF Safe
    <3>2. CASE PullRequestCommit(r)
      BY <1>0, <1>2, <2>10, <3>2, PullRequestWorks DEF Safe, PullRequestCommit, PullRequestReset
    <3>3. CASE ~PullRequestReset(r) /\ ~PullRequestCommit(r)
      BY <1>0, <1>2, <2>0, <2>10, <3>3, PullRequestWorks DEF Safe
    <3> QED
      BY <3>1, <3>2, <3>3
  <2> QED
    BY <2>1, <2>2, <2>3, <2>4, <2>5, <2>6, <2>7, <2>8, <2>9, <2>10, WorkspaceTouched
<1>3. checkpoints' = checkpoints \/ \E e \in execution : ReportDone(e)
  <2>1. CASE UNCHANGED vars
    BY <2>1 DEF vars
  <2>2. CASE \E i \in Items : Claim(i)
    BY <2>2 DEF Claim
  <2>3. CASE \E e \in execution : Write(e) \/ Report(e)
    BY <2>3 DEF Write, Report, ReportFailed
  <2> QED
    BY <2>1, <2>2, <2>3, OnlyWorkersWork DEF Next
<1> QED
  BY <1>1, <1>2, <1>3, EditsAfter

-----------------------------------------------------------------------------
(* The theorems.                                                           *)

LEMMA InitialControl == Init => ControlInv
<1> SUFFICES ASSUME Init PROVE ControlInv
  OBVIOUS
<1>1. TypeOK /\ IsFiniteSet(execution)
  <2>1. IsFiniteSet(execution) /\ Cardinality(execution) = 0
    BY FS_EmptySet DEF Init
  <2>2. item \in [Items -> Row]
    BY RowTypes DEF Init
  <2>3. tree \in [there : BOOLEAN, work : SUBSET Items] /\ pr \in BOOLEAN
    BY DEF Init
  <2> QED
    BY <2>1, <2>2, <2>3 DEF Init, TypeOK
<1>2. NumberedApart
  BY DEF Init, NumberedApart
<1>3. LatestCheckpoint.work = {} /\ ClonedHead = {}
  BY <1>1, <1>2, LatestIs DEF Init, ClonedHead
<1>4. \A i \in Items : item[i].status = "QUEUED"
  BY DEF Init, Queued
<1>5. WorkspaceFits /\ OneExecutionEach /\ ExecutedIsRunning /\ StoppedIsIdle /\ RequestsFit /\ ReadIsCurrent
  BY DEF Init, WorkspaceFits, OneExecutionEach, ExecutedIsRunning, StoppedIsIdle, RequestsFit, ReadIsCurrent
<1>6. CheckpointApplies /\ WrittenIsThere
  BY <1>3 DEF Init, CheckpointApplies, Applies, WrittenIsThere
<1>7. WorkIsKept /\ WorkIsSafe
  BY <1>4 DEF WorkIsKept, WorkIsSafe, WithStatus
<1> QED
  BY <1>1, <1>2, <1>5, <1>6, <1>7 DEF ControlInv

\* The invariant of RunControl: whatever requests, ticks and workers interleave,
\* what a request has read still holds unless another overtook it, and done work
\* is in the workspace, a commit or the latest checkpoint.
THEOREM ControlInvariant == Spec => []ControlInv
<1>1. ControlInv /\ [Next]_vars => ControlInv'
  <2> SUFFICES ASSUME ControlInv, [Next]_vars PROVE ControlInv'
    OBVIOUS
  <2>1. TypeOK' /\ IsFiniteSet(execution')
    BY TypeStep DEF ControlInv
  <2>2. NumberedApart'
    BY NumbersStep DEF ControlInv
  <2>3. WorkspaceFits'
    BY WorkspaceStep DEF ControlInv
  <2>4. OneExecutionEach' /\ ExecutedIsRunning'
    BY ExecutionStep DEF ControlInv
  <2>5. StoppedIsIdle'
    BY IdleStep DEF ControlInv
  <2>6. RequestsFit'
    BY RequestsStep DEF ControlInv
  <2>7. ReadIsCurrent'
    BY <2>1, ReadStep DEF ControlInv
  <2>8. CheckpointApplies'
    BY <2>1, <2>2, AppliesStep DEF ControlInv
  <2>9. WrittenIsThere'
    BY WrittenStep DEF ControlInv
  <2>10. WorkIsKept' /\ WorkIsSafe'
    BY <2>1, <2>2, SafeStep DEF ControlInv
  <2> QED
    BY <2>1, <2>2, <2>3, <2>4, <2>5, <2>6, <2>7, <2>8, <2>9, <2>10 DEF ControlInv
<1> QED
  BY <1>1, InitialControl, PTL DEF Spec

\* Rows, executions, the workspace, checkpoints and requests keep their types, and
\* no more executions go on than there are workers (persistence.py, run_resume.py).
THEOREM TypeCorrect == Spec => []TypeOK
<1>1. ControlInv => TypeOK
  BY DEF ControlInv
<1> QED
  BY <1>1, ControlInvariant, PTL

\* The edits of done items are in the workspace, or in what a resume makes of a new
\* one, whatever is canceled, paused, resumed, discarded, pushed or made a pull
\* request of, but for the mishaps (prepare_run_for_resume,
\* _restore_workspace_to_checkpoint, prepare_workspace_repo).
THEOREM NoWorkIsLost == Spec => []WorkIsKept
<1>1. ControlInv => WorkIsKept
  BY DEF ControlInv
<1> QED
  BY <1>1, ControlInvariant, PTL

\* A stopped run can be resumed from its latest checkpoint: what that holds is not
\* yet in HEAD (capture_run_checkpoint, commit_all).
THEOREM LatestApplies == Spec => []LatestCheckpointApplies
<1>1. ControlInv => LatestCheckpointApplies
  BY DEF ControlInv, CheckpointApplies, LatestCheckpointApplies, Stopped
<1> QED
  BY <1>1, ControlInvariant, PTL

\* No item is executed twice at a time, unless a request wrote what it had read
\* before another opened the run (sync_run_resume_state).
THEOREM OneAtATime == Spec => []OneExecutionEach
<1>1. ControlInv => OneExecutionEach
  BY DEF ControlInv
<1> QED
  BY <1>1, ControlInvariant, PTL

\* Nothing of a completed run executes, unless requests overlap
\* (retry_run_branch_push completes it by the status it read before the push).
THEOREM CompletedStaysIdle == Spec => []CompletedIsIdle
<1>1. ControlInv => CompletedIsIdle
  BY DEF ControlInv, StoppedIsIdle, CompletedIsIdle, Idle
<1> QED
  BY <1>1, ControlInvariant, PTL

\* A resume resets no workspace that an item is executed in, although it looks for
\* active items before it locks the run, unless requests overlap
\* (_restore_workspace_to_checkpoint).
THEOREM NobodyIsReset == Spec => ResumeFindsNobody
<1>1. ControlInv /\ [Next]_vars =>
        [\A r \in pending :
            tree' # tree /\ "overlap" \notin mishaps' /\ Resume(r) => execution = {}]_vars
  <2> SUFFICES ASSUME ControlInv, [Next]_vars, NEW r \in pending, Resume(r), "overlap" \notin mishaps'
               PROVE  execution = {}
    OBVIOUS
  <2> QED
    BY FreshCommit DEF ControlInv, Resume, Idle
<1> QED
  BY <1>1, ControlInvariant, PTL DEF Spec, ResumeFindsNobody

=============================================================================
