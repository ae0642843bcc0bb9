---------------------------- MODULE RunControlProps ----------------------------
(***************************************************************************)
(* What requests that cross each other, the workers and the scheduler may  *)
(* and may not do to a run and to the work in its workspace.  Mishaps say  *)
(* which of the ways that lose work, or that an operator did not intend,   *)
(* have been taken so far:                                                 *)
(*   overlap    a request wrote what it had read before another opened the *)
(*              run                                                        *)
(*   named      a resume restored a checkpoint that is not the latest      *)
(*   late       an item was done after one that had started later          *)
(*   discarded  a workspace was discarded while it was in use, paused, or  *)
(*              held a commit that was not pushed                          *)
(*   committed  a push of a stopped run, or a pull request, committed the  *)
(*              workspace, and no checkpoint has been captured since       *)
(*   torn       a checkpoint did not apply                                 *)
(*   reset      a pull request reset a workspace that held more than what  *)
(*              was pushed                                                 *)
(***************************************************************************)
EXTENDS RunControl

Row == [status : {"QUEUED", "RUNNING", "DONE", "FAILED", "CANCELED"},
        why : {"-", "code", "confirm", "budget"}]

TypeOK ==
    /\ run \in {"OPEN", "COMPLETED"} \cup Stopped
    /\ item \in [Items -> Row]
    /\ started \in Nat
    /\ execution \subseteq [job : Items, since : 1 .. started, wrote : BOOLEAN]
    /\ Cardinality(execution) <= Workers
    /\ tree \in [there : BOOLEAN, work : SUBSET Items]
    /\ head \subseteq Items
    /\ remote \subseteq Items
    /\ pr \in BOOLEAN
    /\ checkpoints \subseteq [at : 0 .. started, work : SUBSET Items]
    /\ calls \in 0 .. MaxCalls
    /\ pending \subseteq [id : 0 .. calls - 1,
                          next : {"read_items", "resume", "unblock", "commit", "push",
                                  "reset", "patch", "publish"},
                          status : {"OPEN", "COMPLETED"} \cup Stopped,
                          seen : [Items -> Row] \cup {<<>>},
                          fresh : BOOLEAN]
    /\ mishaps \subseteq {"overlap", "named", "late", "discarded", "committed", "torn",
                          "reset"}

\* The work of an item is in the workspace or, if that was discarded, in what a
\* resume would make of a new one.
Kept(i) == i \in IF tree.there THEN tree.work ELSE LatestCheckpoint.work \cup remote

\* An edit that a done item made is never lost, whatever is canceled, paused,
\* resumed, discarded or pushed, but for the mishaps (a resume leaves done
\* items as they are and replaces the workspace by a checkpoint).
WorkIsKept ==
    mishaps \subseteq {"committed"} => \A i \in WithStatus({"DONE"}) \ NewFiles : Kept(i)

\* What the latest checkpoint holds is not in HEAD: a stopped run can be
\* resumed from it.  A commit by a push breaks that until an item is done
\* again (_restore_workspace_to_checkpoint and commit_all).
LatestCheckpointApplies ==
    run \in Stopped /\ mishaps \cap {"overlap", "committed", "late", "discarded"} = {}
       => Applies(LatestCheckpoint)

\* A resume resets no workspace that an item is executed in: the check for
\* active items, made on rows read before the run is locked, is enough unless
\* requests overlap (sync_run_resume_state and _restore_workspace_to_checkpoint).
ResumeFindsNobody ==
    [][\A r \in pending :
          tree' # tree /\ "overlap" \notin mishaps' /\ Resume(r) => execution = {}]_vars

\* No item is executed twice at a time, however a run is canceled, paused,
\* resumed and unblocked, unless requests overlap.
OneExecutionEach ==
    "overlap" \notin mishaps => \A e, f \in execution : e.job = f.job => e = f

\* Nothing of a completed run executes or is waiting to, unless requests
\* overlap (a pushed run is COMPLETED by what the request read before its push).
CompletedIsIdle ==
    run = "COMPLETED" /\ "overlap" \notin mishaps => Active = {} /\ execution = {}

\* Why that is so.  Executions and checkpoints are told apart by when the
\* execution began, and one checkpoint is the latest.
NumberedApart ==
    /\ \A e, f \in execution : e.since = f.since => e = f
    /\ \A e \in execution, c \in checkpoints : c.at # e.since
    /\ \A c, d \in checkpoints : c.at = d.at => c = d
    /\ \E c \in checkpoints : \A d \in checkpoints : d.at <= c.at

\* A workspace contains what is committed in it, and that what was pushed.
WorkspaceFits == IF tree.there THEN head \subseteq tree.work /\ remote \subseteq head
                               ELSE head = {} /\ tree.work = {}

\* The row of an item that is executed says so.
ExecutedIsRunning == "overlap" \notin mishaps => \A e \in execution : item[e.job].status = "RUNNING"

\* Nothing executes, or is recorded as executing.
Idle == Active = {} /\ execution = {}
StoppedIsIdle == run \in {"FAILED", "COMPLETED"} /\ "overlap" \notin mishaps => Idle

\* What a request that no opening overtook has read of the run still holds, but for
\* a failed run that a push, having committed its workspace, has completed since.
StillHolds(r) ==
    /\ r.status # "OPEN" =>
          run = r.status \/ (r.status = "FAILED" /\ run = "COMPLETED" /\ "committed" \in mishaps)
    /\ r.next = "resume" => Idle
    /\ r.next = "push" /\ r.status = "FAILED" => "committed" \in mishaps
ReadIsCurrent == "overlap" \notin mishaps => \A r \in pending : r.fresh => StillHolds(r)

\* Which requests read which runs.
RequestsFit ==
    \A r \in pending :
       /\ r.next \in {"read_items", "resume"} => r.status \in Stopped
       /\ r.next = "resume" => r.seen \in [Items -> Row]
       /\ r.next = "unblock" => r.status \in {"OPEN", "PAUSED"}
       /\ r.next \in {"commit", "push"} => r.status \in {"COMPLETED", "FAILED"}

\* The latest checkpoint applies to an open run too: it may stop at any time.
CheckpointApplies ==
    run # "COMPLETED" /\ mishaps \cap {"overlap", "committed", "late", "discarded"} = {}
       => Applies(LatestCheckpoint)

\* An open run has a workspace, and what an execution wrote is in it.
WrittenIsThere ==
    mishaps \cap {"overlap", "discarded", "reset"} = {} =>
       /\ run \in {"OPEN", "PAUSED"} => tree.there
       /\ tree.there => \A e \in execution : e.wrote => e.job \in tree.work

\* What a discard or a restore would take away is committed or in the checkpoint.
WorkIsSafe ==
    mishaps \subseteq {"committed"} /\ tree.there =>
       WithStatus({"DONE"}) \ NewFiles \subseteq LatestCheckpoint.work \cup head

ControlInv ==
    /\ TypeOK
    /\ IsFiniteSet(execution)
    /\ NumberedApart
    /\ WorkspaceFits
    /\ OneExecutionEach
    /\ ExecutedIsRunning
    /\ StoppedIsIdle
    /\ RequestsFit
    /\ ReadIsCurrent
    /\ CheckpointApplies
    /\ WrittenIsThere
    /\ WorkIsKept
    /\ WorkIsSafe

\* Whatever a request requeues, and whatever it leaves failed or canceled, an
\* open run stops again: no resume mode leaves items that wait for ever.
OpenRunStops == run = "OPEN" ~> run # "OPEN"

-----------------------------------------------------------------------------
(* What the code does not do.                                              *)

\* New files of done items survive a resume as edits do ("Run resumed from the
\* last safe checkpoint", MissionControl.vue).  They do not: git diff leaves
\* them out of the checkpoint and git clean removes them.
NewFilesAreKept ==
    mishaps = {} /\ tree.there => WithStatus({"DONE"}) \subseteq tree.work
=============================================================================
