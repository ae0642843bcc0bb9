---------------------------- MODULE EmbeddedRunProps ----------------------------
(***************************************************************************)
(* What can be relied on when the API process executes a run itself.  With *)
(* two tasks on one run only that they do not execute the same item at the *)
(* same time: each overwrites what the other made of it, and one of them   *)
(* may wait for ever for an item whose dependency the other has canceled.  *)
(***************************************************************************)
EXTENDS EmbeddedRun

Statuses == {"NONE", "QUEUED", "DONE", "FAILED", "SUPERSEDED", "CANCELED"}
Attempts == 0 .. MaxAttempts - 1
Rows == [status : Statuses, attempt : Attempts]
OwnRows == [status : (Statuses \ {"NONE"}) \cup {"RUNNING"}, attempt : Attempts]
Places == {"top", "count", "failures", "select", "blocked", "cancel", "start", "execute",
           "raised", "finalize", "off"}
AtItem == {"cancel", "start", "execute", "raised"}

Task == [at : Places, seen : Concluded \cup {"RUNNING", "-"}, queued : BOOLEAN,
         failed : BOOLEAN, rest : SUBSET Items, own : [Items -> OwnRows \cup {NoRow}],
         synced : BOOLEAN, asking : BOOLEAN]

TypeOK ==
    /\ run \in Concluded \cup {"RUNNING"}
    /\ item \in [Items -> Rows]
    /\ loop \in [Loops -> Task]
    /\ \A l \in Loops : loop[l].at \in AtItem <=> loop[l].rest # {}
    /\ calls \in 0 .. MaxCalls
    /\ mishaps \in 0 .. MaxMishaps
    /\ crossed \in BOOLEAN
    /\ done \subseteq Items
    /\ redone \subseteq Items
    /\ undone \subseteq Items

\* Two tasks on one run do not execute the same item at the same time: whoever
\* updates its row first holds it until it commits (_process_work_item, which
\* tests neither the status of the item nor that of the run).
OneExecutionEach ==
    \A l, m \in Loops :
       loop[l].at = "execute" /\ loop[m].at = "execute" /\ Current(l) = Current(m) => l = m

\* Why that is so: an item under way is held by its task, which no other task
\* holds, and the row of a repair belongs, while it is new, to whoever holds the
\* item it repairs.  Only rows of items under way are RUNNING, what is in a batch
\* exists, and a task that looks for work has committed all it did.
HoldsCurrent == \A l \in Loops : loop[l].at = "execute" => Current(l) \in Held(l)
HeldByOne == \A l, m \in Loops : Held(l) \cap Held(m) # {} => l = m
HoldsRepaired ==
    \A l \in Loops, i \in DOMAIN RepairOf :
       RepairOf[i] \in Held(l) /\ item[RepairOf[i]].status = "NONE" => i \in Held(l)
RunningIsCurrent ==
    \A l \in Loops, i \in Items :
       loop[l].own[i].status = "RUNNING" => loop[l].at = "execute" /\ i = Current(l)
BatchIsKnown == \A l \in Loops : \A i \in loop[l].rest : item[i].status # "NONE"
Looking == {"count", "failures", "select", "blocked", "off"}
LookingHoldsNothing == \A l \in Loops : loop[l].at \in Looking => loop[l].own = Nothing

ExecutionInv ==
    /\ TypeOK
    /\ HoldsCurrent
    /\ HeldByOne
    /\ HoldsRepaired
    /\ RunningIsCurrent
    /\ BatchIsKnown
    /\ LookingHoldsNothing

\* A task alone on its run executes an item again after it succeeded only if the
\* success was discarded: something raised later in its batch, or the commit of
\* the batch was lost (start, _process_work_item).
DoneOnce == ~crossed => redone \subseteq undone

\* A task alone on its run completes it only when everything was done, replaced
\* or failed without harm, and fails it only for a failure that blocks, leaving
\* nothing queued (the branches of the loop, _cancel_terminally_blocked_items).
Harmless(i) == item'[i].status \in {"NONE", "DONE", "SUPERSEDED"} \/ (item'[i].status = "FAILED" /\ i \in Soft)
VerdictIsRight ==
    [][run' # run /\ ~crossed' =>
          /\ run' = "COMPLETED" => \A i \in Items : Harmless(i)
          /\ run' = "FAILED" => /\ \E i \in Items \ Soft : item'[i].status = "FAILED"
                                /\ \A i \in Items : item'[i].status # "QUEUED"]_vars

\* Why both are so.  What a task alone succeeded in, and what was not discarded,
\* is DONE and in no batch; what it found out about the queue and the failures is
\* still so when it concludes; and only a task about to conclude has canceled items.
OnlyOne == \A l, m \in Loops : loop[l].at # "off" /\ loop[m].at # "off" => l = m
DoneIsKept ==
    \A i \in done \ undone :
       /\ \A l \in Loops : i \notin loop[l].rest
       /\ \/ item[i].status = "DONE" /\ \A l \in Loops : i \notin Held(l)
          \/ item[i].status # "NONE" /\ \E l \in Loops : loop[l].own[i].status = "DONE"
SeenIsTrue ==
    \A l \in Loops : loop[l].at # "off" /\ loop[l].seen \in Concluded => run \in Concluded

Canceling(l) ==
    /\ \E i \in Items : Blocks(i)
    /\ \A i \in Items : i \in Is("QUEUED") <=> i \in loop[l].rest \cup Held(l)
    /\ \A i \in Held(l) : loop[l].own[i].status = "CANCELED"
FoundOut(l) ==
    CASE loop[l].at = "failures" -> ~loop[l].queued => Is("QUEUED") = {}
      [] loop[l].at = "select" -> loop[l].failed => \E i \in Items : Blocks(i)
      [] loop[l].at = "blocked" -> loop[l].failed /\ \E i \in Items : Blocks(i)
      [] loop[l].at = "cancel" -> Canceling(l) /\ loop[l].failed
      [] loop[l].at = "finalize" ->
            \/ loop[l].seen \in Concluded
            \/ loop[l].failed /\ Canceling(l)
            \/ /\ ~loop[l].failed /\ loop[l].own = Nothing /\ Is("QUEUED") = {}
               /\ \A i \in Items : ~Blocks(i)
      [] OTHER -> TRUE
NoneCanceled ==
    \A l \in Loops : loop[l].at # "off" =>
       /\ Is("CANCELED") = {}
       /\ loop[l].at \notin {"cancel", "finalize"} =>
             \A i \in Items : loop[l].own[i].status # "CANCELED"

AloneInv ==
    ~crossed =>
       /\ OnlyOne
       /\ DoneIsKept
       /\ SeenIsTrue
       /\ NoneCanceled
       /\ DoneOnce
       /\ \A l \in Loops : FoundOut(l)

\* A task alone on its run comes to an end, although what it gains for one item
\* is lost when the next one raises, and leaves the run concluded unless it died;
\* but for a task that waits for its own lock (start, _process_work_item).
Stopped == \A l \in Loops : loop[l].at = "off" /\ (run \in Concluded \/ mishaps > 0)
WaitsForItself(l) == loop[l].asking /\ loop[l].synced
LoopEnds == <>crossed \/ <>[]Stopped \/ <>[](\E l \in Loops : WaitsForItself(l))
=============================================================================
