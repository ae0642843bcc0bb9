---------------------------- MODULE RunPreviewProps ----------------------------
(***************************************************************************)
(* What the records tell of the processes, and what they leave out.        *)
(***************************************************************************)
EXTENDS RunPreview

Processes == 1 .. starts
PreviewRow == [status : {"NONE", "READY", "EXPIRED", "STOPPED"}, proc : 0 .. starts]

Request ==
    [at : {"idle", "mark", "decide", "build", "check", "reply"},
     run : Runs \cup {0}, wrote : SUBSET Runs, held : SUBSET Runs,
     proc : 0 .. starts, late : BOOLEAN,
     was : [Runs -> PreviewRow], now : [Runs -> PreviewRow]]

TypeOK ==
    /\ record \in [Runs -> PreviewRow]
    /\ req \in [Requests -> Request]
    /\ starts \in 0 .. MaxStarts
    /\ alive \subseteq Processes
    /\ due \subseteq Processes
    /\ mishaps \in 0 .. MaxMishaps
    /\ astray \subseteq 0 .. starts
    /\ gone \subseteq 0 .. starts
    /\ crowded \in BOOLEAN
    /\ limit \in Limits
    /\ \A q \in Requests : req[q].at # "idle" => req[q].run \in Runs

\* A process that runs is the preview of a record, or of a request under way.  The
\* others were left by a request that was lost after it had started them, or by one
\* that replaced a record it had not read (_write_preview_summary).
Recorded == {record[r].proc : r \in {s \in Runs : record[s].status = "READY"}}
UnderWay == {req[q].proc : q \in Requests}
NothingLeaks == alive \subseteq Recorded \cup UnderWay \cup astray

\* A record that says READY, and has not expired, tells of a process that runs.
\* It is wrong while a request that killed the process is under way, for good when
\* that request then fails (create_run_preview does not commit), when one that
\* meant to reuse a preview writes it back after it was stopped, or when the process
\* exited by itself.
BeingKilled == UNION {Killed(q) : q \in Requests}
ReadyIsServed ==
    \A r \in Runs : IsActive(record[r]) => record[r].proc \in alive \cup BeingKilled \cup gone

\* No more previews are ready than the limit allows, unless one became ready while
\* another request that made one ready was under way: previews are counted when a
\* launch begins and recorded when it ends (_count_active_previews).
ActiveRuns == {r \in Runs : IsActive(record[r])}
SlotsHold == crowded \/ Cardinality(ActiveRuns) <= limit

\* Why that is so.  What a request has killed stays dead, and so does what a record
\* or a request does not call READY.
DeadStaysDead ==
    /\ \A q \in Requests : \A r \in Changed(q) : req[q].was[r].proc \notin alive
    /\ \A r \in Runs :
          /\ record[r].status # "READY" => record[r].proc \notin alive
          /\ \A q \in Requests :
                /\ req[q].was[r].status # "READY" => req[q].was[r].proc \notin alive
                /\ req[q].now[r].status # "READY" => req[q].now[r].proc \notin alive

\* What a request writes and holds, by where it is.
Started(q) == req[q].proc # NoProcess
Fits(q) ==
    LET r == req[q].run IN
    /\ req[q].at = "idle" => req[q] = Idle
    /\ req[q].at = "mark" => \A s \in req[q].wrote :
          req[q].now[s].status # "READY" /\ req[q].now[s].proc = req[q].was[s].proc
    /\ req[q].at = "decide" => /\ req[q].now[r].proc = req[q].was[r].proc
                               /\ r \notin req[q].wrote => req[q].now[r] = req[q].was[r]
    /\ req[q].at \in {"build", "check"} => r \in req[q].wrote /\ req[q].now[r] = NoPreview
    /\ req[q].at = "reply" => r \in req[q].wrote
    /\ req[q].at = "check" => Started(q)
    /\ Started(q) => req[q].at \in {"check", "reply"} /\ Flushed(q)
    /\ Started(q) /\ req[q].at = "reply" =>
          /\ req[q].now[r] = Preview("READY", req[q].proc)
          /\ req[q].proc \in alive \cup gone
    /\ \A s \in req[q].wrote : req[q].now[s].status = "READY" =>
          s = r /\ (~Started(q) => req[q].now[s] = req[q].was[s])

PhasesFit == \A q \in Requests : Fits(q)

\* What is called READY has a process.
ReadyIsAProcess ==
    \A r \in Runs :
       /\ record[r].status = "READY" => record[r].proc # NoProcess
       /\ \A q \in Requests :
             /\ req[q].was[r].status = "READY" => req[q].was[r].proc # NoProcess
             /\ req[q].now[r].status = "READY" => req[q].now[r].proc # NoProcess

\* A process is the preview of one run, and of one request until it commits.
Names(r) == ({record[r].proc} \cup UNION {{req[q].was[r].proc, req[q].now[r].proc} : q \in Requests})
               \ {NoProcess}
OneRunEach ==
    /\ \A r, s \in Runs : Names(r) \cap Names(s) # {} => r = s
    /\ \A q \in Requests : Started(q) =>
          /\ \A p \in Requests : req[p].proc = req[q].proc => p = q
          /\ \A r \in Runs :
                /\ record[r].proc # req[q].proc
                /\ \A p \in Requests :
                      /\ req[p].was[r].proc # req[q].proc
                      /\ req[p].now[r].proc = req[q].proc =>
                            p = q /\ r = req[q].run /\ req[q].at = "reply"

\* A launch that was not overtaken has room for its preview, and one that reuses a
\* preview for that.
HasRoom(q) == crowded \/ req[q].late \/
    /\ req[q].at \in {"build", "check"} \/ Started(q) =>
          Cardinality(ActiveRuns \ req[q].wrote) < limit
    /\ req[q].at \in {"decide", "reply"} /\ ~Started(q) /\ IsActive(req[q].now[req[q].run]) =>
          Cardinality(ActiveRuns \cup {req[q].run}) <= limit

RoomIsLeft == \A q \in Requests : HasRoom(q)

PreviewInv ==
    /\ TypeOK
    /\ NothingLeaks
    /\ ReadyIsServed
    /\ SlotsHold
    /\ DeadStaysDead
    /\ PhasesFit
    /\ ReadyIsAProcess
    /\ OneRunEach
    /\ RoomIsLeft
=============================================================================
