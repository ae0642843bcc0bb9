---------------------------- MODULE RunLaunchProps ----------------------------
(***************************************************************************)
(* What a client that repeats a request, and a project whose requests      *)
(* cross each other, can rely on.                                          *)
(***************************************************************************)
EXTENDS RunLaunch

RunRow(n) ==
    [status : Open \cup Concluded \cup {"PAUSED"},
     key : Keys \cup {NoKey},
     scope : 0 .. n,
     line : 1 .. n,
     graph : Nat,
     asked : BOOLEAN,
     opened : {"launch", "overlap", "fork", "resume", "stale"},
     crossed : BOOLEAN]

Places == {"find", "count", "find_again", "insert", "reopen", "refresh", "lock", "check",
           "generate", "seed", "hand_over", "key"}
Making == {"find", "count", "find_again", "insert"}
Bootstrapping == {"refresh", "lock", "check", "generate", "seed", "hand_over"}

CallRow(n) ==
    [id : 0 .. MaxCalls - 1,
     kind : {"create", "fork", "resume", "start"},
     key : Keys \cup {NoKey},
     scope : 0 .. n,
     starts : BOOLEAN,
     next : Places,
     run : 0 .. n,
     seen : Open \cup Concluded \cup {"PAUSED", "-"},
     fresh : BOOLEAN]

TypeOK ==
    /\ run \in Seq(RunRow(Len(run)))
    /\ calls \in 0 .. MaxCalls
    /\ pending \subseteq CallRow(Len(run))
    /\ \A r \in pending :
          /\ r.next \in Bootstrapping \cup {"reopen", "key"} => r.run \in Ids
          /\ r.next \in {"find", "find_again", "key"} => r.key \in Keys
          /\ r.next \in Making => r.kind \in {"create", "fork"}
          /\ r.kind = "fork" => r.scope \in Ids
    /\ answered \subseteq [key : Keys, scope : 0 .. Len(run), run : Ids]
    /\ crowded \subseteq Keys \X (0 .. Len(run))
    /\ stops \in Nat
    /\ faults \in Nat
    /\ stops + faults <= MaxMishaps

\* A project has one open run, but for forks, resumed runs, runs whose
\* cancellation its own launch overwrote, and launches that overlapped another
\* one after it had counted (the gate in launch_run_for_project).
Launched == {i \in OpenRuns : run[i].opened = "launch"}
OneOpenRun == \A i, j \in Launched : i = j

\* Why that is so: nothing is open while a launch that nobody crossed is about
\* to insert its run.
GateHolds ==
    \A r \in pending : r.kind = "create" /\ r.next = "insert" /\ r.fresh => OpenRuns = {}

\* A client that repeats a request with its key after an answer, or after one
\* that was lost, is answered with the same run, or with a fork of it made
\* without a key, whatever else happened to the project: if the first of its
\* requests to be answered was alone with the key, and the project has no more
\* runs than a search goes back (create_run, fork_existing_run and
\* _find_run_by_request_key).
RepeatsFindTheRun ==
    Len(run) <= Window =>
       \A a, b \in answered :
          About(a) = About(b) /\ About(a) \notin crowded => run[a.run].line = run[b.run].line

\* Why that is so.  The runs that a request for this would find ...
Bearers(key, scope) == {i \in Ids : run[i].key = key /\ (key \in ForkKeys => run[i].scope = scope)}
\* ... are of one line ...
OneLine ==
    Len(run) <= Window =>
       \A key \in Keys, scope \in 0 .. Len(run) :
          (key \in ForkKeys \/ scope = NoId) /\ <<key, scope>> \notin crowded =>
             \A i, j \in Bearers(key, scope) : run[i].line = run[j].line
\* ... and what was answered is one of them ...
AnswersAreFound ==
    \A a \in answered :
       a.run \in Bearers(a.key, a.scope) /\ (a.key \in ForkKeys \/ a.scope = NoId)
\* ... while a request that has found none is the only one about it, nobody has
\* been answered, and there still is none but what it makes itself.
SearchHolds ==
    Len(run) <= Window =>
       \A r \in pending :
          r.key # NoKey /\ r.next # "find" /\ About(r) \notin crowded =>
             /\ \A q \in pending : About(q) = About(r) => q = r
             /\ \A a \in answered : About(a) # About(r)
             /\ r.kind = "create" \/ r.next = "insert" => Bearers(r.key, r.scope) = {}
\* If there are two about it, somebody has been answered.
CrowdsAreNoted ==
    \A q, r \in pending :
       About(q) = About(r) /\ r.key # NoKey /\ About(r) \notin crowded /\ q # r =>
          \E a \in answered : About(a) = About(r)
\* A run that a request is making has no key yet, or the key of the fork, and
\* there is one such request.
MakersAreAlone ==
    /\ \A r \in pending :
          /\ r.kind = "create" => r.key \in CreateKeys \cup {NoKey} /\ r.scope = NoId
          /\ r.kind = "fork" => r.key \in ForkKeys \cup {NoKey}
          /\ r.kind \in {"resume", "start"} => r.key = NoKey
          /\ r.next = "key" => r.key # NoKey
          /\ r.next \in {"count", "find_again"} => r.kind = "create"
          /\ r.next \in Making => r.run = NoId
          /\ r.kind = "create" /\ r.run # NoId => run[r.run].key = NoKey
          /\ r.kind = "fork" /\ r.key # NoKey /\ r.run # NoId =>
                r.run \in Bearers(r.key, r.scope)
    /\ \A q, r \in pending :
          q.kind = "create" /\ r.kind = "create" /\ q.run = r.run /\ r.run # NoId => q = r

\* The graph of a run is seeded once, although its request and its task both
\* bootstrap it and hold no lock while they do, unless a resume opened the run,
\* or one it was copied from, in the midst of that (bootstrap_in_session,
\* generate_template_dag).
SeededOnce == \A i \in Ids : run[i].graph > 1 => run[i].crossed

\* Why that is so: who bootstraps a run does so alone, and has found no graph
\* when it is about to seed one.
BootstrapsAlone ==
    \A r \in pending :
       r.next \in Bootstrapping /\ ~run[r.run].crossed =>
          /\ \A q \in pending : q.next \in Bootstrapping /\ q.run = r.run => q = r
          /\ r.next \in {"generate", "seed"} => run[r.run].graph = 0

\* An open run without work items gets them or is concluded, unless the request
\* or the task that was about it was lost or told to leave it ("A run should
\* never remain in a vague queued state with zero work items and no recovery
\* owner", agent-runtime-vision-roadmap.md).
Stranded(i) == i \in Ids /\ IsOpen(i) /\ run[i].graph = 0 /\ run[i].asked
NobodyIsStranded == \A i \in 1 .. MaxRuns : Stranded(i) ~> (~Stranded(i) \/ faults > 0)
=============================================================================
