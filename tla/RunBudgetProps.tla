---------------------------- MODULE RunBudgetProps ----------------------------
(***************************************************************************)
(* What the budget of a run is good for.  Reports and ticks write back     *)
(* what they loaded, so that charges are forgotten and a run may spend its *)
(* budget once per execution; but nothing is charged that was not spent,   *)
(* no item is refused while the run has money left, unless an extension    *)
(* was forgotten, and an execution that nobody disturbs keeps to it.       *)
(***************************************************************************)
EXTENDS RunBudget

Ledgers == [max : Nat, used : Nat, recovery : Nat]
Rows == [status : {"QUEUED", "RUNNING", "DONE", "FAILED", "TURNED_AWAY", "STOPPED"},
         attempt : Nat, marked : BOOLEAN]
Jobs == [at : {"idle", "ready", "answered", "charging", "after"}, item : Items \cup {"-"},
         copy : Ledgers, view : Ledgers, read : Ledgers, cost : Nat, paid : Nat,
         answers : 0 .. MaxAnswers, unparsed : 0 .. MaxUnparsed, unpaid : Nat, calm : BOOLEAN]

TypeOK ==
    /\ status \in {"RUNNING", "PAUSED"}
    /\ ledger \in Ledgers
    /\ item \in [Items -> Rows]
    /\ \A i \in Items : item[i].attempt < MaxAttempts[i]
    /\ worker \in [Workers -> Jobs]
    /\ \A w \in Workers : worker[w].at # "idle" => worker[w].item \in Items
    /\ tick \in [on : BOOLEAN, copy : Ledgers]
    /\ extensions \in 0 .. MaxExtensions
    /\ mishaps \in 0 .. MaxMishaps
    /\ charged \in [all : Nat, recovery : Nat]
    /\ straddled \in BOOLEAN

Granted == Budget + extensions * Extra

\* However charges, reports, ticks and extensions overtake each other, no copy of
\* the ledger ever shows more than was spent, or a limit above the one granted
\* (record_run_budget_usage charges each answer once, to what it reads).
Sound(b) ==
    /\ b.used <= charged.all
    /\ b.recovery <= charged.recovery
    /\ b.max <= Granted
NothingIsMadeUp ==
    /\ Sound(ledger)
    /\ Sound(tick.copy)
    /\ \A w \in Workers : Sound(worker[w].copy) /\ Sound(worker[w].view) /\ Sound(worker[w].read)

\* An item is refused for want of budget only when the run really has spent it,
\* and, for an item of recovery, the reserve with it; unless an extension came
\* while somebody held a copy of the ledger, which then overwrites it (refresh,
\* execute, extend_run_budget).
Refused(i) == item[i].status \in {"TURNED_AWAY", "STOPPED"}
RefusalIsPaidFor ==
    [][\A i \in Items :
          ~Refused(i) /\ Refused(i)' /\ ~straddled =>
             /\ charged.all + Background >= Granted
             /\ item[i].marked => \/ charged.recovery + Background >= Reserve
                                  \/ charged.all + Background >= Granted + Reserve]_vars

\* An execution that nobody overlaps, neither worker nor tick nor extension,
\* spends no more than was left when it began and one answer beyond, and one more
\* for each answer of a repair that could not be parsed, which is charged to nobody
\* and followed by no look at the budget (execute, _repair_plan_after_...).
Left(w) ==
    worker[w].copy.max - worker[w].copy.used + (IF Recovering(w) THEN Reserve ELSE 0)
Owes(w) == worker[w].paid + worker[w].cost
Spends(w) == Owes(w) + worker[w].unpaid
ExecutionKeepsToBudget ==
    \A w \in Workers :
       worker[w].at # "idle" /\ worker[w].calm /\ Spends(w) > 0 =>
          Spends(w) + Background < Left(w) + MaxCost + worker[w].unparsed * MaxCost

\* Why these are so: an item under way belongs to one worker; as long as no
\* extension came at a bad moment every copy in use has the limit granted; and a
\* worker that nobody disturbs sees in the ledger what it has charged itself, which
\* is something once it was answered; what it did not charge was not parsed.
ItemsUnderWay ==
    /\ \A w \in Workers : worker[w].at # "idle" => item[worker[w].item].status = "RUNNING"
    /\ \A v, w \in Workers :
          worker[v].at # "idle" /\ worker[w].at # "idle" /\ worker[v].item = worker[w].item => v = w
LimitIsGranted ==
    ~straddled =>
       /\ ledger.max = Granted
       /\ tick.on => tick.copy.max = Granted
       /\ \A w \in Workers : worker[w].at # "idle" =>
             /\ worker[w].copy.max = Granted /\ worker[w].view.max = Granted
             /\ worker[w].at = "charging" => worker[w].read.max = Granted
SeesItsOwn(w, b) == b.used = worker[w].copy.used + worker[w].paid /\ b.max = worker[w].copy.max
CalmIsAlone ==
    \A w \in Workers : worker[w].at # "idle" /\ worker[w].calm =>
       /\ Alone(w)
       /\ SeesItsOwn(w, ledger) /\ SeesItsOwn(w, worker[w].view)
       /\ worker[w].at = "charging" => SeesItsOwn(w, worker[w].read)
       /\ worker[w].at \in {"ready", "after"} => worker[w].cost = 0
ChargesKeepToBudget ==
    \A w \in Workers :
       worker[w].at # "idle" /\ worker[w].calm /\ Owes(w) > 0 =>
          Owes(w) + Background < Left(w) + MaxCost
UnpaidIsUnparsed ==
    \A w \in Workers :
       /\ worker[w].unpaid <= worker[w].unparsed * MaxCost
       /\ worker[w].calm /\ (worker[w].unpaid > 0 \/ worker[w].at \in {"answered", "charging", "after"}) =>
             Owes(w) > 0

BudgetInv ==
    /\ TypeOK
    /\ NothingIsMadeUp
    /\ ItemsUnderWay
    /\ LimitIsGranted
    /\ CalmIsAlone
    /\ ChargesKeepToBudget
    /\ UnpaidIsUnparsed
=============================================================================
