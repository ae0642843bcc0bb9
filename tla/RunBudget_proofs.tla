--------------------------- MODULE RunBudget_proofs ---------------------------
(***************************************************************************)
(* However copies of the ledger overwrite each other, none shows more than *)
(* was charged, refusals are paid for unless an extension was forgotten,   *)
(* and an execution that nobody disturbs keeps to the budget.              *)
(***************************************************************************)
EXTENDS RunBudgetProps, TLAPS

USE ConstantsAssumption

-----------------------------------------------------------------------------
(* The ledger.                                                             *)

Limit(b, recovering) == b.max + (IF recovering THEN Reserve ELSE 0)

\* A ledger that is not BLOCKED has more left than the background allowance.
LEMMA NotBlocked ==
  ASSUME NEW b \in Ledgers, NEW recovering \in BOOLEAN, ~Blocked(b, recovering)
  PROVE  b.used + Background < Limit(b, recovering)
  BY DEF Blocked, FallsBack, Limit, Ledgers

\* One that is BLOCKED has spent the budget and, for recovery, the reserve.
LEMMA BlockedIsSpent ==
  ASSUME NEW b \in Ledgers, NEW recovering \in BOOLEAN, Blocked(b, recovering)
  PROVE  /\ b.used + Background >= b.max
         /\ recovering => \/ b.recovery + Background >= Reserve
                          \/ b.used + Background >= b.max + Reserve
  BY DEF Blocked, FallsBack, Ledgers

\* A charge adds to what is used, and to the reserve of recovery only for recovery.
LEMMA Charges ==
  ASSUME NEW b \in Ledgers, NEW cost \in Nat, NEW recovering \in BOOLEAN
  PROVE  /\ Charge(b, cost, recovering) \in Ledgers
         /\ Charge(b, cost, recovering).max = b.max
         /\ Charge(b, cost, recovering).used = b.used + cost
         /\ Charge(b, cost, recovering).recovery = b.recovery + (IF recovering THEN cost ELSE 0)
<1>1. b.max \in Nat /\ b.used \in Nat /\ b.recovery \in Nat
  BY DEF Ledgers
<1>2. PICK extra \in Nat : extra = IF recovering THEN cost ELSE 0
  OBVIOUS
<1>3. Charge(b, cost, recovering) = [max |-> b.max, used |-> b.used + cost, recovery |-> b.recovery + extra]
  <2>1. b = [max |-> b.max, used |-> b.used, recovery |-> b.recovery]
    BY DEF Ledgers
  <2>2. (IF recovering THEN b.recovery + cost ELSE b.recovery) = b.recovery + extra
    BY <1>1, <1>2
  <2>3. PICK r : r = b.recovery + extra
    OBVIOUS
  <2>4. Charge(b, cost, recovering) = [b EXCEPT !.used = b.used + cost, !.recovery = r]
    BY <2>2, <2>3 DEF Charge
  <2> QED
    BY <2>1, <2>3, <2>4
<1>4. b.used + cost \in Nat /\ b.recovery + extra \in Nat
  BY <1>1, <1>2
<1> QED
  BY <1>1, <1>2, <1>3, <1>4 DEF Ledgers

LEMMA FreshIsALedger == Fresh \in Ledgers /\ Fresh.used = 0 /\ Fresh.recovery = 0 /\ Fresh.max = Budget
  BY DEF Fresh, Ledgers

LEMMA IdleIsAJob == Idle \in Jobs /\ Idle.at = "idle"
  BY FreshIsALedger DEF Idle, Jobs

\* An extension grants what it adds to the limit.
LEMMA Grants ==
  ASSUME TypeOK
  PROVE  /\ Granted \in Nat /\ Budget <= Granted
         /\ extensions' = extensions => Granted' = Granted
         /\ extensions' = extensions + 1 => Granted' = Granted + Extra
<1>1. extensions \in Nat /\ Extra \in Nat /\ Budget \in Nat
  BY DEF TypeOK
<1>2. extensions * Extra \in Nat /\ (extensions + 1) * Extra = extensions * Extra + Extra
  BY <1>1
<1> QED
  BY <1>1, <1>2 DEF Granted

\* Fresh ledgers, which the idle hold, are sound.
LEMMA FreshIsSound == ASSUME TypeOK PROVE Sound(Fresh)
  BY Grants, FreshIsALedger DEF TypeOK, Sound

-----------------------------------------------------------------------------
(* How a job of one worker may change.                                     *)

\* What the parts of the invariant ask of the job of one worker.
JobIsSound(job) == Sound(job.copy) /\ Sound(job.view) /\ Sound(job.read)
JobIsGranted(job) ==
  job.at # "idle" =>
     /\ job.copy.max = Granted /\ job.view.max = Granted
     /\ job.at = "charging" => job.read.max = Granted
Own(job, b) == b.used = job.copy.used + job.paid /\ b.max = job.copy.max
JobIsCalm(job) ==
  job.at # "idle" /\ job.calm =>
     /\ Own(job, ledger) /\ Own(job, job.view)
     /\ job.at = "charging" => Own(job, job.read)
     /\ job.at \in {"ready", "after"} => job.cost = 0
JobKeeps(job, marked) ==
  job.at # "idle" /\ job.calm /\ job.paid + job.cost > 0 =>
     job.paid + job.cost + Background < Limit(job.copy, marked) - job.copy.used + MaxCost
JobPays(job) ==
  /\ job.unpaid <= job.unparsed * MaxCost
  /\ job.calm /\ (job.unpaid > 0 \/ job.at \in {"answered", "charging", "after"}) =>
        job.paid + job.cost > 0

\* An idle worker owes nothing.
LEMMA IdlePays == JobPays(Idle)
<1>1. 0 * MaxCost = 0
  OBVIOUS
<1> QED
  BY <1>1 DEF JobPays, Idle

JobsAre ==
  \A w \in Workers :
     /\ JobIsSound(worker[w])
     /\ ~straddled => JobIsGranted(worker[w])
     /\ JobIsCalm(worker[w])
     /\ worker[w].at # "idle" /\ worker[w].calm => Alone(w)
     /\ JobKeeps(worker[w], Recovering(w))
     /\ JobPays(worker[w])

\* The invariant, worker by worker.
LEMMA ByWorker ==
  ASSUME TypeOK
  PROVE  BudgetInv <=> /\ ItemsUnderWay
                       /\ Sound(ledger) /\ Sound(tick.copy)
                       /\ ~straddled => /\ ledger.max = Granted
                                        /\ tick.on => tick.copy.max = Granted
                       /\ JobsAre
<1>1. NothingIsMadeUp <=> /\ Sound(ledger) /\ Sound(tick.copy)
                          /\ \A w \in Workers : JobIsSound(worker[w])
  BY DEF NothingIsMadeUp, JobIsSound
<1>2. LimitIsGranted <=> (~straddled => /\ ledger.max = Granted
                                        /\ tick.on => tick.copy.max = Granted
                                        /\ \A w \in Workers : JobIsGranted(worker[w]))
  BY DEF LimitIsGranted, JobIsGranted
<1>3. CalmIsAlone <=> \A w \in Workers : /\ JobIsCalm(worker[w])
                                         /\ worker[w].at # "idle" /\ worker[w].calm => Alone(w)
  BY DEF CalmIsAlone, JobIsCalm, SeesItsOwn, Own
<1>4. ChargesKeepToBudget <=> \A w \in Workers : JobKeeps(worker[w], Recovering(w))
  <2>1. ASSUME NEW w \in Workers, worker[w].at # "idle"
        PROVE  Left(w) = Limit(worker[w].copy, Recovering(w)) - worker[w].copy.used
    <3>1. worker[w].copy \in Ledgers
      BY DEF TypeOK, Jobs
    <3> QED
      BY <3>1 DEF Left, Limit, Ledgers
  <2> QED
    BY <2>1 DEF ChargesKeepToBudget, JobKeeps, Owes
<1>5. UnpaidIsUnparsed <=> \A w \in Workers : JobPays(worker[w])
  BY DEF UnpaidIsUnparsed, JobPays, Owes
<1> QED
  BY <1>1, <1>2, <1>3, <1>4, <1>5 DEF BudgetInv, JobsAre

LEMMA ByWorkerNext ==
  ASSUME TypeOK', ItemsUnderWay', Sound(ledger)', Sound(tick.copy)', JobsAre',
         ~straddled' => /\ ledger'.max = Granted'
                        /\ tick'.on => tick'.copy.max = Granted'
  PROVE  BudgetInv'
<1>1. NothingIsMadeUp'
  BY DEF NothingIsMadeUp, JobsAre, JobIsSound
<1>2. LimitIsGranted'
  BY DEF LimitIsGranted, JobsAre, JobIsGranted
<1>3. CalmIsAlone'
  BY DEF CalmIsAlone, JobsAre, JobIsCalm, SeesItsOwn, Own
<1>4. ChargesKeepToBudget'
  <2>1. ASSUME NEW w \in Workers, worker'[w].at # "idle"
        PROVE  Left(w)' = Limit(worker'[w].copy, Recovering(w)') - worker'[w].copy.used
    <3>1. worker'[w].copy \in Ledgers
      BY DEF TypeOK, Jobs
    <3> QED
      BY <3>1 DEF Left, Limit, Ledgers
  <2> QED
    BY <2>1 DEF ChargesKeepToBudget, JobsAre, JobKeeps, Owes
<1>5. UnpaidIsUnparsed'
  BY DEF UnpaidIsUnparsed, JobsAre, JobPays, Owes
<1> QED
  BY <1>1, <1>2, <1>3, <1>4, <1>5 DEF BudgetInv

-----------------------------------------------------------------------------
(* Preservation.                                                           *)

LEMMA Jobs1 ==
  ASSUME TypeOK, NEW w \in Workers, worker[w].at # "idle"
  PROVE  worker[w].item \in Items /\ Recovering(w) \in BOOLEAN /\ worker[w] \in Jobs
  BY DEF TypeOK, Recovering, Rows

\* A worker at work goes on: the others, if there are any, are not calm.
LEMMA GoesOn ==
  ASSUME BudgetInv, NEW w \in Workers, NEW job \in Jobs,
         worker' = [worker EXCEPT ![w] = job],
         worker[w].at # "idle", job.at # "idle", job.item = worker[w].item,
         UNCHANGED <<status, item, tick, extensions, straddled>>,
         mishaps' \in 0 .. MaxMishaps, ledger' \in Ledgers,
         charged' \in [all : Nat, recovery : Nat],
         charged.all <= charged'.all, charged.recovery <= charged'.recovery,
         Sound(ledger)', JobIsSound(job)',
         ~straddled => ledger'.max = Granted' /\ JobIsGranted(job)',
         job.calm => worker[w].calm,
         JobIsCalm(job)', JobKeeps(job, Recovering(w)), JobPays(job)
  PROVE  BudgetInv'
<1>1. TypeOK /\ ItemsUnderWay /\ JobsAre /\ Sound(tick.copy)
      /\ (~straddled /\ tick.on => tick.copy.max = Granted)
  BY ByWorker DEF BudgetInv
<1>2. TypeOK'
  BY <1>1 DEF TypeOK
<1>3. Granted' = Granted /\ Granted \in Nat
  BY <1>1, Grants
<1>4. \A v \in Workers : worker'[v] = IF v = w THEN job ELSE worker[v]
  BY <1>1 DEF TypeOK
<1>5. ItemsUnderWay'
  BY <1>1, <1>4 DEF ItemsUnderWay
<1>6. \A b \in Ledgers : Sound(b) => Sound(b)'
  BY <1>1, <1>3 DEF Sound, TypeOK, Ledgers
<1>7. \A v \in Workers : worker[v] \in Jobs /\ (JobIsSound(worker[v]) => JobIsSound(worker[v])')
  BY <1>1, <1>6 DEF TypeOK, Jobs, JobIsSound
<1>8. JobsAre'
  <2> SUFFICES ASSUME NEW v \in Workers
               PROVE  /\ JobIsSound(worker[v])'
                      /\ ~straddled' => JobIsGranted(worker[v])'
                      /\ JobIsCalm(worker[v])'
                      /\ (worker[v].at # "idle" /\ worker[v].calm => Alone(v))'
                      /\ JobKeeps(worker[v], Recovering(v))'
                      /\ JobPays(worker[v])'
    BY DEF JobsAre
  <2>1. CASE v = w
    <3>1. worker'[v] = job /\ Recovering(v)' = Recovering(w)
      BY <2>1, <1>4 DEF Recovering
    <3>2. job.calm => Alone(w)'
      BY <1>1, <1>4 DEF JobsAre, Alone
    <3> QED
      BY <2>1, <3>1, <3>2 DEF JobIsSound, JobIsGranted, JobIsCalm, JobKeeps, JobPays, Sound, Own
  <2>2. CASE v # w
    <3>1. worker'[v] = worker[v] /\ Recovering(v)' = Recovering(v)
      BY <2>2, <1>4 DEF Recovering
    <3>2. ~(worker[v].at # "idle" /\ worker[v].calm)
      BY <2>2, <1>1 DEF JobsAre, Alone
    <3>3. JobIsSound(worker[v])' /\ (~straddled => JobIsGranted(worker[v])')
      BY <3>1, <1>1, <1>3, <1>7 DEF JobsAre, JobIsGranted, JobIsSound, Sound
    <3>4. JobPays(worker[v])'
      BY <3>1, <1>1 DEF JobsAre, JobPays
    <3> QED
      BY <3>1, <3>2, <3>3, <3>4 DEF JobIsCalm, JobKeeps
  <2> QED
    BY <2>1, <2>2
<1>9. Sound(tick.copy)'
  BY <1>1, <1>3 DEF TypeOK, Sound, Ledgers
<1> QED
  BY <1>1, <1>2, <1>3, <1>5, <1>8, <1>9, ByWorkerNext

LEMMA AskKeeps == ASSUME BudgetInv, NEW w \in Workers, Ask(w) PROVE BudgetInv'
<1>0. TypeOK /\ JobsAre /\ Sound(ledger) /\ (~straddled => ledger.max = Granted)
  BY ByWorker DEF BudgetInv
<1>1. PICK cost \in Costs :
        worker' = [worker EXCEPT ![w].at = "answered", ![w].cost = cost, ![w].answers = @ + 1]
  BY DEF Ask
<1>2. PICK job : job = [worker[w] EXCEPT !.at = "answered", !.cost = cost, !.answers = @ + 1]
  OBVIOUS
<1>3. /\ worker[w].at \in {"ready", "after"} /\ ~Blocked(worker[w].view, Recovering(w))
      /\ worker[w].answers < MaxAnswers
      /\ UNCHANGED <<status, ledger, item, tick, extensions, mishaps, charged, straddled>>
  BY DEF Ask, MayGoOn
<1>4. worker[w] \in Jobs /\ Recovering(w) \in BOOLEAN
  BY <1>0, <1>3, Jobs1
<1>5. /\ job \in Jobs /\ job.at = "answered" /\ job.item = worker[w].item
      /\ job.copy = worker[w].copy /\ job.view = worker[w].view /\ job.read = worker[w].read
      /\ job.cost = cost /\ job.paid = worker[w].paid /\ job.calm = worker[w].calm
      /\ job.unpaid = worker[w].unpaid /\ job.unparsed = worker[w].unparsed
  <2>1. cost \in Nat /\ worker[w].answers + 1 \in 0 .. MaxAnswers
    BY <1>3, <1>4 DEF Jobs
  <2> QED
    BY <1>2, <1>4, <2>1 DEF Jobs
<1>6. worker' = [worker EXCEPT ![w] = job]
  BY <1>0, <1>1, <1>2 DEF TypeOK
<1>7. Granted' = Granted
  BY <1>0, <1>3, Grants
<1>8. JobKeeps(job, Recovering(w))
  <2> SUFFICES ASSUME job.calm
               PROVE  job.paid + job.cost + Background
                        < Limit(job.copy, Recovering(w)) - job.copy.used + MaxCost
    BY DEF JobKeeps
  <2>1. worker[w].view.used + Background < Limit(worker[w].view, Recovering(w))
    BY <1>3, <1>4, NotBlocked DEF Jobs
  <2>2. Own(worker[w], worker[w].view)
    BY <1>0, <1>3, <1>5 DEF JobsAre, JobIsCalm
  <2>3. cost \in 1 .. MaxCost /\ MaxCost \in Nat
    OBVIOUS
  <2>4. worker[w].copy \in Ledgers /\ worker[w].view \in Ledgers /\ worker[w].paid \in Nat
    BY <1>4 DEF Jobs
  <2> QED
    BY <1>5, <2>1, <2>2, <2>3, <2>4 DEF Own, Limit, Ledgers
<1>9. /\ JobIsSound(job)' /\ Sound(ledger)' /\ JobIsCalm(job)'
      /\ ~straddled => ledger'.max = Granted' /\ JobIsGranted(job)'
  BY <1>0, <1>3, <1>5, <1>7 DEF JobsAre, JobIsSound, Sound, JobIsCalm, JobIsGranted, Own
<1>10. /\ mishaps' \in 0 .. MaxMishaps /\ ledger' \in Ledgers
       /\ charged' \in [all : Nat, recovery : Nat]
       /\ charged.all <= charged'.all /\ charged.recovery <= charged'.recovery
  BY <1>0, <1>3 DEF TypeOK
<1>11. JobPays(job)
  <2>1. cost \in 1 .. MaxCost /\ MaxCost \in Nat /\ worker[w].paid \in Nat
    BY <1>4 DEF Jobs
  <2> QED
    BY <1>0, <1>5, <2>1 DEF JobsAre, JobPays
<1> QED
  BY <1>3, <1>5, <1>6, <1>8, <1>9, <1>10, <1>11, GoesOn

\* Nothing is charged for an answer that cannot be parsed, and it costs no more
\* than the dearest.
LEMMA AskInVainKeeps == ASSUME BudgetInv, NEW w \in Workers, AskInVain(w) PROVE BudgetInv'
<1>0. TypeOK /\ JobsAre /\ Sound(ledger) /\ (~straddled => ledger.max = Granted)
  BY ByWorker DEF BudgetInv
<1>1. PICK cost \in Costs :
        worker' = [worker EXCEPT ![w].unparsed = @ + 1, ![w].unpaid = @ + cost]
  BY DEF AskInVain
<1>2. PICK job : job = [worker[w] EXCEPT !.unparsed = @ + 1, !.unpaid = @ + cost]
  OBVIOUS
<1>3. /\ worker[w].at = "after" /\ worker[w].unparsed < MaxUnparsed
      /\ UNCHANGED <<status, ledger, item, tick, extensions, mishaps, charged, straddled>>
  BY DEF AskInVain
<1>4. worker[w] \in Jobs /\ Recovering(w) \in BOOLEAN
  BY <1>0, <1>3, Jobs1
<1>5. /\ job \in Jobs /\ job.at = "after" /\ job.item = worker[w].item
      /\ job.copy = worker[w].copy /\ job.view = worker[w].view /\ job.read = worker[w].read
      /\ job.cost = worker[w].cost /\ job.paid = worker[w].paid /\ job.calm = worker[w].calm
      /\ job.unpaid = worker[w].unpaid + cost /\ job.unparsed = worker[w].unparsed + 1
  <2>1. worker[w].unpaid + cost \in Nat /\ worker[w].unparsed + 1 \in 0 .. MaxUnparsed
    BY <1>3, <1>4 DEF Jobs
  <2> QED
    BY <1>2, <1>3, <1>4, <2>1 DEF Jobs
<1>6. worker' = [worker EXCEPT ![w] = job]
  BY <1>0, <1>1, <1>2 DEF TypeOK
<1>7. Granted' = Granted
  BY <1>0, <1>3, Grants
<1>8. JobKeeps(job, Recovering(w))
  BY <1>0, <1>3, <1>5 DEF JobsAre, JobKeeps
<1>9. /\ JobIsSound(job)' /\ Sound(ledger)' /\ JobIsCalm(job)'
      /\ ~straddled => ledger'.max = Granted' /\ JobIsGranted(job)'
  BY <1>0, <1>3, <1>5, <1>7 DEF JobsAre, JobIsSound, Sound, JobIsCalm, JobIsGranted, Own
<1>10. /\ mishaps' \in 0 .. MaxMishaps /\ ledger' \in Ledgers
       /\ charged' \in [all : Nat, recovery : Nat]
       /\ charged.all <= charged'.all /\ charged.recovery <= charged'.recovery
  BY <1>0, <1>3 DEF TypeOK
<1>11. JobPays(job)
  <2>1. cost \in 1 .. MaxCost /\ worker[w].unpaid \in Nat /\ worker[w].unparsed \in Nat
    BY <1>4 DEF Jobs
  <2>2. PICK sum \in Nat : sum = worker[w].unparsed * MaxCost
    BY <2>1
  <2>3. job.unparsed * MaxCost = sum + MaxCost
    <3>1. \A n, m \in Nat : (n + 1) * m = n * m + m
      OBVIOUS
    <3> QED
      BY <1>5, <2>1, <2>2, <3>1
  <2>4. worker[w].unpaid <= sum /\ (worker[w].calm => worker[w].paid + worker[w].cost > 0)
    BY <1>0, <1>3, <2>2 DEF JobsAre, JobPays
  <2>5. job.unpaid <= sum + MaxCost
    BY <1>5, <2>1, <2>2, <2>4
  <2> QED
    BY <1>5, <2>3, <2>4, <2>5 DEF JobPays
<1> QED
  BY <1>3, <1>5, <1>6, <1>8, <1>9, <1>10, <1>11, GoesOn

LEMMA ReadKeeps == ASSUME BudgetInv, NEW w \in Workers, ReadLedger(w) PROVE BudgetInv'
<1>0. TypeOK /\ JobsAre /\ Sound(ledger) /\ (~straddled => ledger.max = Granted)
  BY ByWorker DEF BudgetInv
<1>2. PICK job : job = [worker[w] EXCEPT !.at = "charging", !.read = ledger]
  OBVIOUS
<1>3. /\ worker[w].at = "answered"
      /\ worker' = [worker EXCEPT ![w].at = "charging", ![w].read = ledger]
      /\ UNCHANGED <<status, ledger, item, tick, extensions, mishaps, charged, straddled>>
  BY DEF ReadLedger
<1>4. worker[w] \in Jobs /\ ledger \in Ledgers
  BY <1>0 DEF TypeOK
<1>5. /\ job \in Jobs /\ job.at = "charging" /\ job.item = worker[w].item
      /\ job.copy = worker[w].copy /\ job.view = worker[w].view /\ job.read = ledger
      /\ job.cost = worker[w].cost /\ job.paid = worker[w].paid /\ job.calm = worker[w].calm
      /\ job.unpaid = worker[w].unpaid /\ job.unparsed = worker[w].unparsed
  BY <1>2, <1>4 DEF Jobs
<1>6. worker' = [worker EXCEPT ![w] = job]
  BY <1>0, <1>2, <1>3 DEF TypeOK
<1>7. Granted' = Granted
  BY <1>0, <1>3, Grants
<1>8. JobKeeps(job, Recovering(w))
  BY <1>0, <1>3, <1>5 DEF JobsAre, JobKeeps
<1>9. /\ JobIsSound(job)' /\ Sound(ledger)' /\ JobIsCalm(job)'
      /\ ~straddled => ledger'.max = Granted' /\ JobIsGranted(job)'
  BY <1>0, <1>3, <1>5, <1>7 DEF JobsAre, JobIsSound, Sound, JobIsCalm, JobIsGranted, Own
<1>10. /\ mishaps' \in 0 .. MaxMishaps /\ ledger' \in Ledgers
       /\ charged' \in [all : Nat, recovery : Nat]
       /\ charged.all <= charged'.all /\ charged.recovery <= charged'.recovery
  BY <1>0, <1>3 DEF TypeOK
<1>11. JobPays(job)
  BY <1>0, <1>3, <1>5 DEF JobsAre, JobPays
<1> QED
  BY <1>3, <1>5, <1>6, <1>8, <1>9, <1>10, <1>11, GoesOn

LEMMA ChargeFailsKeeps == ASSUME BudgetInv, NEW w \in Workers, ChargeFails(w) PROVE BudgetInv'
<1>0. TypeOK /\ JobsAre /\ Sound(ledger) /\ (~straddled => ledger.max = Granted)
  BY ByWorker DEF BudgetInv
<1>2. PICK job : job = [worker[w] EXCEPT !.at = "after", !.read = Fresh, !.cost = 0, !.calm = FALSE]
  OBVIOUS
<1>3. /\ worker[w].at \in {"answered", "charging"} /\ mishaps' \in 0 .. MaxMishaps
      /\ worker' = [worker EXCEPT ![w].at = "after", ![w].read = Fresh, ![w].cost = 0, ![w].calm = FALSE]
      /\ UNCHANGED <<status, ledger, item, tick, extensions, charged, straddled>>
  BY <1>0 DEF ChargeFails, TypeOK
<1>4. worker[w] \in Jobs
  BY <1>0 DEF TypeOK
<1>5. /\ job \in Jobs /\ job.at = "after" /\ job.item = worker[w].item
      /\ job.copy = worker[w].copy /\ job.view = worker[w].view /\ job.read = Fresh
      /\ job.unpaid = worker[w].unpaid /\ job.unparsed = worker[w].unparsed
      /\ job.calm = FALSE
  BY <1>2, <1>4, FreshIsALedger DEF Jobs
<1>6. worker' = [worker EXCEPT ![w] = job]
  BY <1>0, <1>2, <1>3 DEF TypeOK
<1>7. Granted' = Granted
  BY <1>0, <1>3, Grants
<1>8. Sound(Fresh)
  BY <1>0, FreshIsSound
<1>9. /\ JobIsSound(job)' /\ Sound(ledger)' /\ JobIsCalm(job)' /\ JobKeeps(job, Recovering(w))
      /\ ~straddled => ledger'.max = Granted' /\ JobIsGranted(job)'
  BY <1>0, <1>3, <1>5, <1>7, <1>8 DEF JobsAre, JobIsSound, Sound, JobIsCalm, JobIsGranted, JobKeeps
<1>10. /\ mishaps' \in 0 .. MaxMishaps /\ ledger' \in Ledgers
       /\ charged' \in [all : Nat, recovery : Nat]
       /\ charged.all <= charged'.all /\ charged.recovery <= charged'.recovery
  BY <1>0, <1>3 DEF TypeOK
<1>11. JobPays(job)
  BY <1>0, <1>5 DEF JobsAre, JobPays
<1> QED
  BY <1>3, <1>5, <1>6, <1>9, <1>10, <1>11, GoesOn

LEMMA ChargeKeeps == ASSUME BudgetInv, NEW w \in Workers, ChargeLedger(w) PROVE BudgetInv'
<1>0. TypeOK /\ JobsAre /\ Sound(ledger) /\ (~straddled => ledger.max = Granted)
  BY ByWorker DEF BudgetInv
<1>1. worker[w].at = "charging" /\ worker[w] \in Jobs /\ Recovering(w) \in BOOLEAN
  BY <1>0, Jobs1 DEF ChargeLedger, TypeOK
<1>2. PICK new : new = Charge(worker[w].read, worker[w].cost, Recovering(w))
  OBVIOUS
<1>3. /\ ledger' = new
      /\ worker' = [worker EXCEPT ![w].at = "after", ![w].view = new, ![w].read = Fresh,
                                  ![w].cost = 0, ![w].paid = @ + worker[w].cost]
      /\ charged' = [all |-> charged.all + worker[w].cost,
                     recovery |-> charged.recovery + (IF Recovering(w) THEN worker[w].cost ELSE 0)]
      /\ UNCHANGED <<status, item, tick, extensions, mishaps, straddled>>
  BY <1>2 DEF ChargeLedger, Due
<1>4. PICK job : job = [worker[w] EXCEPT !.at = "after", !.view = new, !.read = Fresh, !.cost = 0,
                                         !.paid = @ + worker[w].cost]
  OBVIOUS
<1>5. /\ worker[w].read \in Ledgers /\ worker[w].copy \in Ledgers
      /\ worker[w].cost \in Nat /\ worker[w].paid \in Nat
      /\ charged.all \in Nat /\ charged.recovery \in Nat
  BY <1>0, <1>1 DEF TypeOK, Jobs
<1>6. /\ new \in Ledgers /\ new.max = worker[w].read.max
      /\ new.used = worker[w].read.used + worker[w].cost
      /\ new.recovery = worker[w].read.recovery + (IF Recovering(w) THEN worker[w].cost ELSE 0)
  <2> DEFINE b == worker[w].read
             cost == worker[w].cost
             marked == Recovering(w)
  <2>1. b \in Ledgers /\ cost \in Nat /\ marked \in BOOLEAN
    BY <1>1, <1>5
  <2>2. new = Charge(b, cost, marked)
    BY <1>2
  <2> HIDE DEF b, cost, marked
  <2>3. /\ new \in Ledgers /\ new.max = b.max /\ new.used = b.used + cost
        /\ new.recovery = b.recovery + (IF marked THEN cost ELSE 0)
    BY <2>1, <2>2, Charges
  <2> QED
    BY <2>3 DEF b, cost, marked
<1>7. /\ job \in Jobs /\ job.at = "after" /\ job.item = worker[w].item
      /\ job.copy = worker[w].copy /\ job.view = new /\ job.read = Fresh /\ job.cost = 0
      /\ job.paid = worker[w].paid + worker[w].cost /\ job.calm = worker[w].calm
      /\ job.unpaid = worker[w].unpaid /\ job.unparsed = worker[w].unparsed
  <2>1. worker[w].paid + worker[w].cost \in Nat
    BY <1>5
  <2> QED
    BY <2>1, <1>1, <1>4, <1>6, FreshIsALedger DEF Jobs
<1>8. worker' = [worker EXCEPT ![w] = job]
  BY <1>0, <1>3, <1>4 DEF TypeOK
<1>9. Granted' = Granted /\ Granted \in Nat
  BY <1>0, <1>3, Grants
<1>10. /\ charged' \in [all : Nat, recovery : Nat]
       /\ charged'.all = charged.all + worker[w].cost
       /\ charged'.recovery = charged.recovery + (IF Recovering(w) THEN worker[w].cost ELSE 0)
  BY <1>1, <1>3, <1>5
<1>11. Sound(new)'
  BY <1>0, <1>1, <1>5, <1>6, <1>9, <1>10 DEF JobsAre, JobIsSound, Sound, Ledgers
<1>12. JobIsSound(job)'
  <2>1. Sound(worker[w].copy) /\ Sound(Fresh)
    BY <1>0, FreshIsSound DEF JobsAre, JobIsSound
  <2> QED
    BY <2>1, <1>1, <1>5, <1>7, <1>9, <1>10, <1>11, FreshIsALedger DEF JobIsSound, Sound, Ledgers
<1>13. ~straddled => ledger'.max = Granted' /\ JobIsGranted(job)'
  BY <1>0, <1>1, <1>3, <1>6, <1>7, <1>9 DEF JobsAre, JobIsGranted
<1>14. JobIsCalm(job)' /\ JobKeeps(job, Recovering(w))
  <2>1. CASE job.calm
    <3>1. Own(worker[w], worker[w].read) /\ JobKeeps(worker[w], Recovering(w))
      BY <2>1, <1>0, <1>1, <1>7 DEF JobsAre, JobIsCalm
    <3>2. job.paid + job.cost = worker[w].paid + worker[w].cost
      BY <1>5, <1>7
    <3>3. Own(job, new)
      BY <3>1, <1>5, <1>6, <1>7 DEF Own, Ledgers
    <3> QED
      BY <2>1, <3>1, <3>2, <3>3, <1>1, <1>3, <1>7 DEF JobIsCalm, JobKeeps, Own
  <2>2. CASE ~job.calm
    BY <2>2 DEF JobIsCalm, JobKeeps
  <2> QED
    BY <2>1, <2>2
<1>15. /\ charged.all <= charged'.all /\ charged.recovery <= charged'.recovery
       /\ mishaps' \in 0 .. MaxMishaps /\ Sound(ledger)' /\ ledger' \in Ledgers
  BY <1>0, <1>1, <1>3, <1>5, <1>6, <1>10, <1>11 DEF TypeOK, Sound
<1>16. JobPays(job)
  <2>1. job.paid + job.cost = worker[w].paid + worker[w].cost
    BY <1>5, <1>7
  <2> QED
    BY <1>0, <1>1, <1>7, <2>1 DEF JobsAre, JobPays
<1> QED
  BY <1>1, <1>3, <1>7, <1>8, <1>10, <1>12, <1>13, <1>14, <1>15, <1>16, GoesOn

\* A worker is done with its item: nobody else was calm, so that it does not
\* matter which of the two ledgers is in the row.
LEMMA JobEnds ==
  ASSUME BudgetInv, NEW w \in Workers, worker[w].at # "idle",
         NEW row \in Rows, row.attempt < MaxAttempts[worker[w].item],
         item' = [item EXCEPT ![worker[w].item] = row],
         worker' = [worker EXCEPT ![w] = Idle],
         ledger' = ledger \/ ledger' = worker[w].copy,
         UNCHANGED <<status, tick, extensions, charged, straddled>>, mishaps' \in 0 .. MaxMishaps
  PROVE  BudgetInv'
<1>1. /\ TypeOK /\ ItemsUnderWay /\ JobsAre /\ Sound(ledger) /\ Sound(tick.copy)
      /\ ~straddled => ledger.max = Granted /\ (tick.on => tick.copy.max = Granted)
  BY ByWorker DEF BudgetInv
<1>2. worker[w] \in Jobs /\ worker[w].item \in Items
  BY <1>1, Jobs1
<1>3. Granted' = Granted
  BY <1>1, Grants
<1>4. \A v \in Workers : worker'[v] = IF v = w THEN Idle ELSE worker[v]
  BY <1>1 DEF TypeOK
<1>5. TypeOK'
  <2>1. ledger' \in Ledgers /\ item' \in [Items -> Rows] /\ worker' \in [Workers -> Jobs]
    BY <1>1, <1>2, IdleIsAJob DEF TypeOK, Jobs
  <2>2. \A i \in Items : item'[i].attempt < MaxAttempts[i]
    BY <1>1, <1>2 DEF TypeOK
  <2>3. \A v \in Workers : worker'[v].at # "idle" => worker'[v].item \in Items
    BY <1>1, <1>4, IdleIsAJob DEF TypeOK
  <2> QED
    BY <2>1, <2>2, <2>3, <1>1 DEF TypeOK
<1>6. ItemsUnderWay'
  BY <1>1, <1>2, <1>4, IdleIsAJob DEF ItemsUnderWay, TypeOK
<1>7. /\ Sound(ledger)' /\ Sound(tick.copy)'
      /\ ~straddled => ledger'.max = Granted /\ (tick.on => tick.copy.max = Granted)
  BY <1>1, <1>3 DEF JobsAre, JobIsSound, JobIsGranted, Sound
<1>8. JobsAre'
  <2> SUFFICES ASSUME NEW v \in Workers
               PROVE  /\ JobIsSound(worker[v])'
                      /\ ~straddled' => JobIsGranted(worker[v])'
                      /\ JobIsCalm(worker[v])'
                      /\ (worker[v].at # "idle" /\ worker[v].calm => Alone(v))'
                      /\ JobKeeps(worker[v], Recovering(v))'
                      /\ JobPays(worker[v])'
    BY DEF JobsAre
  <2>1. CASE v = w
    <3>1. worker'[v].at = "idle" /\ worker'[v] = Idle
      BY <2>1, <1>4, IdleIsAJob
    <3>2. Sound(Fresh)'
      BY <1>1, <1>3, FreshIsSound DEF Sound
    <3>3. JobPays(Idle)
      BY IdlePays
    <3> QED
      BY <3>1, <3>2, <3>3 DEF Idle, JobIsSound, JobIsGranted, JobIsCalm, JobKeeps, JobPays, Sound
  <2>2. CASE v # w
    <3>1. worker'[v] = worker[v]
      BY <2>2, <1>4
    <3>2. ~(worker[v].at # "idle" /\ worker[v].calm)
      BY <2>2, <1>1 DEF JobsAre, Alone
    <3>3. JobIsSound(worker[v])' /\ (~straddled => JobIsGranted(worker[v])')
      BY <3>1, <1>1, <1>3 DEF JobsAre, JobIsSound, JobIsGranted, Sound
    <3>4. JobPays(worker[v])'
      BY <3>1, <1>1 DEF JobsAre, JobPays
    <3> QED
      BY <3>1, <3>2, <3>3, <3>4 DEF JobIsCalm, JobKeeps
  <2> QED
    BY <2>1, <2>2
<1> QED
  BY <1>1, <1>3, <1>5, <1>6, <1>7, <1>8, ByWorkerNext

\* What a failure comes to is a row.
LEMMA FailureIsARow ==
  ASSUME NEW i \in Items, NEW row \in Rows, row.attempt < MaxAttempts[i], NEW used \in Nat,
         NEW next \in Failed(row, MaxAttempts[i], used)
  PROVE  next \in Rows /\ next.attempt < MaxAttempts[i] /\ next.status \in {"FAILED", "QUEUED"}
<1>1. CASE next = [row EXCEPT !.status = "FAILED"]
  BY <1>1 DEF Rows
<1>2. CASE /\ row.attempt + 1 < MaxAttempts[i]
           /\ next = [status |-> "QUEUED", attempt |-> row.attempt + 1, marked |-> TRUE]
  BY <1>2 DEF Rows
<1> QED
  BY <1>1, <1>2 DEF Failed

LEMMA ReportKeeps == ASSUME BudgetInv, NEW w \in Workers, Report(w) PROVE BudgetInv'
<1>1. TypeOK /\ worker[w].at # "idle"
  BY DEF BudgetInv, Report, MayGoOn
<1>2. worker[w] \in Jobs /\ worker[w].item \in Items
  BY <1>1, Jobs1
<1>3. PICK i : i = worker[w].item
  OBVIOUS
<1>4. item[i] \in Rows /\ item[i].attempt < MaxAttempts[i] /\ worker[w].copy.used \in Nat
  BY <1>1, <1>2, <1>3 DEF TypeOK, Jobs, Ledgers
<1>5. PICK row \in {[item[i] EXCEPT !.status = "DONE"]}
                     \cup Failed(item[i], MaxAttempts[i], worker[w].copy.used) : Reports(w, i, row)
  BY <1>3 DEF Report
<1>6. row \in Rows /\ row.attempt < MaxAttempts[i]
  <2>1. CASE row = [item[i] EXCEPT !.status = "DONE"]
    BY <2>1, <1>4 DEF Rows
  <2>2. CASE row \in Failed(item[i], MaxAttempts[i], worker[w].copy.used)
    BY <2>2, <1>2, <1>3, <1>4, FailureIsARow
  <2> QED
    BY <2>1, <2>2, <1>5
<1>7. mishaps' \in 0 .. MaxMishaps
  BY <1>1, <1>5 DEF Reports, TypeOK
<1> QED
  BY <1>1, <1>3, <1>5, <1>6, <1>7, JobEnds DEF Reports

LEMMA RefuseKeeps == ASSUME BudgetInv, NEW w \in Workers, Refuse(w) PROVE BudgetInv'
<1>1. TypeOK /\ worker[w].at # "idle"
  BY DEF BudgetInv, Refuse
<1>2. worker[w] \in Jobs /\ worker[w].item \in Items
  BY <1>1, Jobs1
<1>3. PICK i : i = worker[w].item
  OBVIOUS
<1>4. item[i] \in Rows /\ item[i].attempt < MaxAttempts[i]
  BY <1>1, <1>2, <1>3 DEF TypeOK
<1>5. PICK row : /\ row = [item[i] EXCEPT !.status = IF worker[w].at = "ready" THEN "TURNED_AWAY"
                                                                               ELSE "STOPPED"]
                 /\ Reports(w, i, row)
  BY <1>3 DEF Refuse
<1>6. row \in Rows /\ row.attempt < MaxAttempts[i]
  BY <1>4, <1>5 DEF Rows
<1>7. mishaps' \in 0 .. MaxMishaps
  BY <1>1, <1>5 DEF Reports, TypeOK
<1> QED
  BY <1>1, <1>3, <1>5, <1>6, <1>7, JobEnds DEF Reports

LEMMA RaiseKeeps == ASSUME BudgetInv, NEW w \in Workers, Raise(w) PROVE BudgetInv'
<1>1. TypeOK /\ worker[w].at # "idle"
  BY DEF BudgetInv, Raise
<1>2. worker[w].item \in Items
  BY <1>1, Jobs1
<1>3. PICK i : i = worker[w].item
  OBVIOUS
<1>4. item[i] \in Rows /\ item[i].attempt < MaxAttempts[i] /\ ledger.used \in Nat
  BY <1>1, <1>2, <1>3 DEF TypeOK, Ledgers
<1>5. PICK row \in Failed(item[i], MaxAttempts[i], ledger.used) : item' = [item EXCEPT ![i] = row]
  BY <1>3 DEF Raise
<1>6. row \in Rows /\ row.attempt < MaxAttempts[i]
  BY <1>2, <1>3, <1>4, <1>5, FailureIsARow
<1>7. /\ mishaps' \in 0 .. MaxMishaps /\ worker' = [worker EXCEPT ![w] = Idle]
      /\ UNCHANGED <<status, ledger, tick, extensions, charged, straddled>>
  BY <1>1 DEF Raise, TypeOK
<1> QED
  BY <1>1, <1>3, <1>5, <1>6, <1>7, JobEnds

LEMMA DieKeeps == ASSUME BudgetInv, NEW w \in Workers, Die(w) PROVE BudgetInv'
<1>1. TypeOK /\ worker[w].at # "idle" /\ mishaps' \in 0 .. MaxMishaps
  BY DEF BudgetInv, Die, TypeOK
<1>2. worker[w].item \in Items
  BY <1>1, Jobs1
<1>3. PICK i : i = worker[w].item
  OBVIOUS
<1>4. item[i] \in Rows /\ item[i].attempt < MaxAttempts[i]
  BY <1>1, <1>2, <1>3 DEF TypeOK
<1>5. PICK row : row = [item[i] EXCEPT !.status = "QUEUED"]
  OBVIOUS
<1>6. row \in Rows /\ row.attempt < MaxAttempts[i]
  BY <1>4, <1>5 DEF Rows
<1>7. /\ item' = [item EXCEPT ![i] = row] /\ worker' = [worker EXCEPT ![w] = Idle]
      /\ UNCHANGED <<status, ledger, tick, extensions, charged, straddled>>
  BY <1>1, <1>2, <1>3, <1>5 DEF Die, TypeOK
<1> QED
  BY <1>1, <1>3, <1>6, <1>7, JobEnds

\* To disturb changes nothing else.
LEMMA DisturbedIs ==
  ASSUME TypeOK
  PROVE  /\ Disturbed \in [Workers -> Jobs]
         /\ \A v \in Workers :
               /\ Disturbed[v].at = worker[v].at /\ Disturbed[v].item = worker[v].item
               /\ Disturbed[v].copy = worker[v].copy /\ Disturbed[v].view = worker[v].view
               /\ Disturbed[v].read = worker[v].read /\ Disturbed[v].calm = FALSE
               /\ Disturbed[v].unpaid = worker[v].unpaid /\ Disturbed[v].unparsed = worker[v].unparsed
<1>2. \A v \in Workers : worker[v] \in Jobs /\ Disturbed[v] = [worker[v] EXCEPT !.calm = FALSE]
  BY DEF TypeOK, Disturbed
<1>3. \A v \in Workers :
         /\ Disturbed[v] \in Jobs
         /\ Disturbed[v].at = worker[v].at /\ Disturbed[v].item = worker[v].item
         /\ Disturbed[v].copy = worker[v].copy /\ Disturbed[v].view = worker[v].view
         /\ Disturbed[v].read = worker[v].read /\ Disturbed[v].calm = FALSE
         /\ Disturbed[v].unpaid = worker[v].unpaid /\ Disturbed[v].unparsed = worker[v].unparsed
  <2> TAKE v \in Workers
  <2>1. PICK old \in Jobs : old = worker[v]
    BY <1>2
  <2>2. PICK new : new = [old EXCEPT !.calm = FALSE]
    OBVIOUS
  <2>3. /\ new \in Jobs /\ new.at = old.at /\ new.item = old.item /\ new.copy = old.copy
        /\ new.view = old.view /\ new.read = old.read /\ new.calm = FALSE
        /\ new.unpaid = old.unpaid /\ new.unparsed = old.unparsed
    BY <2>2 DEF Jobs
  <2>4. Disturbed[v] = new
    BY <1>2, <2>1, <2>2
  <2> QED
    BY <2>1, <2>3, <2>4
<1>4. Disturbed \in [Workers -> Jobs]
  BY <1>2, <1>3 DEF Disturbed
<1> QED
  BY <1>3, <1>4

\* A claim disturbs everybody, and starts from the ledger of the row.
LEMMA ClaimKeeps ==
  ASSUME BudgetInv, NEW w \in Workers, NEW i \in Items, Claim(w, i) PROVE BudgetInv'
<1>1. /\ TypeOK /\ ItemsUnderWay /\ JobsAre /\ Sound(ledger) /\ Sound(tick.copy)
      /\ ~straddled => ledger.max = Granted /\ (tick.on => tick.copy.max = Granted)
  BY ByWorker DEF BudgetInv
<1>2. /\ worker[w].at = "idle" /\ item[i].status = "QUEUED"
      /\ item' = [item EXCEPT ![i].status = "RUNNING"]
      /\ UNCHANGED <<status, ledger, tick, extensions, mishaps, charged, straddled>>
  BY DEF Claim
<1>3. PICK job : job = [Idle EXCEPT !.at = "ready", !.item = i, !.copy = ledger,
                                    !.view = ledger, !.calm = Alone(w)]
  OBVIOUS
<1>4. worker' = [Disturbed EXCEPT ![w] = job]
  BY <1>3 DEF Claim
<1>5. /\ job \in Jobs /\ job.at = "ready" /\ job.item = i /\ job.copy = ledger /\ job.view = ledger
      /\ job.read = Fresh /\ job.cost = 0 /\ job.paid = 0 /\ job.calm = Alone(w)
      /\ job.unpaid = 0 /\ job.unparsed = 0
  <2>1. ledger \in Ledgers /\ 0 \in 0 .. MaxAnswers /\ 0 \in 0 .. MaxUnparsed
    BY <1>1 DEF TypeOK
  <2>2. PICK calm \in BOOLEAN : calm = Alone(w)
    BY DEF Alone
  <2>3. job = [at |-> "ready", item |-> i, copy |-> ledger, view |-> ledger, read |-> Fresh,
               cost |-> 0, paid |-> 0, answers |-> 0, unparsed |-> 0, unpaid |-> 0, calm |-> calm]
    BY <1>3, <2>2 DEF Idle
  <2> QED
    BY <2>1, <2>2, <2>3, FreshIsALedger DEF Jobs
<1>6. \A v \in Workers : worker'[v] = IF v = w THEN job ELSE Disturbed[v]
  BY <1>1, <1>4, DisturbedIs
<1>7. \A v \in Workers \ {w} :
         /\ worker'[v] \in Jobs /\ worker'[v].at = worker[v].at /\ worker'[v].item = worker[v].item
         /\ worker'[v].copy = worker[v].copy /\ worker'[v].view = worker[v].view
         /\ worker'[v].read = worker[v].read /\ worker'[v].calm = FALSE
         /\ worker'[v].unpaid = worker[v].unpaid /\ worker'[v].unparsed = worker[v].unparsed
  <2> TAKE v \in Workers \ {w}
  <2>1. worker'[v] = Disturbed[v]
    BY <1>6
  <2>2. /\ Disturbed[v] \in Jobs
        /\ Disturbed[v].at = worker[v].at /\ Disturbed[v].item = worker[v].item
        /\ Disturbed[v].copy = worker[v].copy /\ Disturbed[v].view = worker[v].view
        /\ Disturbed[v].read = worker[v].read /\ Disturbed[v].calm = FALSE
        /\ Disturbed[v].unpaid = worker[v].unpaid /\ Disturbed[v].unparsed = worker[v].unparsed
    BY <1>1, DisturbedIs
  <2> QED
    BY <2>1, <2>2
<1>8. Granted' = Granted
  BY <1>1, <1>2, Grants
<1>9. TypeOK'
  <2>1. item' \in [Items -> Rows] /\ \A j \in Items : item'[j].attempt < MaxAttempts[j]
    BY <1>1, <1>2 DEF TypeOK, Rows
  <2>2. worker' \in [Workers -> Jobs]
    BY <1>1, <1>4, <1>5, DisturbedIs
  <2>3. \A v \in Workers : worker'[v].at # "idle" => worker'[v].item \in Items
    BY <1>1, <1>5, <1>6, <1>7 DEF TypeOK
  <2> QED
    BY <2>1, <2>2, <2>3, <1>1, <1>2 DEF TypeOK
<1>10. ItemsUnderWay'
  <2>1. \A v \in Workers \ {w} : worker[v].at # "idle" => worker[v].item # i /\ worker[v].item \in Items
    BY <1>1, <1>2 DEF ItemsUnderWay, TypeOK
  <2>2. \A j \in Items : item'[j].status = IF j = i THEN "RUNNING" ELSE item[j].status
    BY <1>1, <1>2 DEF TypeOK, Rows
  <2> QED
    BY <2>1, <2>2, <1>1, <1>5, <1>6, <1>7 DEF ItemsUnderWay
<1>11. /\ Sound(ledger)' /\ Sound(tick.copy)'
       /\ ~straddled => ledger'.max = Granted' /\ (tick'.on => tick'.copy.max = Granted')
  BY <1>1, <1>2, <1>8 DEF Sound
<1>12. JobsAre'
  <2> SUFFICES ASSUME NEW v \in Workers
               PROVE  /\ JobIsSound(worker[v])'
                      /\ ~straddled' => JobIsGranted(worker[v])'
                      /\ JobIsCalm(worker[v])'
                      /\ (worker[v].at # "idle" /\ worker[v].calm => Alone(v))'
                      /\ JobKeeps(worker[v], Recovering(v))'
                      /\ JobPays(worker[v])'
    BY DEF JobsAre
  <2>1. CASE v = w
    <3>1. worker'[v] = job
      BY <2>1, <1>6
    <3>2. Sound(Fresh)
      BY <1>1, FreshIsSound
    <3>3. JobIsSound(worker[v])' /\ (~straddled' => JobIsGranted(worker[v])')
      BY <3>1, <3>2, <1>1, <1>2, <1>5, <1>8 DEF JobIsSound, JobIsGranted, Sound
    <3>4. Own(job, ledger)
      BY <1>1, <1>5 DEF Own, TypeOK, Ledgers
    <3>5. JobIsCalm(worker[v])' /\ JobKeeps(worker[v], Recovering(v))'
      BY <3>1, <3>4, <1>2, <1>5 DEF JobIsCalm, JobKeeps, Own
    <3>6. job.calm => Alone(v)'
      <4>1. Alone(w) => Alone(w)'
        BY <1>2, <1>7 DEF Alone
      <4> QED
        BY <2>1, <1>5, <4>1
    <3>7. JobPays(job)
      <4>1. 0 * MaxCost = 0
        OBVIOUS
      <4> QED
        BY <4>1, <1>5 DEF JobPays
    <3> QED
      BY <3>1, <3>3, <3>5, <3>6, <3>7 DEF JobPays
  <2>2. CASE v # w
    <3>1. JobPays(worker[v])'
      BY <2>2, <1>1, <1>7 DEF JobsAre, JobPays
    <3> QED
      BY <2>2, <3>1, <1>1, <1>2, <1>7, <1>8 DEF JobsAre, JobIsSound, JobIsGranted, JobIsCalm, JobKeeps, Sound
  <2> QED
    BY <2>1, <2>2
<1> QED
  BY <1>1, <1>2, <1>9, <1>10, <1>11, <1>12, ByWorkerNext

\* Everybody is disturbed: a tick begins, or the budget is extended.
LEMMA DisturbedKeeps ==
  ASSUME BudgetInv, worker' = Disturbed, UNCHANGED <<charged, mishaps>>,
         TypeOK', Granted <= Granted', ledger'.used <= ledger.used, ledger'.recovery <= ledger.recovery,
         ledger'.max <= Granted', Sound(tick.copy)',
         \A i \in Items : item[i].status = "RUNNING" => item'[i].status = "RUNNING",
         ~straddled' => /\ ~straddled
                        /\ ledger'.max = Granted'
                        /\ tick'.on => tick'.copy.max = Granted'
                        /\ Granted' = Granted \/ \A w \in Workers : worker[w].at = "idle"
  PROVE  BudgetInv'
<1>1. /\ TypeOK /\ ItemsUnderWay /\ JobsAre /\ Sound(ledger)
      /\ Granted \in Nat /\ Granted' \in Nat
  <2>1. \A e \in Nat : Budget + e * Extra \in Nat
    OBVIOUS
  <2>2. extensions \in Nat /\ extensions' \in Nat
    BY DEF BudgetInv, TypeOK
  <2> QED
    BY <2>1, <2>2, ByWorker DEF BudgetInv, Granted
<1>2. \A v \in Workers :
         /\ worker[v] \in Jobs /\ worker'[v].at = worker[v].at /\ worker'[v].item = worker[v].item
         /\ worker'[v].copy = worker[v].copy /\ worker'[v].view = worker[v].view
         /\ worker'[v].read = worker[v].read /\ worker'[v].calm = FALSE
         /\ worker'[v].unpaid = worker[v].unpaid /\ worker'[v].unparsed = worker[v].unparsed
  BY <1>1, DisturbedIs DEF TypeOK
<1>3. ItemsUnderWay'
  BY <1>1, <1>2 DEF ItemsUnderWay, TypeOK
<1>4. \A b \in Ledgers : Sound(b) => Sound(b)'
  BY <1>1 DEF Sound, Ledgers
<1>5. Sound(ledger)'
  BY <1>1 DEF Sound, TypeOK, Ledgers
<1>6. JobsAre'
  <2> SUFFICES ASSUME NEW v \in Workers
               PROVE  /\ JobIsSound(worker[v])'
                      /\ ~straddled' => JobIsGranted(worker[v])'
                      /\ JobIsCalm(worker[v])'
                      /\ (worker[v].at # "idle" /\ worker[v].calm => Alone(v))'
                      /\ JobKeeps(worker[v], Recovering(v))'
                      /\ JobPays(worker[v])'
    BY DEF JobsAre
  <2>1. JobIsSound(worker[v])'
    <3>1. worker[v].copy \in Ledgers /\ worker[v].view \in Ledgers /\ worker[v].read \in Ledgers
      BY <1>2 DEF Jobs
    <3>2. Sound(worker[v].copy) /\ Sound(worker[v].view) /\ Sound(worker[v].read)
      BY <1>1 DEF JobsAre, JobIsSound
    <3> QED
      BY <3>1, <3>2, <1>2, <1>4 DEF JobIsSound, Sound
  <2>2. ~straddled' => JobIsGranted(worker[v])'
    BY <1>1, <1>2 DEF JobsAre, JobIsGranted
  <2>3. JobPays(worker[v])'
    BY <1>1, <1>2 DEF JobsAre, JobPays
  <2> QED
    BY <2>1, <2>2, <2>3, <1>2 DEF JobIsCalm, JobKeeps
<1> QED
  BY <1>3, <1>5, <1>6, ByWorkerNext

LEMMA BeginKeeps == ASSUME BudgetInv, Begin PROVE BudgetInv'
<1>1. /\ TypeOK /\ Sound(ledger) /\ (~straddled => ledger.max = Granted)
      /\ Granted' = Granted /\ Granted \in Nat
  BY ByWorker, Grants DEF BudgetInv, Begin
<1>2. Disturbed \in [Workers -> Jobs] /\ \A w \in Workers : Disturbed[w].at = worker[w].at /\ Disturbed[w].item = worker[w].item
  BY <1>1, DisturbedIs
<1>3. TypeOK'
  BY <1>1, <1>2 DEF Begin, TypeOK
<1>4. Sound(tick.copy)' /\ ledger'.max <= Granted' /\ ledger'.used <= ledger.used
      /\ ledger'.recovery <= ledger.recovery
  BY <1>1 DEF Begin, Sound, TypeOK, Ledgers
<1>5. ~straddled' => ~straddled /\ ledger'.max = Granted' /\ tick'.copy.max = Granted'
  BY <1>1 DEF Begin
<1>6. worker' = Disturbed /\ UNCHANGED <<item, charged, mishaps>>
  BY DEF Begin
<1> QED
  BY <1>1, <1>3, <1>4, <1>5, <1>6, DisturbedKeeps

LEMMA ExtendKeeps == ASSUME BudgetInv, Extend PROVE BudgetInv'
<1>1. /\ TypeOK /\ Sound(ledger) /\ Sound(tick.copy) /\ (~straddled => ledger.max = Granted)
      /\ Granted' = Granted + Extra /\ Granted \in Nat /\ ledger \in Ledgers /\ tick.copy \in Ledgers
  BY ByWorker, Grants DEF BudgetInv, Extend, TypeOK
<1>2. Disturbed \in [Workers -> Jobs] /\ \A w \in Workers : Disturbed[w].at = worker[w].at /\ Disturbed[w].item = worker[w].item
  BY <1>1, DisturbedIs
<1>3. /\ worker' = Disturbed /\ UNCHANGED <<tick, mishaps, charged>>
      /\ ledger' = [ledger EXCEPT !.max = @ + Extra]
      /\ straddled' = (straddled \/ tick.on \/ \E w \in Workers : worker[w].at # "idle")
      /\ extensions' = extensions + 1 /\ extensions < MaxExtensions
  BY DEF Extend
<1>4. /\ item' \in [Items -> Rows]
      /\ \A i \in Items : /\ item'[i].attempt = item[i].attempt
                          /\ item[i].status = "RUNNING" => item'[i].status = "RUNNING"
  BY <1>1 DEF Extend, TypeOK, Requeued, Rows
<1>5. /\ ledger' \in Ledgers /\ ledger'.max = ledger.max + Extra /\ ledger'.used = ledger.used
      /\ ledger'.recovery = ledger.recovery
  <2>1. ledger.max + Extra \in Nat
    BY <1>1 DEF Ledgers
  <2> QED
    BY <2>1, <1>1, <1>3 DEF Ledgers
<1>6. TypeOK'
  <2>1. status' \in {"RUNNING", "PAUSED"} /\ extensions' \in 0 .. MaxExtensions /\ straddled' \in BOOLEAN
    BY <1>1, <1>3 DEF Extend, TypeOK
  <2> QED
    BY <2>1, <1>1, <1>2, <1>3, <1>4, <1>5 DEF TypeOK
<1>7. /\ Sound(tick.copy)' /\ ledger'.max <= Granted' /\ Granted <= Granted'
      /\ ledger'.used <= ledger.used /\ ledger'.recovery <= ledger.recovery
  BY <1>1, <1>3, <1>5 DEF Sound, Ledgers
<1>8. ~straddled' => /\ ~straddled /\ ~tick'.on /\ ledger'.max = Granted'
                     /\ \A w \in Workers : worker[w].at = "idle"
  BY <1>1, <1>3, <1>5
<1> QED
  BY <1>3, <1>4, <1>6, <1>7, <1>8, DisturbedKeeps

\* A tick ends with the row as it is, or as the tick read it: nobody was calm.
LEMMA TickKeeps == ASSUME BudgetInv, Pause \/ End PROVE BudgetInv'
<1>1. /\ TypeOK /\ ItemsUnderWay /\ JobsAre /\ Sound(ledger) /\ Sound(tick.copy)
      /\ ~straddled => ledger.max = Granted /\ (tick.on => tick.copy.max = Granted)
  BY ByWorker DEF BudgetInv
<1>2. /\ tick.on /\ (ledger' = ledger \/ ledger' = tick.copy) /\ tick' = NoTick
      /\ UNCHANGED <<item, worker, extensions, mishaps, charged, straddled>>
      /\ status' \in {"RUNNING", "PAUSED"}
  BY <1>1 DEF Pause, End, TypeOK
<1>3. Granted' = Granted
  BY <1>1, <1>2, Grants
<1>4. TypeOK'
  BY <1>1, <1>2, FreshIsALedger DEF TypeOK, NoTick
<1>5. Sound(Fresh)
  BY <1>1, FreshIsSound
<1>6. Sound(ledger)' /\ Sound(tick.copy)' /\ (~straddled => ledger'.max = Granted') /\ ~tick'.on
  BY <1>1, <1>2, <1>3, <1>5 DEF Sound, NoTick
<1>7. \A v \in Workers : ~(worker[v].at # "idle" /\ worker[v].calm)
  BY <1>1, <1>2 DEF JobsAre, Alone
<1>8. JobsAre'
  <2> SUFFICES ASSUME NEW v \in Workers
               PROVE  JobIsSound(worker[v])' /\ (~straddled' => JobIsGranted(worker[v])')
    BY <1>1, <1>2, <1>7 DEF JobsAre, JobIsCalm, JobKeeps, JobPays
  <2> QED
    BY <1>1, <1>2, <1>3 DEF JobsAre, JobIsSound, JobIsGranted, Sound
<1>9. ItemsUnderWay'
  BY <1>1, <1>2 DEF ItemsUnderWay
<1> QED
  BY <1>2, <1>4, <1>6, <1>8, <1>9, ByWorkerNext

-----------------------------------------------------------------------------
LEMMA InitBudget == ASSUME Init PROVE BudgetInv
<1>1. Fresh \in Ledgers /\ \A w \in Workers : worker[w] = Idle
  BY FreshIsALedger DEF Init
<1>2. TypeOK
  <2>1. item \in [Items -> Rows] /\ \A i \in Items : item[i].attempt < MaxAttempts[i]
    BY DEF Init, Rows
  <2>2. worker \in [Workers -> Jobs]
    BY IdleIsAJob DEF Init
  <2>3. \A w \in Workers : worker[w].at # "idle" => worker[w].item \in Items
    BY <1>1, IdleIsAJob
  <2>4. /\ ledger \in Ledgers /\ tick \in [on : BOOLEAN, copy : Ledgers]
        /\ status \in {"RUNNING", "PAUSED"} /\ straddled \in BOOLEAN
    BY <1>1 DEF Init, NoTick
  <2>5. /\ extensions \in 0 .. MaxExtensions /\ mishaps \in 0 .. MaxMishaps
        /\ charged \in [all : Nat, recovery : Nat]
    BY DEF Init
  <2> QED
    BY <2>1, <2>2, <2>3, <2>4, <2>5 DEF TypeOK
<1>3. Sound(Fresh) /\ Granted = Budget
  BY <1>2, FreshIsSound DEF Init, Granted
<1>4. NothingIsMadeUp
  BY <1>1, <1>3 DEF NothingIsMadeUp, Init, NoTick, Idle
<1>5. LimitIsGranted
  BY <1>1, <1>3, IdleIsAJob, FreshIsALedger DEF LimitIsGranted, Init, NoTick
<1>6. ItemsUnderWay /\ CalmIsAlone /\ ChargesKeepToBudget
  BY <1>1, IdleIsAJob DEF ItemsUnderWay, CalmIsAlone, ChargesKeepToBudget
<1>7. UnpaidIsUnparsed
  BY <1>1, IdlePays DEF UnpaidIsUnparsed, JobPays, Owes
<1> QED
  BY <1>2, <1>4, <1>5, <1>6, <1>7 DEF BudgetInv

LEMMA StepBudget == ASSUME BudgetInv, [Next]_vars PROVE BudgetInv'
<1>1. ASSUME NEW w \in Workers, NEW i \in Items, Claim(w, i) PROVE BudgetInv'
  BY <1>1, ClaimKeeps
<1>2. ASSUME NEW w \in Workers, Ask(w) PROVE BudgetInv'
  BY <1>2, AskKeeps
<1>14. ASSUME NEW w \in Workers, AskInVain(w) PROVE BudgetInv'
  BY <1>14, AskInVainKeeps
<1>3. ASSUME NEW w \in Workers, ReadLedger(w) PROVE BudgetInv'
  BY <1>3, ReadKeeps
<1>4. ASSUME NEW w \in Workers, ChargeLedger(w) PROVE BudgetInv'
  BY <1>4, ChargeKeeps
<1>5. ASSUME NEW w \in Workers, ChargeFails(w) PROVE BudgetInv'
  BY <1>5, ChargeFailsKeeps
<1>6. ASSUME NEW w \in Workers, Report(w) PROVE BudgetInv'
  BY <1>6, ReportKeeps
<1>7. ASSUME NEW w \in Workers, Refuse(w) PROVE BudgetInv'
  BY <1>7, RefuseKeeps
<1>8. ASSUME NEW w \in Workers, Raise(w) PROVE BudgetInv'
  BY <1>8, RaiseKeeps
<1>9. ASSUME NEW w \in Workers, Die(w) PROVE BudgetInv'
  BY <1>9, DieKeeps
<1>10. CASE Begin
  BY <1>10, BeginKeeps
<1>11. CASE Pause \/ End
  BY <1>11, TickKeeps
<1>12. CASE Extend
  BY <1>12, ExtendKeeps
<1>13. CASE UNCHANGED vars
  BY <1>13 DEF vars, BudgetInv, TypeOK, NothingIsMadeUp, ItemsUnderWay, LimitIsGranted, CalmIsAlone,
               ChargesKeepToBudget, UnpaidIsUnparsed, Granted, Sound, Alone, SeesItsOwn, Left, Owes, Recovering
<1> QED
  BY <1>1, <1>2, <1>3, <1>4, <1>5, <1>6, <1>7, <1>8, <1>9, <1>10, <1>11, <1>12, <1>13, <1>14 DEF Next

\* The parts of the invariant hold of every reachable state.
THEOREM BudgetInvariant == Spec => []BudgetInv
  BY InitBudget, StepBudget, PTL DEF Spec

\* Every reachable state is well typed.
THEOREM TypeCorrect == Spec => []TypeOK
<1>1. BudgetInv => TypeOK
  BY DEF BudgetInv
<1> QED
  BY <1>1, BudgetInvariant, PTL

\* No copy of the ledger ever shows a charge that was not made, or a limit above
\* the one granted (record_run_budget_usage).
THEOREM ChargesAreReal == Spec => []NothingIsMadeUp
<1>1. BudgetInv => NothingIsMadeUp
  BY DEF BudgetInv
<1> QED
  BY <1>1, BudgetInvariant, PTL

\* What was not charged was not parsed, and something was charged before it.
LEMMA KeepsToBudget == ASSUME BudgetInv PROVE ExecutionKeepsToBudget
<1> SUFFICES ASSUME NEW w \in Workers, worker[w].at # "idle", worker[w].calm, Spends(w) > 0
             PROVE  Spends(w) + Background < Left(w) + MaxCost + worker[w].unparsed * MaxCost
  BY DEF ExecutionKeepsToBudget
<1>1. /\ worker[w].paid \in Nat /\ worker[w].cost \in Nat /\ worker[w].unpaid \in Nat
      /\ worker[w].unparsed \in Nat
      /\ worker[w].copy.max \in Nat /\ worker[w].copy.used \in Nat
  BY DEF BudgetInv, TypeOK, Jobs, Ledgers
<1>2. PICK left \in Int : left = Left(w)
  BY <1>1 DEF Left
<1>3. PICK sum \in Nat : sum = worker[w].unparsed * MaxCost
  BY <1>1
<1>4. PICK owes \in Nat : owes = Owes(w)
  BY <1>1 DEF Owes
<1>5. /\ worker[w].unpaid <= sum
      /\ worker[w].unpaid > 0 => owes > 0
      /\ owes > 0 => owes + Background < left + MaxCost
  BY <1>2, <1>3, <1>4 DEF BudgetInv, UnpaidIsUnparsed, ChargesKeepToBudget
<1>6. Spends(w) = owes + worker[w].unpaid
  BY <1>4 DEF Spends
<1> QED
  BY <1>1, <1>2, <1>3, <1>4, <1>5, <1>6

\* An execution that nobody overlaps keeps to what was left, one answer more, and
\* one for each answer of a repair that could not be parsed (CodexExecutor.execute).
THEOREM CalmExecutionKeeps == Spec => []ExecutionKeepsToBudget
<1>1. BudgetInv => ExecutionKeepsToBudget
  BY KeepsToBudget
<1> QED
  BY <1>1, BudgetInvariant, PTL

\* Nobody is refused before the run has spent what it was granted, as long as no
\* extension came between a read of the ledger and its write (refresh).
THEOREM RefusalsArePaidFor == Spec => RefusalIsPaidFor
<1>1. ASSUME BudgetInv, [Next]_vars,
             NEW i \in Items, ~Refused(i), Refused(i)', ~straddled
      PROVE  /\ charged.all + Background >= Granted
             /\ item[i].marked => \/ charged.recovery + Background >= Reserve
                                  \/ charged.all + Background >= Granted + Reserve
  <2>1. TypeOK /\ ItemsUnderWay /\ LimitIsGranted /\ NothingIsMadeUp
    BY <1>1 DEF BudgetInv
  <2>2. item[i] \in Rows /\ item[i].attempt < MaxAttempts[i]
    BY <1>1, <2>1 DEF TypeOK
  <2>3. PICK w \in Workers : Refuse(w) /\ worker[w].item = i
    <3>1. ASSUME NEW w \in Workers, NEW j \in Items, Claim(w, j) PROVE FALSE
      BY <3>1, <1>1, <2>1 DEF Claim, Refused, TypeOK, Rows
    <3>2. ASSUME NEW w \in Workers, Report(w) \/ Raise(w) PROVE FALSE
      <4>1. worker[w].item \in Items /\ worker[w] \in Jobs /\ ledger \in Ledgers
        BY <3>2, <2>1 DEF Report, Raise, MayGoOn, TypeOK
      <4>2. PICK j \in Items : j = worker[w].item
        BY <4>1
      <4>3. item[j] \in Rows /\ item[j].attempt < MaxAttempts[j] /\ worker[w].copy.used \in Nat /\ ledger.used \in Nat
        BY <2>1, <4>1 DEF TypeOK, Jobs, Ledgers
      <4>4. PICK row : /\ item' = [item EXCEPT ![j] = row]
                       /\ \/ row = [item[j] EXCEPT !.status = "DONE"]
                          \/ row \in Failed(item[j], MaxAttempts[j], worker[w].copy.used)
                          \/ row \in Failed(item[j], MaxAttempts[j], ledger.used)
        BY <3>2, <4>2 DEF Report, Raise, Reports
      <4>5. row.status \in {"DONE", "FAILED", "QUEUED"}
        BY <4>3, <4>4, FailureIsARow DEF Rows
      <4> QED
        BY <1>1, <2>1, <4>4, <4>5 DEF Refused, TypeOK
    <3>3. ASSUME NEW w \in Workers, Die(w) PROVE FALSE
      BY <3>3, <1>1, <2>1 DEF Die, Refused, TypeOK, Rows
    <3>4. ASSUME Extend PROVE FALSE
      BY <3>4, <1>1, <2>1 DEF Extend, Requeued, Refused, TypeOK, Rows
    <3>5. ASSUME UNCHANGED item PROVE FALSE
      BY <3>5, <1>1 DEF Refused
    <3>6. ASSUME NEW w \in Workers, Refuse(w) PROVE worker[w].item = i
      BY <3>6, <1>1, <2>1 DEF Refuse, Reports, Refused, TypeOK
    <3>7. ASSUME NEW w \in Workers, Ask(w) \/ AskInVain(w) \/ ReadLedger(w) \/ ChargeLedger(w) \/ ChargeFails(w)
          PROVE  FALSE
      BY <3>5, <3>7 DEF Ask, AskInVain, ReadLedger, ChargeLedger, ChargeFails
    <3>8. ASSUME Begin \/ Pause \/ End PROVE FALSE
      BY <3>5, <3>8 DEF Begin, Pause, End
    <3> QED
      BY <1>1, <3>1, <3>2, <3>3, <3>4, <3>5, <3>6, <3>7, <3>8 DEF Next, vars
  <2>4. PICK b \in Ledgers : b = worker[w].view
    BY <2>1 DEF TypeOK, Jobs
  <2>5. Blocked(b, Recovering(w)) /\ Recovering(w) = item[i].marked /\ Recovering(w) \in BOOLEAN
    BY <2>2, <2>3, <2>4 DEF Refuse, Recovering, Rows
  <2>6. b.max = Granted /\ b.used <= charged.all /\ b.recovery <= charged.recovery
    BY <1>1, <2>1, <2>3, <2>4 DEF Refuse, LimitIsGranted, NothingIsMadeUp, Sound
  <2>7. /\ b.used + Background >= b.max
        /\ Recovering(w) => \/ b.recovery + Background >= Reserve
                            \/ b.used + Background >= b.max + Reserve
    BY <2>5, BlockedIsSpent
  <2>8. charged.all \in Nat /\ charged.recovery \in Nat /\ Granted \in Nat
    BY <2>1, Grants DEF TypeOK
  <2> QED
    BY <2>5, <2>6, <2>7, <2>8 DEF Ledgers
<1>2. BudgetInv /\ [Next]_vars =>
        [\A i \in Items :
           ~Refused(i) /\ Refused(i)' /\ ~straddled =>
             /\ charged.all + Background >= Granted
             /\ item[i].marked => \/ charged.recovery + Background >= Reserve
                                  \/ charged.all + Background >= Granted + Reserve]_vars
  BY <1>1
<1> QED
  BY <1>2, BudgetInvariant, PTL DEF Spec, RefusalIsPaidFor

=============================================================================
