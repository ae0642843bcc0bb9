SPECIFICATION Spec
CONSTANTS
    i1 = i1
    i2 = i2
    w1 = w1
    w2 = w2
    Items <- MCItems
    Recovery <- MCRecovery
    Workers <- MCWorkers
    Costs <- MCCosts
    MaxCost = 2
    Budget = 3
    Reserve = 2
    Background = 1
    HardLimit = 3
    RecoveryLimit = 2
    Extra = 2
    MaxAttempts <- MCAttempts
    MaxAnswers = 2
    MaxUnparsed = 1
    MaxExtensions = 1
    MaxMishaps = 1
SYMMETRY MCSymmetry
INVARIANTS
    TypeOK
    NothingIsMadeUp
    ExecutionKeepsToBudget
PROPERTIES
    RefusalIsPaidFor
CHECK_DEADLOCK FALSE
