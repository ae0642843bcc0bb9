SPECIFICATION FairSpec
CONSTANTS
    Items <- MCItems
    Edges <- MCEdges
    RepairOf <- MCRepairOf
    Soft <- MCSoft
    Asking <- MCAsking
    Batch = 2
    MaxAttempts = 2
    MaxLoops = 2
    MaxCalls = 2
    MaxMishaps = 1
INVARIANTS
    TypeOK
    OneExecutionEach
    DoneOnce
PROPERTIES
    VerdictIsRight
    LoopEnds
CHECK_DEADLOCK FALSE
