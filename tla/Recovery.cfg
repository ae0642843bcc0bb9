SPECIFICATION FairSpec
CONSTANTS
    Workers = {w1, w2}
    Graph <- MCGraph
    GraphEdges <- MCGraphEdges
    Optional <- MCOptional
    Texts <- MCTexts
    MaxAttempts = 2
    MaxItem = 2
    MaxType = 2
    MaxRun = 4
    MaxFix = 2
    TestRetries = 2
    MaxFaults = 1
INVARIANTS
    TypeOK
    BudgetsHold
    DependentsFollow
    RepairBringsRetry
PROPERTIES
    FollowsTheGraph
    StepsAreUsedUp
    RecoveryEnds
CHECK_DEADLOCK FALSE
