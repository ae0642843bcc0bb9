SPECIFICATION FairSpec
CONSTANTS
    Items = {1, 2, 3, 4}
    Edges <- MCEdges
    NewFiles = {}
    Failures <- MCFailures
    Workers = 2
    MaxCalls = 2
INVARIANTS
    TypeOK
    WorkIsKept
    LatestCheckpointApplies
PROPERTIES
    OpenRunStops
    ResumeFindsNobody
CHECK_DEADLOCK FALSE
