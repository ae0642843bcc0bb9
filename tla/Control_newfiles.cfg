SPECIFICATION Spec
CONSTANTS
    Items = {1, 2, 3, 4}
    Edges <- MCEdges
    NewFiles = {1}
    Failures <- MCFailures
    Workers = 1
    MaxCalls = 1
INVARIANTS
    NewFilesAreKept
CHECK_DEADLOCK FALSE
