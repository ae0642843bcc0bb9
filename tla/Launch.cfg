SPECIFICATION FairSpec
CONSTANTS
    create_key = create_key
    fork_key = fork_key
    CreateKeys <- MCCreateKeys
    ForkKeys <- MCForkKeys
    NoKey = NoKey
    Window = 2
    MaxCalls = 3
    MaxPending = 2
    MaxRuns = 2
    MaxMishaps = 1
INVARIANTS
    TypeOK
    OneOpenRun
    RepeatsFindTheRun
    SeededOnce
PROPERTIES
    NobodyIsStranded
CHECK_DEADLOCK FALSE
