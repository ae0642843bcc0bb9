SPECIFICATION Spec
CONSTANTS
    q1 = q1
    q2 = q2
    Runs <- MCRuns
    Requests <- Two
    Limits = {1, 2}
    MaxStarts = 2
    MaxMishaps = 1
INVARIANTS
    TypeOK
    NothingLeaks
    ReadyIsServed
    SlotsHold
SYMMETRY OneOfTwo
CHECK_DEADLOCK FALSE
