SPECIFICATION FairSpec
CONSTANTS
    i1 = i1
    i2 = i2
    a1 = a1
    a2 = a2
    s1 = s1
    o1 = o1
    Items = {i1}
    Tests = {i1}
    Agents = {a1, a2}
    Reclaimers = {s1, o1}
    Loops = {o1}
    None = None
    MaxAttempts = 2
    MaxFaults = 1
    KeepaliveMayLapse = TRUE
    LocalEnv = TRUE
INVARIANTS
    TypeOK
    ExclusiveExecution
PROPERTIES
    KeepsThePromise
    AbandonedIsRequeued
    EveryItemSettles
