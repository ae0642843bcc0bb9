SPECIFICATION FairSpec
CONSTANTS
    code = code
    tests = tests
    review = review
    Items = {code, tests, review}
    Edges <- MCEdges
    Critical = {code, tests, review}
    Reviews = {review}
    Validations = {tests, review}
    Rules = {"none", "retry"}
    MaxAttempts = 2
    MaxStalls = 1
    MaxResumes = 1
    MaxFaults = 0
    NeverFail = FALSE
    SpendLimit = FALSE
PROPERTIES
    RunConcludes
CHECK_DEADLOCK FALSE
