SPECIFICATION FairSpec
CONSTANTS
    code = code
    tests = tests
    review = review
    Items = {code, tests, review}
    Edges <- MCEdges
    Critical = {code, tests, review}
    Reviews = {review}
    Validations = {tests, review}
    Rules = {"none", "operator", "budget_text"}
    MaxAttempts = 1
    MaxStalls = 1
    MaxResumes = 1
    MaxFaults = 1
    NeverFail = TRUE
    SpendLimit = TRUE
PROPERTIES
    RunConcludes
CHECK_DEADLOCK FALSE
