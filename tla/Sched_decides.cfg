SPECIFICATION Spec
CONSTANTS
    code = code
    tests = tests
    review = review
    Items = {code, tests, review}
    Edges <- MCEdges
    Critical = {code, tests, review}
    Reviews = {review}
    Validations = {tests, review}
    Rules = {"none", "retry", "operator", "budget", "budget_text"}
    MaxAttempts = 2
    MaxStalls = 1
    MaxResumes = 1
    MaxFaults = 1
    NeverFail = FALSE
    SpendLimit = TRUE
INVARIANTS
    TypeOK
    LossHasItsCause
    SupersededWasValidated
PROPERTIES
    CalmCompletionIsRight
CHECK_DEADLOCK FALSE
