SPECIFICATION Spec
CONSTANTS
    MaxSteps = 3
    MaxAttempts = 1
    TokenBudget = 100
    Trigger = 6
    Target = 5
    MinRecentUnits = 1
    Compactions <- WindowOnly
    Responses <- ScatteredCalls
    ResultSizes = {1}
    TraceMayFail = FALSE
CHECK_DEADLOCK FALSE
INVARIANTS
    RequestIsWhole
