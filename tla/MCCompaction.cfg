SPECIFICATION Spec
CONSTANTS
    MaxSteps = 3
    MaxAttempts = 1
    TokenBudget = 100
    Trigger = 6
    Target = 5
    MinRecentUnits = 1
    Compactions <- BothPolicies
    Responses <- AdjacentCalls
    ResultSizes = {1, 3}
    TraceMayFail = FALSE
CHECK_DEADLOCK FALSE
INVARIANTS
    RequestIsView
    RequestIsWhole
    RequestFits
    WindowIsLargest
