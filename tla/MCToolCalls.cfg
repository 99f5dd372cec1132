SPECIFICATION Spec
CONSTANTS
    MaxCancels = 2
    Threshold = 2
    Policies <- MCPolicies
    VerifierLists <- MCVerifierLists
CHECK_DEADLOCK FALSE
INVARIANTS
    TypeOK
    CompletedLeavesNothing
    WarningIsStreak
    CompletedIsVerified
PROPERTIES
    WritersAreKnown
    InterruptedIsRemoved
    CommandsReturn
