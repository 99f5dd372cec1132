SPECIFICATION Spec
CONSTANTS
    MaxSteps = 3
    MaxAttempts = 3
    TokenBudget = 12
    Trigger = 100
    Target = 50
    MinRecentUnits = 2
    Compactions <- NoCompaction
    Responses <- TurnsOfEachKind
    ResultSizes = {1}
    TraceMayFail = TRUE
CHECK_DEADLOCK FALSE
INVARIANTS
    TypeOK
    ConversationIsClosed
    ToolsRunOnce
    AnswersAreVerified
    RetriesStayInBudget
    EndsOnce
PROPERTIES
    NothingFollowsTheEnd
    RunEnds
