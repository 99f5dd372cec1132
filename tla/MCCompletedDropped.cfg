SPECIFICATION Spec
CONSTANTS
    None = None
    Indexes = {0, 1, 2}
    Outputs <- MCOutputs
CHECK_DEADLOCK FALSE
INVARIANT OnlyIncompleteIsRetried
