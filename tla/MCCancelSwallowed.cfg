SPECIFICATION Spec
CONSTANTS
    MaxCancels = 2
    Threshold = 2
    Policies <- ShellOnly
    VerifierLists <- NoVerifier
CHECK_DEADLOCK FALSE
INVARIANT CancelIsHonoured
