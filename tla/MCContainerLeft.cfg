SPECIFICATION Spec
CONSTANTS
    MaxCancels = 1
    Threshold = 2
    Policies <- ShellOnly
    VerifierLists <- NoVerifier
CHECK_DEADLOCK FALSE
PROPERTY ContainerIsRemoved
