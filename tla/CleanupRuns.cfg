SPECIFICATION Spec
CONSTANTS
    Resources = {"stack", "server1", "capsule", "unknown"}
    Kind <- MCKind
    Flaky = {"stack"}
    Options <- RunOptions
    HideErrors = FALSE
    MaxRuns = 2
INVARIANTS
    TypeOK
    CompleteInventoryOnly
    CleanExit
    VerifiedStaysEmpty
CHECK_DEADLOCK FALSE
