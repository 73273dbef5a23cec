SPECIFICATION Spec
CONSTANTS
    Resources = {"stack", "trust"}
    Kind <- MCKind
    Flaky = {"stack"}
    Options <- RunOptions
    HideErrors = TRUE
    MaxRuns = 1
INVARIANTS
    CompleteInventoryOnly
CHECK_DEADLOCK FALSE
