SPECIFICATION FairSpec
CONSTANTS
    Resources = {"cluster", "node", "router", "port1", "subnet", "network"}
    Kind <- MCKind
    Flaky = {}
    Options <- OrderOptions
    HideErrors = FALSE
    MaxRuns = 1
INVARIANTS
    OrderAvoidsConflicts
PROPERTY Finishes
CHECK_DEADLOCK FALSE
