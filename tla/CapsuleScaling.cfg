SPECIFICATION FairSpec
CONSTANTS
    Nodes = {n1, n2}
    MaxCapsules = 2
INVARIANTS
    CapsulesTracked
    ActiveWasReady
    TrafficStopsFirst
PROPERTY ActionsEnd
CHECK_DEADLOCK FALSE
