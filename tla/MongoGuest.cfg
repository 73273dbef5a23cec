SPECIFICATION Spec
CONSTANTS
    OptionLists <- Options
    Memories = {512}
    Types = {"member", "query_router"}
    HostSets <- Hosts
    Spacing = 1
    Expiry = 1
    MaxApplies = 1
    MaxCrashes = 1
INVARIANTS
    UserOptionsWin
    DaemonAccepts
    AppliedIsActive
    RouterConverted
    NotAdvertisedEarly
    HeartbeatKept
PROPERTIES
    CallsEnd
