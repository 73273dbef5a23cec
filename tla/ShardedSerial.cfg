SPECIFICATION FairSpec
CONSTANTS
    Clients = {c1}
    MaxInst = 9
    MaxShards = 3
    InitMembers = 2
    NumConfig = 2
    NumRouters = 1
    MaxNew = 4
INVARIANTS
    TypeOK
    OneTopologyChange
    RegisteredShardsIntact
    ServersRemain
    FailureStaysVisible
    BusyHasOwner
PROPERTIES
    ImplementsService
    ChangeEnds
CHECK_DEADLOCK FALSE
