SPECIFICATION Spec
CONSTANTS
    Clients = {c1}
    MaxInst = 9
    MaxShards = 3
    InitMembers = 2
    NumConfig = 2
    NumRouters = 1
    MaxNew = 2
INVARIANT GrownShardsRegistered
CHECK_DEADLOCK FALSE
