SPECIFICATION FairSpec
CONSTANTS
    Clients = {c1}
    MaxInst = 4
    MaxNew = 3
INVARIANTS
    MembersExist
    InstancesRetained
PROPERTIES
    ImplementsService
    ChangeEnds
CHECK_DEADLOCK FALSE
