SPECIFICATION Spec
CONSTANTS
    Clients = {c1}
    MaxInst = 5
    MaxNew = 5
INVARIANTS
    MembersRetained
CHECK_DEADLOCK FALSE
