SPECIFICATION FairSpec
CONSTANTS
    i1 = i1
    i2 = i2
    i3 = i3
    i4 = i4
    Ids <- ThreeIds
    User = user
    None = none
    Wants <- UserVpc
    FaultKinds <- NoFaults
    MaxFaults = 0
    MaxEdits = 0
PROPERTY RemovalEnds
CHECK_DEADLOCK FALSE
