SPECIFICATION Spec
CONSTANTS
    i1 = i1
    i2 = i2
    i3 = i3
    i4 = i4
    Ids <- ThreeIds
    User = user
    None = none
    Wants <- Everything
    FaultKinds <- NoFaults
    MaxFaults = 0
    MaxEdits = 1
INVARIANT ClusterEIPOnce
CHECK_DEADLOCK FALSE
