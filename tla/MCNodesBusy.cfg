SPECIFICATION Spec
CONSTANTS
    i1 = i1
    i2 = i2
    i3 = i3
    i4 = i4
    Ids <- ThreeIds
    User = user
    None = none
    Wants <- OwnNetwork
    FaultKinds <- FailingCalls
    MaxFaults = 1
    MaxEdits = 0
PROPERTY NodesSettled
CHECK_DEADLOCK FALSE
