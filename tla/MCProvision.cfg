SPECIFICATION Spec
CONSTANTS
    i1 = i1
    i2 = i2
    i3 = i3
    i4 = i4
    Ids <- FourIds
    User = user
    None = none
    Wants <- AllWays
    FaultKinds <- AllFaults
    MaxFaults = 1
    MaxEdits = 1
INVARIANTS TypeOK  LeakBound CreatingHasCluster NetworkKnown ClusterHome
INVARIANTS UserNetworkKept NothingRecorded NothingLeft CleanupInOrder
PROPERTIES MadeOnce RecordKept PhaseForward 
CHECK_DEADLOCK FALSE
