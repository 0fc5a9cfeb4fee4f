SPECIFICATION FairSpec
CONSTANTS
    a = a
    b = b
    i1 = i1
    i2 = i2
    i3 = i3
    i4 = i4
    small = small
    large = large
    None = none
    Names <- TwoNames
    Ids <- ThreeIds
    Versions <- OneVersion
    Flavors <- OneFlavor
    Requests <- OnePool
    FaultKinds <- NoFaults
    MaxFaults = 0
    EditKinds <- Console
    MaxEdits = 1
PROPERTIES DeclaredPoolsBack
CHECK_DEADLOCK FALSE
