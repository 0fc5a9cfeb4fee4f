SPECIFICATION FairSpec
CONSTANTS
    i1 = i1
    i2 = i2
    i3 = i3
    i4 = i4
    Ids <- ThreeIds
    User = user
    None = none
    Wants <- AllWays
    FaultKinds <- AllFaults
    MaxFaults = 1
    MaxEdits = 0
PROPERTIES CreationSettles RemovalSettles KeepsLedger
CHECK_DEADLOCK FALSE
