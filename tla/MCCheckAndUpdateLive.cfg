SPECIFICATION FairSpec
CONSTANTS
    a = a
    b = b
    i1 = i1
    i2 = i2
    i3 = i3
    i4 = i4
    small = small
    large = large
    None = none
    Names <- TwoNames
    Ids <- FourIds
    Versions <- TwoVersions
    Flavors <- TwoFlavors
    Requests <- TwoPools
    FaultKinds <- AllFaultKinds
    MaxFaults = 1
    EditKinds <- AllEditKinds
    MaxEdits = 1
PROPERTIES Settles
CHECK_DEADLOCK FALSE
