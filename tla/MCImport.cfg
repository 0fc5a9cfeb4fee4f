SPECIFICATION FairSpec
CONSTANTS
    None = none
    CertLists <- Orders
    MaxObjects = 2
    MaxFaults = 1
    MaxEdits = 1
INVARIANTS TypeOK AccessReady 
PROPERTIES RightAddress Settles
CHECK_DEADLOCK FALSE
