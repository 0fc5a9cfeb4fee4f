SPECIFICATION FairSpec
CONSTANTS
    a = a
    b = b
    ns1 = ns1
    ns2 = ns2
    n1 = n1
    n2 = n2
    r1 = r1
    r2 = r2
    s1 = s1
    s2 = s2
    i1 = i1
    i2 = i2
    None = none
    Configs <- TwoConfigs
    Namespaces <- TwoNamespaces
    Names <- TwoNames
    Regions <- TwoRegions
    Secrets <- TwoSecrets
    Early <- First
    Ids <- TwoIds
    Wants <- AllPairs
    Threads = 2
    MaxCrashes = 1
    EditKinds <- AllEditKinds
    Edited <- First
    MaxEdits = 1
INVARIANTS TypeOK HomeRegion  NilNeedsEdit
PROPERTIES  Settles
CHECK_DEADLOCK FALSE
