SPECIFICATION FairSpec
CONSTANTS
    MaxMsgs = 2
    Poison = {1}
    Workers = {w1}
    Reclaimers = {r}
    ReadCount = 2
    RecoverCount = 2
    ReclaimCount = 2
    MaxDeliveries = 4
    MaxFaults = 1
    MaxCrashes = 1
    NoTask = NoTask
    MaxExpiries = 1
INVARIANTS
    TypeOK
    AtMostOncePerClaim
    LossIsExplained
PROPERTIES
    ImplementsGroup
    EveryEntrySettles
