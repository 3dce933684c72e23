SPECIFICATION GroupSpec
CONSTANTS
    MaxMsgs = 2
    Poison = {}
    Workers = {w1}
    Reclaimers = {r}
    ReadCount = 10
    RecoverCount = 100
    ReclaimCount = 100
    MaxDeliveries = 4
    MaxFaults = 0
    MaxCrashes = 0
    NoTask = NoTask
INVARIANTS ExclusiveHandling
