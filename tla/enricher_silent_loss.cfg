SPECIFICATION Spec
CONSTANTS
    MaxMsgs = 1
    Poison = {}
    Workers = {w1}
    Reclaimers = {r}
    ReadCount = 10
    RecoverCount = 100
    ReclaimCount = 100
    MaxDeliveries = 4
    MaxFaults = 0
    MaxCrashes = 0
    MaxExpiries = 0
    NoTask = NoTask
INVARIANTS NoSilentLoss
