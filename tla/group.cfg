SPECIFICATION FairGroupSpec
CONSTANTS
    MaxMsgs = 2
    Poison = {1}
    Workers = {w1, w2}
    Reclaimers = {r}
    ReadCount = 2
    RecoverCount = 3
    ReclaimCount = 1
    MaxDeliveries = 2
    MaxFaults = 1
    MaxCrashes = 1
    NoTask = NoTask
INVARIANTS GroupTypeOK SettledForAReason PoisonReachesDlq
PROPERTIES SettledForGood EverythingSettles RecoveryEnds
