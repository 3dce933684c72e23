SPECIFICATION FairSpec
CONSTANTS
    Tickers = {GAZP}
    Reject = Reject
    Results = {1}
    MaxSignals = 2
    MaxExpiries = 0
    MaxFaults = 1
    MaxCrashes = 1
    MaxOpen = 1
    KillLimit = 1
INVARIANTS
    TypeOK
    AnswersAreExplained
PROPERTIES
    PredictionsSettle
    PositionsEnd
