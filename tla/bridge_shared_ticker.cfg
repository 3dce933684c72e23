SPECIFICATION BridgeSpec
CONSTANTS
    Tickers = {GAZP, LKOH}
    Reject = Reject
    Results <- MCResults
    MaxSignals = 2
    MaxExpiries = 0
    MaxFaults = 0
    MaxCrashes = 0
INVARIANT
    SlotsNameOpenPositions
