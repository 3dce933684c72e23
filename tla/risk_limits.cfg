SPECIFICATION Spec
CONSTANTS
    Tickers = {GAZP, LKOH, ROSN}
    Reject = Reject
    Results <- LossOrProfit
    MaxSignals = 3
    MaxExpiries = 0
    MaxFaults = 0
    MaxCrashes = 0
    MaxOpen = 1
    KillLimit = 1
SYMMETRY TickerSymmetry
INVARIANT
    OverrunBoundedByLag
PROPERTY
    ReachedLimitStops
