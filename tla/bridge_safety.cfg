SPECIFICATION BridgeSpec
CONSTANTS
    Tickers = {GAZP, LKOH}
    Reject = Reject
    Results <- MCResults
    MaxSignals = 2
    MaxExpiries = 1
    MaxFaults = 1
    MaxCrashes = 1
SYMMETRY TickerSymmetry
INVARIANTS
    BridgeTypeOK
    OpenedOncePerClaim
    EventsMatch
    TrackedIsPersisted
    SlotsFollowPositions
PROPERTY
    ForgottenOnlyWhenBooked
