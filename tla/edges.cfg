SPECIFICATION EdgesSpec
CONSTANTS
    Minutes = {1, 2, 3}
    Values = {1, 2}
    CsvFiles <- MCCsvFiles
    MaxBars = 3
    MaxCuts = 1
    Texts = {a, b}
    Empty = Empty
    MaxPosts = 3
    MaxEdits = 1
    MaxStops = 2
    MaxSignals = 2
    PerMinute = 1
    MaxTime = 2
    MaxBreaks = 1
    a = a
    b = b
    consumer = consumer
    beat = beat
    gazp = gazp
    sber = sber
    other = other
    Whitelist <- MCWhitelist
    Off = other
    Inputs <- MCInputs
    MaxEvents = 2
    MaxMishaps = 2
    Tasks = {consumer, beat}
    BackingOff = {consumer}
    Pids = {1, 2, 3, 4, 5}
    MaxDelay = 2
    MaxManual = 1
    MaxLosses = 1
INVARIANTS
    EdgesTypeOK FrameIsCurrent InputsAreAccountedFor TunnelsDoNotPileUp LivesEndInOrder
PROPERTY
    WorkEnds
CHECK_DEADLOCK FALSE
