SPECIFICATION ChecksSpec
CONSTANTS
    Scripts <- MCScripts
    Legacy = {"YNDX"}
    Modes = {"all", "tail", "xlsx"}
    MaxMinute = 2
    Window = 1
    ScanMax = 2
    MaxTrouble = 2
    Services = {rcv}
    Receiver = rcv
    MaxTime = 4
    Threshold = 1
    Grace = 1
    Repeat = 2
    StormWindow = 1
    StormSize = 2
    SpikeWindow = 2
    SpikeSize = 2
    MaxDead = 3
    MaxEvents = 2
    Callers = {c1, c2}
    ApiKeys = {1, 2}
    RetryAfters = {1}
    MaxRetries = 1
    Excursions <- MCExcursions
    RrThreshold = 2
    MinMfe = 3
    MinMae = 1
    TpTenths = 7
    SlTenths = 12
    TpFloor = 20
    SlFloor = 10
    Price = 20000
    LotSizes = {1, 10}
    Equities = {10000, 100000}
    RiskPermille = 5
    Leverage = 10
    Confidences = {0, 1}
    MinConfidence = 1
    PaperBars <- MCPaperBars
    SignalAt = 1
    HoldFor = 2
    StopAt = 2
    TargetAt = 2
    StaleAfter = 1
    MaxDrift = 1
    LastWall = 4
    MaxReloads = 1
    Stop = 2
    Target = 3
    Step = 1
    Horizon = 2
    PartialMinute = 1
    ExitBars <- MCExitBars
    LastMinute = 3
    Traded = {gazp, sber}
    NewsCount = 3
    LastNews = 3
    FillDelays = {0, 1}
    Durations = {1, 2}
    Pnls <- MCPnls
    CooldownTime = 2
    MaxPositions = 1
    KillPermille = 20
    DayLength = 2
    TrainLength = 6
    TestLength = 3
    Purge = 1
    LabelLength = 2
    LastRow = 16
    Streams = {raw}
    MaxEntries = 4
    NewsIds = {1, 2, 3}
    Concurrency = 2
    MaxTries = 2
    MaxTroubles = 2
    MaxKills = 1
    TradedMinutes = {1, 2, 3}
    MaxPrice = 3
    PageSize = 2
    MaxFaults = 1
    Posts <- MCPosts
    ChannelOrder <- MCChannelOrder
    ScrapeFrom = 2
    MaxScrapes = 3
    MaxCuts = 1
    Texts <- MCTexts
    Reanswered <- MCReanswered
    PageEntries = 2
    WindowFrom = 1
    WindowTo = 2
    MaxStreamed = 4
    KeptStreamed = 3
    Messages <- MCMessages
    TradeTimes = {2, 3, 5}
    Shares = {"tass"}
    C1Start = 2
    V1Start = 4
    V1End = 6
    MonthLen = 2
    MskAhead = 1
    C1Months = {1}
    V1Months = {2}
    AnchorWindow = 1
    Quota = 1
    PadSize = 1
    MaxArchive = 3
    Samples <- MCSamples
    LegacyCategory <- MCLegacy
    CategoryTarget <- MCTarget
    MaxAnswers = 2
    MaxAggregates = 1
    Named = {"a", "b"}
    Answers <- MCAnswers
    Histories <- MCHistories
    LastHalf = 6
    MaxNews = 2
    Back = 1
    Day = 2
    Ahead = 1
    MaxGap = 1
    Corpora <- MCCorpora
    Canonical <- MCCanonical
    Unpriced = {}
    TestFrom = 4
    TestDays = 2
    StepDays = 2
    TrainSpan = 4
    PurgeSpan = 1
    MinTrain = 1
    MinTest = 1
    MinClean = 1
    MaxRuns = 2
    Outputs <- MCOutputs
    MaxTrainings = 2
    Notionals = {6, 300}
    ExitReasons = {"sl", "tp"}
    LastDay = 1
    Equity = 5
    LoanStep = 100
    MaxSelected = 2
    LlmNames = {"GAZP", "YNDX", "YDEX", "NG", "SBERP"}
    Charts <- MCCharts
    MaxNamed = 2
    ReplayFiles <- MCReplayFiles
    ReplayTickers = {"a", "b"}
    Blacklist = {"b"}
    HistoryHours = 4
    SureEnough = 1
    Sources <- MCSources
    FromDate = 1
    ToDate = 2
    SampleSize = 2
    MaxSends = 2
    MaxRefusals = 2
INVARIANTS
    ChecksTypeOK CandlesAreFaithful AlertsAreRight FailuresAreSorted RulesAndTablesAgree
    TradesAreCountedAlike LoopsAreHonest OnlyUnreadIsLost ArchivesAreWhole
    DrawsFitTogether
PROPERTY
    KeysTakeTurns
CHECK_DEADLOCK FALSE
