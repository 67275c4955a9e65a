SPECIFICATION ServingSpec
CONSTANTS
    Batches <- TableBatches
    Timed <- TableTimed
    Unsendable <- TableUnsendable
    MaxStarts = 2
    MaxImports = 1
    MaxFaults = 2
    Component = {"RAS", "APP"}
    Severity = {"FATAL", "INFO"}
    Lower <- LowerCase
    Today = 2
    MaxMetrics = 3
    MaxAlerts = 3
    MaxHealth = 1
    MaxCount = 2
    Heartbeat = 2
    Patience = 3
    FeedLimit = 2
    MaxBroadcasts = 2
    MaxLosses = 3
INVARIANTS
    BatchesStored
    TimedOnce
    ImportReportsStored
    SummaryCountsEveryRow
    RecentIsNewest
    OneSoundSocket
PROPERTIES
    PageLiveAgain
CHECK_DEADLOCK FALSE
