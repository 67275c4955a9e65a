SPECIFICATION IngestionSpec
CONSTANTS
    Dataset <- MCDataset
    BatchSize = 2
    MaxFile = 4
    ChunkLimit = 2
    TotalLimit = 2
    FlushThreads = 2
    MaxCrashes = 2
    MaxFailures = 1
    MaxFaults = 1
INVARIANT DuplicatesOnlyAtRisk
PROPERTIES
    ImplementsHandoff
    FluentdVerdict
    LinesArrive
CHECK_DEADLOCK FALSE
