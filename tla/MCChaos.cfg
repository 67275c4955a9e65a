SPECIFICATION Spec
CONSTANTS
    Broker = {1, 2, 3}
    MaxFailovers = 2
    MaxMoves = 1
    MaxFailed = 2
    TABLES <- LakeTables
    Sink = "processed_logs"
    MaxAppends = 3
    MaxRuns = 2
    MaxFailures = 1
    MaxFaults = 2
    MaxLapses = 3
INVARIANTS
    FailoverVerdict
    InitOutcome
    DeltaVerdict
    RunnerVerdict
PROPERTIES
    EndsWell
CHECK_DEADLOCK FALSE
