SPECIFICATION Spec
CONSTANTS
    MaxLog = 4
    MaxOffsetsPerTrigger = 2
    Parsed = {1, 2, 3}
    Undated = {3}
    Component <- MCComponent
    CompOf <- MCCompOf
    Label <- MCLabel
    Flags <- MCFlags
    MaxCrashes = 1
    MaxFaults = 1
INVARIANTS
    TypeOK
    RecordsAccountedFor
    DuplicatesOnlyFromReplay
    AlertsFollowDelta
    HealthBetween
    MetricsAgreeWithAlerts
    SavedModelsMatch
CHECK_DEADLOCK FALSE
