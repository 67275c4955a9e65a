SPECIFICATION FairSpec
CONSTANTS
    MaxLog = 3
    MaxOffsetsPerTrigger = 2
    Parsed = {1, 2}
    Undated = {2}
    Component <- MCComponent
    CompOf <- MCCompOf
    Label <- MCLabel
    Flags <- MCFlags
    MaxCrashes = 1
    MaxFaults = 1
PROPERTIES
    EventuallyCommitted
    ImplementsBatches
CHECK_DEADLOCK FALSE
