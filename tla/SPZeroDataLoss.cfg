SPECIFICATION Spec
CONSTANTS
    MaxLog = 3
    MaxOffsetsPerTrigger = 2
    Parsed = {1, 2, 3}
    Undated = {}
    Component <- MCComponent
    CompOf <- MCCompOf
    Label <- MCLabel
    Flags <- MCFlags
    MaxCrashes = 0
    MaxFaults = 1
INVARIANT ZeroDataLoss
CHECK_DEADLOCK FALSE
