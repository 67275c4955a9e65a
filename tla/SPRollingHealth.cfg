SPECIFICATION Spec
CONSTANTS
    MaxLog = 4
    MaxOffsetsPerTrigger = 2
    Parsed = {1, 2, 3, 4}
    Undated = {}
    Component <- MCComponent
    CompOf <- MCCompOf
    Label <- MCLabel
    Flags <- MCFlags
    MaxCrashes = 0
    MaxFaults = 1
INVARIANT RollingHealth
CHECK_DEADLOCK FALSE
