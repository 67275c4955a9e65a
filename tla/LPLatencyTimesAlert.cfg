SPECIFICATION ProbeSpec
CONSTANTS
    MaxLapses = 0
CHECK_DEADLOCK FALSE
INVARIANTS
    LatencyTimesAlert
