SPECIFICATION Spec
CONSTANTS
    Client = {c1}
    MaxAlerts = 2
    Kind <- MCKind
    MaxBoots = 1
    MaxFaults = 1
INVARIANT AlertsPersisted
CHECK_DEADLOCK FALSE
