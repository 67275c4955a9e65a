SPECIFICATION FairSpec
CONSTANTS
    Client = {c1}
    MaxAlerts = 2
    Kind <- MCKind
    MaxBoots = 2
    MaxFaults = 1
PROPERTIES
    EveryAlertEnds
    DeadConnectionsRemoved
    ShutdownEnds
CHECK_DEADLOCK FALSE
