SPECIFICATION Spec
CONSTANTS
    Client = {c1, c2}
    MaxAlerts = 3
    Kind <- MCKind
    MaxBoots = 2
    MaxFaults = 1
INVARIANTS
    TypeOK
    RegistryExact
    AtMostOneLostPerBoot
    RedeliveredOnlyUncommitted
    ShutdownOrder
PROPERTY ImplementsFeed
SYMMETRY Symmetric
CHECK_DEADLOCK FALSE
