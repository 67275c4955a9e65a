SPECIFICATION Spec
CONSTANTS
    Broker = {"kafka-1", "kafka-2"}
    Bootstrap = "kafka-1"
    Writer = {"fluentd-agent"}
    Server = {"fastapi-server"}
    Needs <- ServerNeeds
    Restarted = {"fluentd-agent", "fastapi-server"}
    Services <- ServicesAsked
    Retries = 2
    MaxFaults = 2
    MaxFits = 4
    Row = {r1, r2, r3, r4}
    Cluster = {0, 1, 2}
INVARIANTS
    StartupTruthful
    ModelsMatch
    EvaluationSound
PROPERTIES
    StartedComesUp
CHECK_DEADLOCK FALSE
