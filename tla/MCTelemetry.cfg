SPECIFICATION FairSpec
CONSTANTS
    MaxShots = 4
    MaxStreams = 3
    MaxAgents = 2
    MaxServers = 2
    MaxFaults = 2
INVARIANTS
    AcceptedInOrder
    AdvanceIsEarned
PROPERTIES
    MetricsMoveForward
    SentIsSettled
CHECK_DEADLOCK FALSE
