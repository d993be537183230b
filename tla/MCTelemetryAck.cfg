SPECIFICATION FairSpec
CONSTANTS
    MaxShots = 2
    MaxStreams = 2
    MaxAgents = 1
    MaxServers = 1
    MaxFaults = 1
PROPERTIES
    AckMeansPersisted
CHECK_DEADLOCK FALSE
