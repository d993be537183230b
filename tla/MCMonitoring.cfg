SPECIFICATION FairSpec
CONSTANTS
    Procs = {p1, p2}
    Rules <- MCOneRule
    Consecutive = 2
    Recovery = 2
    Savers = {x1}
    Incidents = {i1, i2}
    MaxReports = 4
    MaxSaves = 1
    MaxFaults = 1
    Nil = Nil
    p1 = p1
    p2 = p2
    x1 = x1
    k1 = k1
    i1 = i1
    i2 = i2
INVARIANTS
    OneActive
PROPERTIES
    AlertIsEarned
    RecoveryIsEarned
    AlarmRaised
    CalmRestored
CHECK_DEADLOCK FALSE
