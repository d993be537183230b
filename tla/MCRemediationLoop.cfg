SPECIFICATION Spec
CONSTANTS
    Procs = {p1}
    Reqs = {q1, q2}
    Signals = {s1}
    Collectors = {c1}
    Stored = {i1}
    StoredSteps <- MCSteps
    Asset <- MCAsset
    Keys = {k1, k2}
    Requests <- MCRequests
    Mode = "approval_only"
    MaxTime = 3
    MaxFaults = 1
    Nil = Nil
    p1 = p1
    q1 = q1
    q2 = q2
    s1 = s1
    i1 = i1
    c1 = c1
    k1 = k1
    k2 = k2
INVARIANTS
    InSync
    OneRunPerPlan
PROPERTIES
    EvidenceKept
CHECK_DEADLOCK FALSE
