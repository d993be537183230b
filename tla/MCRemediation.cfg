SPECIFICATION Spec
CONSTANTS
    Procs = {p1, p2}
    Reqs = {q1, q2}
    Signals = {}
    Collectors = {}
    Stored = {i1, i2}
    StoredSteps <- MCStoredSteps
    Asset <- MCAsset
    Keys = {k1, k2}
    Requests <- MCRequests
    Mode = "approval_only"
    MaxTime = 0
    MaxFaults = 2
    Nil = Nil
    p1 = p1
    p2 = p2
    q1 = q1
    q2 = q2
    i1 = i1
    i2 = i2
    k1 = k1
    k2 = k2
SYMMETRY MCSymmetry
INVARIANTS
    NothingUnapproved
    OneExecutionPerKey
    RepliesStand
    SuccessIsEarned
    RollbackIsComplete
PROPERTIES
    LedgerKept
CHECK_DEADLOCK FALSE
