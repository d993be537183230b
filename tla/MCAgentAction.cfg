SPECIFICATION FairSpec
CONSTANTS
    Reqs = {r1, r2, r3}
    Tasks <- MCTasks
    Deliveries <- MCDeliveries
    r1 = r1
    r2 = r2
    r3 = r3
    Keys = {k1, k2}
    Nonces = {n1, n2, n3}
    Bodies = {b1, b2}
    Mode = "approval_only"
    MaxTime = 1
    MaxRestarts = 1
    Nil = Nil
    k1 = k1
    k2 = k2
    n1 = n1
    n2 = n2
    n3 = n3
    b1 = b1
    b2 = b2
INVARIANTS
    AtMostOneRun
    SameAnswer
    SuccessIsReal
    NonceServesOneKey
PROPERTIES
    EveryoneAnswered
    PromiseKept
CHECK_DEADLOCK FALSE
