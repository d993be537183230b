SPECIFICATION Spec
CONSTANTS
    p1 = p1
    p2 = p2
    k1 = k1
    k2 = k2
    Procs = {p1, p2}
    Manifests <- MCManifests
    Nil = Nil
    Calls = {k1, k2}
    Payloads <- MCPayloads
    Allowed <- MCAllowed
    First = 0
SYMMETRY Symmetry
INVARIANTS
    StaysReachable
    NoLeak
    LastWordStands
PROPERTY HealthIsOwn
