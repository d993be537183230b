SPECIFICATION Spec
CONSTANTS
    c1 = c1
    c2 = c2
    i1 = i1
    i2 = i2
    i3 = i3
    g1 = g1
    g2 = g2
    Nil = Nil
    Callers = {c1, c2}
    Ids = {i1, i2, i3}
    Groups = {g1, g2}
    MaxTime = 2
    MaxChanges = 3
    PageSizes = {1, 2}
    ChangeWindow = 1
    MaxEvidence = 2
SYMMETRY Symmetry
INVARIANTS
    SameEntity
    SameLookup
    
CHECK_DEADLOCK FALSE
