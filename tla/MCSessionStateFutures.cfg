SPECIFICATION Spec
CONSTANTS
    e1 = e1
    e2 = e2
    c1 = c1
    c2 = c2
    i1 = i1
    i2 = i2
    Engines = {e1}
    Callers = {c1, c2}
    Owner <- BothFirst
    Incarnations = {i1}
    Operations = {"check", "load", "load_at", "update", "prompt", "prepared"}
    MaxRev = 3
    MaxSeq = 2
    MaxMessages = 3
    MaxTries = 2
    MaxLosses = 1
    Missing = Missing
    Conflict = Conflict
    None = None
INVARIANTS
    LeaseExclusive
PROPERTIES
    CanonicalMonotone
