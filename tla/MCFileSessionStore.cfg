SPECIFICATION Spec
CONSTANTS
    w1 = w1
    w2 = w2
    i1 = i1
    i2 = i2
    Workers = {w1, w2}
    Incarnations = {i1, i2}
    Operations = {"load", "save", "reset"}
    MaxRev = 3
    MaxFailures = 1
    MaxChildren = 1
    Missing = Missing
    Torn = Torn
    None = None
SYMMETRY Symmetric
INVARIANTS
    AcknowledgedSurvives
    LockOwned
PROPERTIES
    ImplementsStore
