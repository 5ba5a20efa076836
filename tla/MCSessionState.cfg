SPECIFICATION Spec
CONSTANTS
    e1 = e1
    e2 = e2
    c1 = c1
    c2 = c2
    i1 = i1
    i2 = i2
    Engines = {e1, e2}
    Callers = {c1, c2}
    Owner <- OneEach
    Incarnations = {i1, i2}
    Operations = {"load", "update", "prompt", "continue", "prepared_continue", "append", "replace"}
    MaxRev = 3
    MaxSeq = 2
    MaxMessages = 3
    MaxTries = 2
    MaxLosses = 0
    Missing = Missing
    Conflict = Conflict
    None = None
SYMMETRY EngineSymmetry
INVARIANTS
    UniqueTurns
    BeliefsAreDurable
PROPERTIES
    NoLostUpdate
    CommitsTouchTheirOwn
    ImplementsStore
