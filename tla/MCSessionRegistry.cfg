SPECIFICATION Spec
CONSTANTS
    Callers = {c1, c2, c3}
    Addresses = {a1, a2, a3}
    Incarnations = {i1, i2}
    Engine = Engine
    None = None
SYMMETRY Symmetric
INVARIANTS
    OneCanonicalState
    NoStaleEntry

    
CHECK_DEADLOCK FALSE
