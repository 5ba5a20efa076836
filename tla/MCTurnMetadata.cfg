SPECIFICATION FairEditSpec
CONSTANTS
    e1 = e1
    c1 = c1
    c2 = c2
    Engines = {e1}
    Callers = {c1, c2}
    Owner <- OfOne
    Editors = {x1}
    Home <- AtOne
    Values = {c1}
    Incarnations = {i1}
    Operations = {"update", "prompt", "append"}
    MaxRev = 3
    MaxSeq = 2
    MaxMessages = 2
    MaxTries = 2
    MaxLosses = 1
    Missing = Missing
    Conflict = Conflict
    None = None
PROPERTIES
    
    EditsKeepTheRest
    OperationsFinish
