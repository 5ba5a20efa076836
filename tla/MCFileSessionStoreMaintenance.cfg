SPECIFICATION Spec
CONSTANTS
    w1 = w1
    w2 = w2
    i1 = i1
    i2 = i2
    Workers = {w1, w2}
    Incarnations = {i1}
    Operations = {"create", "save_controlled", "migrate", "cleanup", "initial", "confirm", "recover", "load_controlled"}
    MaxRev = 2
    MaxFailures = 1
    MaxChildren = 0
    Missing = Missing
    Torn = Torn
    None = None
SYMMETRY Symmetric
INVARIANTS
    AcknowledgedSurvives
    OwnTemporary
    AnswersAreTrue
PROPERTIES
    ReplacesItsBase
