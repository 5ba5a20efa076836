CONSTANTS
  Hosts = {h1, h2}
  NoHost = NoHost
  MaxId = 4
  MaxRetained = 2
  Outcomes = {"exited", "dead"}
SPECIFICATION Spec
SYMMETRY HostSymmetry
INVARIANT Serviceable
PROPERTY ImplementsHistory
CHECK_DEADLOCK FALSE
