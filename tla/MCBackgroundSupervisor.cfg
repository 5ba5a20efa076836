CONSTANTS
  Ids = {s1, s2}
  Slots = {k1, k2}
  Rescue = Rescue
  None = None
  Outcomes <- Observed
SPECIFICATION FairSpec
INVARIANTS HistoryIsTrue SlotsAccounted
PROPERTY ShutdownStopsProcesses
CHECK_DEADLOCK FALSE
