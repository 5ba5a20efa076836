CONSTANTS
  Askers = {a1, a2}
  l1 = l1
  l2 = l2
  o1 = o1
  Leases = {l1, l2}
  Owner <- OwnerOf
  Answers = {yes, no}
  None = None
  Sizes = {1, 2}
  MaxPrincipals = 2
  MaxPending = 2
  PayloadBytes = 3
  ResponseBytes = 2
SPECIFICATION FairSpec
INVARIANTS ChargesExact NoLostWakeup
PROPERTIES ImplementsExchange PromptsResolve
CHECK_DEADLOCK FALSE
