CONSTANTS
  c1 = c1
  c2 = c2
  NULL = NULL
  Calls = {c1, c2}
  Generation <- MCGeneration
  MaxExpired = 1
  Faults = {}
SPECIFICATION Spec
CHECK_DEADLOCK FALSE
INVARIANTS
  RenewerHasRequest
