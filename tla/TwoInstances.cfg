CONSTANTS
  c1 = c1
  c2 = c2
  o1 = o1
  o2 = o2
  NULL = NULL
  Calls = {c1, c2}
  Objects = {o1, o2}
  Generation = {1, 2}
  Faults = {}
  SerialActivation = FALSE
SPECIFICATION Spec
CHECK_DEADLOCK FALSE
INVARIANTS
  AtMostOneInstance
