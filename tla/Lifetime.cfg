CONSTANTS
  c1 = c1
  c2 = c2
  c3 = c3
  o1 = o1
  o2 = o2
  o3 = o3
  NULL = NULL
  Calls = {c1, c2, c3}
  Objects = {o1, o2, o3}
  Generation = {1, 2}
  Faults = {"load", "save", "dies"}
  SerialActivation = TRUE
SPECIFICATION Spec
SYMMETRY Symmetry
INVARIANTS
  TypeOK
  AtMostOneInstance
  RegisteredWhileHeld
  FileKeepsUp
PROPERTIES
  ServerSpec
