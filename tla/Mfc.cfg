CONSTANTS
  c1 = c1
  c2 = c2
  c3 = c3
  NULL = NULL
  Calls = {c1, c2, c3}
  Generation <- MCGeneration
  MaxExpired = 2
  Faults = {}
SPECIFICATION Spec
SYMMETRY Symmetry
INVARIANTS
  TypeOK
  RefreshTokenUnspent
  TransparentRenew
PROPERTIES
  ClosesWhenDone
  ServerSpec
