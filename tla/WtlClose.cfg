CONSTANTS
  c1 = c1
  c2 = c2
  NULL = NULL
  Calls = {c1, c2}
  Own = {c1}
  SLIDER_MAX = 1
  Generation <- MCGeneration
  MaxExpired = 1
  Faults = {}
SPECIFICATION MainDlgSpec
CHECK_DEADLOCK FALSE
INVARIANTS
  RefreshTokenUnspent
