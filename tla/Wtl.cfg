CONSTANTS
  c1 = c1
  c2 = c2
  NULL = NULL
  Calls = {c1, c2}
  Own = {c1}
  SLIDER_MAX = 2
  Generation <- MCGeneration
  MaxExpired = 1
  Faults = {"revoke", "init", "dies"}
SPECIFICATION MainDlgSpec
CHECK_DEADLOCK FALSE
INVARIANTS
  MainDlgTypeOK
  StressFollowsSlider
PROPERTIES
  StressStartsCalls
  OthersEndUnlessClosed
