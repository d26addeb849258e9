CONSTANTS
  c1 = c1
  c2 = c2
  c3 = c3
  NULL = NULL
  Calls = {c1, c2, c3}
  Generation = {1, 2}
  Faults = {"load", "save", "dies"}
SPECIFICATION TFSpec
SYMMETRY Symmetry
INVARIANTS
  TFTypeOK
  QueueOnlyWhileLocked
  DrainHoldsLock
  ActivationsConnected
  TokensIffRunning
