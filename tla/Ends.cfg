CONSTANTS
  c1 = c1
  c2 = c2
  NULL = NULL
  Calls = {c1, c2}
  Generation <- MCGeneration
  MaxExpired = 2
  Faults = {"load", "lost", "revoke", "api", "save", "retry"}
SPECIFICATION Spec
INVARIANTS
  DeferredNotLost
PROPERTIES
  QuietTeardown
  ContractSpec
