CONSTANTS
  c1 = c1
  c2 = c2
  NULL = NULL
  Calls = {c1, c2}
  Generation <- MCGeneration
  MaxExpired = 1
  Faults = {"load", "lost", "garbled", "revoke", "api", "save", "retry", "open", "send", "init", "crash", "dies"}
SPECIFICATION Spec
CHECK_DEADLOCK FALSE
INVARIANTS
  SingleRenew
  RememberedNotOlder
  FailureExplained
PROPERTIES
  EveryCallEndsUnlessAbandoned
  ServerGoes
  ContractSafe
  ServerSpec
