CONSTANTS
  HasPassword = TRUE
  Wanted = {}
  Sessions = {s1, s2}
  NoSession = NoSession
  MaxCallbacks = 2
  MaxRequests = 2
  AddressSets = {{"v4", "v6"}}
  SessionRegistered = FALSE
SPECIFICATION Spec
INVARIANT RetryFallsBackToV4
CHECK_DEADLOCK FALSE
SYMMETRY Addresses
