CONSTANTS
  HasPassword = FALSE
  Wanted = {}
  Sessions = {s1, s2}
  NoSession = NoSession
  MaxCallbacks = 2
  MaxRequests = 2
  AddressSets = {{"v4", "v6"}, {"v6"}}
  SessionRegistered = FALSE
SPECIFICATION Spec
INVARIANTS TypeOK RequestsCounted CallbackOwed PlaybackCiphered
CHECK_DEADLOCK FALSE
SYMMETRY Addresses
