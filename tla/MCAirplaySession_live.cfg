CONSTANTS
  HasPassword = TRUE
  Wanted = {"SEND_TEXT"}
  Sessions = {s1}
  NoSession = NoSession
  MaxCallbacks = 2
  MaxRequests = 2
  AddressSets = {{"v4"}}
  SessionRegistered = FALSE
SPECIFICATION FairSpec
PROPERTY CallbackMade
CHECK_DEADLOCK FALSE
