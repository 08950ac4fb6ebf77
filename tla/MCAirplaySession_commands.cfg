CONSTANTS
  HasPassword = TRUE
  Wanted = {"SEND_TEXT"}
  Sessions = {s1}
  NoSession = NoSession
  MaxCallbacks = 3
  MaxRequests = 3
  AddressSets = {{"v4"}}
  SessionRegistered = TRUE
SPECIFICATION FairSpec
INVARIANTS LatestCallbackOwed EstablishedHasServer
CHECK_DEADLOCK FALSE
PROPERTY StopEnds
