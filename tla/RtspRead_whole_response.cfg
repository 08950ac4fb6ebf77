CONSTANTS
  EncryptedLenMax = 4
  AuthtagLength = 1
  Bodies = {0, 3}
  MaxRequests = 2
SPECIFICATION ReadSpec
INVARIANT CallbackWhenAllRead
CHECK_DEADLOCK FALSE
