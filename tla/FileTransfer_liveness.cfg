SPECIFICATION FairSpec
CONSTANTS
  Peer = {a, b}
  Transfer = {1, 2}
  SizeOfFirst = 1
  SizeOfSecond = 1
  SizeOfThird = 0
  Size <- SizeOf
  NONE = NONE
  MaxAccepts = 1
  Faults = {"timeout", "cancel", "disconnect"}
CHECK_DEADLOCK FALSE
INVARIANTS
  StatusFollowsSession
PROPERTIES
  SessionsEnd
  PipelinesEnd
