SPECIFICATION FairSpec
CONSTANTS
  MaxFiles = 3
  Incoming = Incoming
  NONE = NONE
  MaxIncoming = 1
  MaxPressed = 2
CHECK_DEADLOCK FALSE
INVARIANTS
  OneWorker
PROPERTIES
  TurnEnds
