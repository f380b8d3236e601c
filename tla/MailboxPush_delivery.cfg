SPECIFICATION PushFairSpec
CONSTANTS
  Signal = {x, y}
  x = x
  y = y
  Retries <- RetriesOf
  Capacity = 1
  Slot = {f1}
CHECK_DEADLOCK FALSE
INVARIANTS
  DeliveredOnce
  RecoveredBySync
  OpenSocketMissesNothing
PROPERTY DropRecovers
