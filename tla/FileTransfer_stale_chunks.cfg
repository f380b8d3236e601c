SPECIFICATION Spec
CONSTANTS
  Peer = {a, b}
  Transfer = {1, 2}
  SizeOfFirst = 2
  SizeOfSecond = 1
  SizeOfThird = 0
  Size <- SizeOf
  NONE = NONE
  MaxAccepts = 1
  Faults = {"cancel", "reject"}
SYMMETRY Interchangeable
CHECK_DEADLOCK FALSE
INVARIANTS
  DeliveredIntact
  OfferHeldByBoth
PROPERTIES
  ImplementsContract
