SPECIFICATION Spec
CONSTANTS
  Peer = {a, b}
  Transfer = {1, 2}
  SizeOfFirst = 2
  SizeOfSecond = 0
  SizeOfThird = 0
  Size <- SizeOf
  NONE = NONE
  MaxAccepts = 2
  Faults = {"edit", "io", "disconnect"}
SYMMETRY Interchangeable
CHECK_DEADLOCK FALSE
INVARIANTS
  OneOfferPrevails
PROPERTIES
  CompletedMeansWhole
