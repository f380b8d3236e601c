SPECIFICATION Spec
CONSTANTS
  Key = {enter, alpha, beta}
  Unmapped = {alpha, beta}
  Button = {left, right}
  Left = left
  Scratch = scratch
  NONE = NONE
  MaxEvents = 5
  MaxConsents = 2
SYMMETRY Interchangeable
CHECK_DEADLOCK FALSE
INVARIANTS
  
  WithdrawalHolds
