SPECIFICATION PagesFairSpec
CONSTANTS
  MaxLink = 2
  MaxAttempt = 1
  MaxFault = 1
CHECK_DEADLOCK FALSE
INVARIANTS
  AnnouncedIsCurrent
PROPERTIES
  ClosedWhenUp
  AcceptedConnects
  NoPeerRecovers
