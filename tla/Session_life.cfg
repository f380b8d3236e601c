SPECIFICATION FairSpec
CONSTANTS
  Peer = {a, b}
  PongTimeout = 2
  RestartTimeout = 1
  MaxOutages = 1
  MaxSame = 1
CHECK_DEADLOCK FALSE
INVARIANTS
  LiveSessionStays
PROPERTIES
  PatientTeardown
  EndsTogether
