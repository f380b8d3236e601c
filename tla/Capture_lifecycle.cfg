SPECIFICATION Spec
CONSTANTS
  Call = {1, 2}
  NONE = NONE
  Kind = {"gst", "legacy", "voice", "desktop"}
  MaxToggles = 2
CHECK_DEADLOCK FALSE
INVARIANTS
  StopReaches
  MuteHonoured
PROPERTIES
  StoppedEnds
  OrphansEnd
  StopFrees
