SPECIFICATION FairSpec
CONSTANTS
  Height <- MCHeight
  DegradeAfter = 1
  UpgradeAfter = 2
  Host = {"soft", "gst"}
  Viewer = {"nv"}
  Fraction <- MCFraction
  Gop = 2
  OutCap = 1
  RawCap = 1
  Late = 1
  NetCap = 2
  MaxScene = 2
  MaxLosses = 1
  MaxReports = 3
  MaxErrors = 1
INVARIANTS
  KeyStartsEverySize
PROPERTIES
  UpgradeOnlyWhenClean
  SceneArrives
