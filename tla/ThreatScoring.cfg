CONSTANTS
  NoDevice = NoDevice
  Devices <- MCDevices
  Overrides <- MCOverrides
  CveKeys = {"m"}
  Thresholds <- MCThresholds
  PatternAnalysis = TRUE
  MaxScore = 100
  Tight = 1  Window = 6  MaxAge = 8
  MaxTime = 9  MaxAnalyses = 5
SPECIFICATION Spec
CHECK_DEADLOCK FALSE
INVARIANTS TypeOK DecisionMatchesScore MoreIsNoSafer NothingNeededForgotten

