CONSTANTS
  WindowSize = 5
  MinKeys = 3
  MaxRate = 3
  MinIntervals = 3
  CvSquared = 225
  Second = 2
  Cooldown = 2
  MaxTime = 6
  MaxKeys = 7
SPECIFICATION Spec
CHECK_DEADLOCK FALSE
INVARIANTS TypeOK IntervalsAlign BurstNoticed AlertsJustified
