CONSTANTS
  Runs <- MCRuns
  IdsOf <- MCIdsOf
  Loaders = {"preflight", "command"}
  MaxSeconds = 1
SPECIFICATION Spec
CHECK_DEADLOCK FALSE
INVARIANTS OwnVerdict NothingLeft ImageIsWhole
PROPERTY AnalysesEnd
