SPECIFICATION VegetationSpec
CONSTANTS
  Plots = {1, 2}
  LastPass = 2
  IndexAt <- MCIndexAt
  Cloudless = {1, 2}
  Executions = {1, 2}
  OverlappingRuns = TRUE
INVARIANT NoCycleChokes
CHECK_DEADLOCK FALSE
