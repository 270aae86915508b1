SPECIFICATION SupervisorSpec
CONSTANTS
  Files = {f1}
  MaxWorkers = 2
  MaxJobs = 2
  MaxCrashes = 2
  HoldsRunning = FALSE
  ReapsDraining = FALSE
  DiesSettling = TRUE
PROPERTY RefusedFileIsFreed
CHECK_DEADLOCK FALSE
