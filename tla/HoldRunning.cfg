SPECIFICATION SupervisorSpec
CONSTANTS
  Files = {f1}
  MaxWorkers = 2
  MaxJobs = 2
  MaxCrashes = 2
  HoldsRunning = TRUE
  ReapsDraining = FALSE
  DiesSettling = TRUE
INVARIANT OneWorkerPerFile
CHECK_DEADLOCK FALSE
