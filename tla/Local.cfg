SPECIFICATION LocalSpec
CONSTANTS
  Paths = {a, b}
  ScopeLimit = 1
  Interval = TRUE
  MaxFaults = 1
  Files = {f1}
  MaxWorkers = 2
  MaxJobs = 2
  MaxCrashes = 2
  HoldsRunning = FALSE
  ReapsDraining = FALSE
  DiesSettling = TRUE
  MaxQueue = 2
  Retries = 1
  MaxMessages = 4
INVARIANTS LocalTypeOK ScansInTurn NothingForgotten FilesAreWorkedAlone
PROPERTIES NothingIsLeftLying NoAlertIsLost
\* A coordinator that has stopped stays so.
CHECK_DEADLOCK FALSE
