SPECIFICATION DaemonSpec
CONSTANTS
  Paths <- MCPaths
  Stem <- MCStem
  Rows = {1, 2}
  Inodes = {1, 2, 3}
  Contents = {1, 2, 3}
  MaxUser = 2
  MaxRuns = 1
  Daemons = {1, 2}
  Commands = {11}
  MaxAttempts = 5
  Causes = {"a", "b", "c"}
  Window = 2
  Repeat = 4
  StartupDelay = 1
  OfflineGrace = 2
  RefusalWindow = 2
  CausesPerWindow = 2
  RefusalsToAlert = 2
  MaxTime = 9
  MaxFailures = 6
  MaxEvents = 4
  MaxTasks = 3
  Pool = 2
  DropAbove = 0
  CutAbove = 1
  Delay = 1
  MaxWait = 2
  MaxCuts = 1
INVARIANTS DaemonTypeOK  ScreenIsRight
PROPERTIES OneDaemon OutagesAreTold
\* The bounds end every part.
CHECK_DEADLOCK FALSE
