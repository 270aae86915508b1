SPECIFICATION ControlSpec
CONSTANTS
  Graphs = {1, 2}
  Unfinished = {3}
  Tabs = {t, u}
  MaxVersions = 3
  Using = {2}
  Libraries = {l}
  MaxSyncs = 4
  MaxSources = 2
  Flows = {"f", "g"}
  MaxRuns = 2
  MaxPublishes = 1
  ServerPaths <- MCServerPaths
  NodePaths <- MCNodePaths
  Layouts <- MCLayouts
  FilePath <- MCFile
  NodeTree <- MCTree
  MapsInUse <- MCMaps
  MaxChanges = 2
  MaxCuts = 1
  NodeIds = {1, 2}
  NodeNames = {"x", "y"}
  Calls = {1, 2, 3}
  Roots = {r1, r2}
  Contents = {"x", "y"}
  Requests = {1, 2}
  MaxEdits = 1
  Seedings <- MCSeedings
  MaxStarts = 2
  MaxSaves = 1
  DayMinutes = 3
  DestNames = {"a", "b"}
  Hosts = {"h", "k"}
  MaxRows = 2
  MaxHeaders = 2
  MaxFormEdits = 2
  MaxPuts = 2
  Plugins <- MCPlugins
  OpenFlows <- MCFlows
  SmallFlows <- MCSmallFlows
  MaxNodeId = 4
  MaxPast = 1
  MaxCanvasEdits = 2
  MaxLayoutCuts = 1
  FileIds = {1, 2}
  Deletes = {1, 2}
  MaxClicks = 3
  MaxWork = 2
  Paths = {1, 2, 3}
  States = {"good"}
  Searches = {"q"}
  Matches <- MCMatches
  PageSize = 2
  MaxTurns = 2
  MaxMoves = 1
SYMMETRY TabSymmetry
INVARIANTS ControlTypeOK NothingOverwrittenUnseen InstalledIsOnDisk NodesAreServedRight 
PROPERTIES PauseIsTheFlows OneComparison SettingsAreKept 
\* The bounds end every part.
CHECK_DEADLOCK FALSE
