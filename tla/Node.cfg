SPECIFICATION NodeSpec
CONSTANTS
  Hashes = {a, b}
  Jobs = {j, k}
  Cap = 1
  Faults = {"download", "touch", "remove", "crash"}
  Casts <- MCCasts
  Wirings <- MCWirings
  MaxSteps = 5
  Library <- MCLibrary
  Recipes <- MCRecipes
  MaxPasses = 2
INVARIANTS NodeTypeOK ReportIsKept ReportIsTrue NothingIsLost
PROPERTIES CommandIsTrue BundlesAreKept RunEndsOnce NothingHangs
CHECK_DEADLOCK FALSE
