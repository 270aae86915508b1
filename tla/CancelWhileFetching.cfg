\* A cancel that meets a node still fetching bundles.
SPECIFICATION Spec
CONSTANTS
  Files = {f1}
  Nodes = {n1, n2}
  MaxJobs = 2
  MaxCommits = 1
  MaxFaults = 0
  Kinds = {"replace"}
  Reports = {"success"}
  Cancellable = {1}
INVARIANT CancelReachesAgent
CHECK_DEADLOCK FALSE
