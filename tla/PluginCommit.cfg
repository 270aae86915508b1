\* A plugin's commit outlives its lease.
SPECIFICATION Spec
CONSTANTS
  Files = {f1}
  Nodes = {n1, n2}
  MaxJobs = 2
  MaxCommits = 1
  MaxFaults = 1
  Kinds = {"plugin"}
  Reports = {"success"}
  Cancellable = {}
INVARIANT SingleWriter
CHECK_DEADLOCK FALSE
