\* Two nodes, two jobs on one file, two faults: who may write.
SPECIFICATION Spec
CONSTANTS
  Files = {f1}
  Nodes = {n1, n2}
  MaxJobs = 2
  MaxCommits = 1
  MaxFaults = 2
  Kinds = {"replace"}
  Reports = {"success"}
  Cancellable = {}
SYMMETRY NodeSymmetry
INVARIANTS TypeOK  WritersAreClaimed
 
\* The last job may have ended.
CHECK_DEADLOCK FALSE
