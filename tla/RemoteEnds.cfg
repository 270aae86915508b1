\* One node, two jobs on one file, the first one cancelled, both kinds of commit and three
\* kinds of report: everything ends, cancelled jobs for free, and no result is lost.
SPECIFICATION FairSpec
CONSTANTS
  Files = {f1}
  Nodes = {n1}
  MaxJobs = 2
  MaxCommits = 1
  MaxFaults = 1
  Kinds = {"replace", "plugin"}
  Reports = {"noop", "failure", "review"}
  Cancellable = {1}
INVARIANTS JournalCoversAgent
PROPERTIES  EverythingSettles
\* The last job may have ended.
CHECK_DEADLOCK FALSE
