SPECIFICATION FairSpec
CONSTANTS
  Builds = {1, 3}
  Projects = {"p", "q"}
  Project <- MCProject
  Demand <- MCDemand
  Prebuilt = {3}
  Backed = {1}
  Capacities = {2}
  Limit = 1
  Cancellable = {}
  TornDown = {}
  MaxFaults = 1
  LocksMayBreak = FALSE
INVARIANT BackupUndisturbed
PROPERTY BuildsEnd
CHECK_DEADLOCK FALSE
