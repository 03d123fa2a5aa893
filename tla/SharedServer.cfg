SPECIFICATION Spec
CONSTANTS
  Builds = {1, 2}
  Projects = {"p", "q"}
  Project <- MCProject
  Demand <- MCDemand
  Prebuilt = {}
  Backed = {}
  Capacities = {1, 3}
  Limit = 2
  Cancellable = {}
  TornDown = {}
  MaxFaults = 1
  LocksMayBreak = FALSE
INVARIANT CapacityHonoured
PROPERTY ImplementsHostAccess
CHECK_DEADLOCK FALSE
