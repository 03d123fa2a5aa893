SPECIFICATION Spec
CONSTANTS
  Builds = {1}
  Projects = {"p", "q"}
  Project <- MCProject
  Demand <- MCDemand
  Prebuilt = {}
  Backed = {}
  Capacities = {2, 3}
  Limit = 1
  Cancellable = {}
  TornDown = {"p"}
  MaxFaults = 0
  LocksMayBreak = FALSE
PROPERTY RefusedDeferralIsSettled
CHECK_DEADLOCK FALSE
