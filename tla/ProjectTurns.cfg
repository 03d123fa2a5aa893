SPECIFICATION Spec
CONSTANTS
  Builds = {1, 3}
  Projects = {"p", "q"}
  Project <- MCProject
  Demand <- MCDemand
  Prebuilt = {}
  Backed = {}
  Capacities = {3}
  Limit = 1
  Cancellable = {3}
  TornDown = {"p"}
  MaxFaults = 1
  LocksMayBreak = TRUE
INVARIANT PlanHonoured
INVARIANT CommandsTracked
INVARIANT OwnerUndisturbed
PROPERTY OutcomeFinal
CHECK_DEADLOCK FALSE
