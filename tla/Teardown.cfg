SPECIFICATION Spec
CONSTANTS
  MaxDeployments = 2
  Commits = {}
  NoCommit = NoCommit
  Clients = {c1, c2}
  NoClient = NoClient
  Requests = {"deploy", "cancel", "teardown", "forced teardown"}
  Outcomes = {"ready", "reconciling"}
  MaxWriteFailures = 1
  MaxCrashes = 1
INVARIANT TypeOK
INVARIANT CleanupQuiescent
PROPERTY FenceRetained
PROPERTY ImplementsProjectWork
SYMMETRY ClientSymmetry
CHECK_DEADLOCK FALSE
