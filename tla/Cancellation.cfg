SPECIFICATION Spec
CONSTANTS
  MaxDeployments = 2
  Commits = {}
  NoCommit = NoCommit
  Clients = {c1, c2}
  NoClient = NoClient
  Requests = {"deploy", "start", "cancel", "delete", "reconcile"}
  Outcomes = {"ready", "partial", "reconciling", "no_changes"}
  MaxWriteFailures = 1
  MaxCrashes = 1
INVARIANT OneWorker
INVARIANT PointerResolves
INVARIANT LeaseHasWorker
INVARIANT NoOrphans
INVARIANT CancelReportTrue
PROPERTY CancelledFinal
PROPERTY ForwardOnly
PROPERTY NeverPublishesCancelled
SYMMETRY ClientSymmetry
CHECK_DEADLOCK FALSE
