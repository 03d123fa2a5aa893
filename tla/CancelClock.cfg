SPECIFICATION Spec
CONSTANTS
  MaxDeployments = 1
  Commits = {}
  NoCommit = NoCommit
  Clients = {c1, c2}
  NoClient = NoClient
  Requests = {"deploy", "cancel"}
  Outcomes = {"ready"}
  MaxWriteFailures = 0
  MaxCrashes = 0
PROPERTY CancellationClockPinned
CHECK_DEADLOCK FALSE
