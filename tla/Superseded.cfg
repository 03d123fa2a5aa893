SPECIFICATION Spec
CONSTANTS
  MaxDeployments = 2
  Commits = {}
  NoCommit = NoCommit
  Clients = {c1}
  NoClient = NoClient
  Requests = {"deploy"}
  Outcomes = {"ready", "partial"}
  MaxWriteFailures = 0
  MaxCrashes = 0
INVARIANT SupersededNotLive
CHECK_DEADLOCK FALSE
