SPECIFICATION Spec
CONSTANTS
  MaxDeployments = 2
  Commits = {}
  NoCommit = NoCommit
  Clients = {c1}
  NoClient = NoClient
  Requests = {"deploy", "keep"}
  Outcomes = {"ready", "partial"}
  MaxWriteFailures = 0
  MaxCrashes = 0
PROPERTY RekeepIsNoOp
CHECK_DEADLOCK FALSE
