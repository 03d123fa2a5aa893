SPECIFICATION Spec
CONSTANTS
  MaxDeployments = 3
  Commits = {k1}
  NoCommit = NoCommit
  Clients = {c1, c2}
  NoClient = NoClient
  Requests = {"deploy", "reject", "rollback"}
  Outcomes = {"ready", "partial"}
  MaxWriteFailures = 0
  MaxCrashes = 0
INVARIANT ShippedVersionsDistinct
INVARIANT OneOpenDecision
PROPERTY RejectRestores
SYMMETRY ClientSymmetry
CHECK_DEADLOCK FALSE
