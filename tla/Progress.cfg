SPECIFICATION FairSpec
CONSTANTS
  MaxDeployments = 2
  Commits = {}
  NoCommit = NoCommit
  Clients = {c1, c2}
  NoClient = NoClient
  Requests = {"deploy", "keep", "forced teardown"}
  Outcomes = {"ready", "partial"}
  MaxWriteFailures = 0
  MaxCrashes = 0
PROPERTY CancelFreesProject
PROPERTY WaitersServed
CHECK_DEADLOCK FALSE
