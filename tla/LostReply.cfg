SPECIFICATION Spec
CONSTANTS
  Runs = {r1}
  Restores = {}
  Workers = {w1}
  Blocks = {b1}
  Nobody = Nobody
  FaultKinds = {"lostReply"}
  MaxFaults = 1
  RetainCount = 1
  Kinds = {"pg_dump"}
  Parts = 1
  Cloud = FALSE
INVARIANT NewestComplete
CHECK_DEADLOCK FALSE
