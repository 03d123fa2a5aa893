SPECIFICATION Spec
CONSTANTS
  Runs = {r1}
  Restores = {s1}
  Workers = {w1}
  Blocks = {b1}
  Nobody = Nobody
  FaultKinds = {"sweep", "unreadable"}
  MaxFaults = 2
  RetainCount = 1
  Kinds = {"volume"}
  Parts = 1
  Cloud = FALSE
INVARIANT NothingLeaked
CHECK_DEADLOCK FALSE
