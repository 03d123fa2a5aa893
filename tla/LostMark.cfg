SPECIFICATION Spec
CONSTANTS
  Runs = {r1}
  Restores = {s1}
  Workers = {w1}
  Blocks = {b1}
  Nobody = Nobody
  FaultKinds = {"lostMark"}
  MaxFaults = 1
  RetainCount = 1
  Kinds = {"volume"}
  Parts = 1
  Cloud = FALSE
INVARIANT PartialIsKnown
CHECK_DEADLOCK FALSE
