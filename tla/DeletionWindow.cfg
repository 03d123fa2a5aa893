SPECIFICATION Spec
CONSTANTS
  Runs = {r1}
  Restores = {s1}
  Workers = {w1}
  Blocks = {b1}
  Nobody = Nobody
  FaultKinds = {"deletion"}
  MaxFaults = 1
  RetainCount = 1
  Kinds = {"pg_dump"}
  Parts = 1
  Cloud = FALSE
INVARIANT WindowLetsRestoreStop
CHECK_DEADLOCK FALSE
