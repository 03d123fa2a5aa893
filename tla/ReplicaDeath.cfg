SPECIFICATION FairSpec
CONSTANTS
  Runs = {r1}
  Restores = {s1}
  Workers = {w1}
  Blocks = {b1}
  Nobody = Nobody
  FaultKinds = {"death"}
  MaxFaults = 1
  RetainCount = 1
  Kinds = {"pg_dump"}
  Parts = 1
  Cloud = TRUE
PROPERTY AppliesSettle
CHECK_DEADLOCK FALSE
