SPECIFICATION Spec
CONSTANTS
  Runs = {r1, r2, r3}
  Restores = {}
  Workers = {w1, w2}
  Blocks = {b1}
  Nobody = Nobody
  FaultKinds = {"edit", "sweep"}
  MaxFaults = 1
  RetainCount = 1
  Kinds = {"pg_dump"}
  Parts = 1
  Cloud = FALSE
SYMMETRY Symmetry
INVARIANT TypeOK
INVARIANT NewestComplete
INVARIANT NothingLeaked
CHECK_DEADLOCK FALSE
