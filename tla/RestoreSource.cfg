SPECIFICATION Spec
CONSTANTS
  Runs = {r1, r2}
  Restores = {s1}
  Workers = {w1}
  Blocks = {b1}
  Nobody = Nobody
  FaultKinds = {"refusal", "death", "start", "deletion", "unclearStop", "lostMark", "unmerged"}
  MaxFaults = 1
  RetainCount = 1
  Kinds = {"volume"}
  Parts = 2
  Cloud = TRUE
SYMMETRY Symmetry
INVARIANT SourceStays
INVARIANT OneWriter
INVARIANT PartialNeverServed
PROPERTY CancelStands
PROPERTY RestorePointsLast
CHECK_DEADLOCK FALSE
