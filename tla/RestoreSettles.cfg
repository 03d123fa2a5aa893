SPECIFICATION FairSpec
CONSTANTS
  Runs = {r1}
  Restores = {s1}
  Workers = {w1}
  Blocks = {b1}
  Nobody = Nobody
  FaultKinds = {"crash", "start", "deletion", "lostReply", "lostColumns", "sweep", "unreadable"}
  MaxFaults = 2
  RetainCount = 1
  Kinds = {"volume", "pg_dump", "redis_rdb"}
  Parts = 2
  Cloud = FALSE
INVARIANT PartialIsKnown
PROPERTY AppliesSettle
CHECK_DEADLOCK FALSE
