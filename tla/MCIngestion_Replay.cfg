SPECIFICATION Spec
CONSTANTS
  r1 = r1
  r2 = r2
  p1 = p1
  p2 = p2
  Runs = {r1}
  Partitions <- TwoPartitions
  MaxRecords = 2
  PageSize = 2
  MaxPages = 2
INVARIANTS
  CompletedRunIsBehindCursor
CHECK_DEADLOCK FALSE
