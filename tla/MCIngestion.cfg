SPECIFICATION Spec
CONSTANTS
  r1 = r1
  r2 = r2
  p1 = p1
  p2 = p2
  Runs <- TwoRuns
  Partitions <- TwoPartitions
  MaxRecords = 2
  PageSize = 2
  MaxPages = 2
SYMMETRY Symmetry
INVARIANTS
  TypeOK
  NothingSkipped
  DuplicateHasCause
PROPERTIES
  OffsetsMoveForward
CHECK_DEADLOCK FALSE
