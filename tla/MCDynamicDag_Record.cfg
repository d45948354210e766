SPECIFICATION Spec
CONSTANTS
  a = a
  b = b
  c = c
  d = d
  NodeID <- MCNodeID
  Definitions <- MCDefinitions
  MaxPages = 2
  MaxParallel = 2
  MaxSignals = 0
INVARIANTS
  ReturnedRunIsRecorded
CHECK_DEADLOCK FALSE
