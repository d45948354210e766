SPECIFICATION Spec
CONSTANTS
  a = a
  b = b
  c = c
  d = d
  NodeID <- MCNodeID
  Definitions <- MCDefinitions
  MaxPages = 2
  MaxParallel = 2
  MaxSignals = 2
INVARIANTS
  TypeOK
  PlanIsLayering
  DependencyOrder
  ResourceBounds
  WorkNeedsSuccessfulUpstream
  CommitOnlyAfterFullSuccess
  RecordedPhaseIsTrue
PROPERTIES
  CancelStopsWork
  Termination
  ImplementsContract
CHECK_DEADLOCK FALSE
