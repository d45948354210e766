SPECIFICATION Safety
CONSTANTS
  d1 = d1
  d2 = d2
  Dispatchers <- Rollout
  PartitionCount = 3
  MaxConcurrency = 1
  Outcomes = {"completed", "failed"}
  MaxExecutions = 1
  MaxAttempts = 1
  MaxCrashes = 0
  MaxRetries = 1
SYMMETRY Symmetry
INVARIANTS
  SlotOverrunBounded
  ClaimExclusive
PROPERTIES
  NoClaimAfterCancel
CHECK_DEADLOCK FALSE
