SPECIFICATION Spec
CONSTANTS
  d1 = d1
  d2 = d2
  Dispatchers <- Steady
  PartitionCount = 2
  MaxConcurrency = 1
  Outcomes = {"completed"}
  MaxExecutions = 2
  MaxAttempts = 2
  MaxCrashes = 1
  MaxRetries = 0
INVARIANTS
  TypeOK
  ConcurrencyLimit
  CompletedMeansLoaded
PROPERTIES
  AbandonedClaimRecovered
CHECK_DEADLOCK FALSE
