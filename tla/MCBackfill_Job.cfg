SPECIFICATION Spec
CONSTANTS
  d1 = d1
  d2 = d2
  Dispatchers <- Steady
  PartitionCount = 1
  MaxConcurrency = 1
  Outcomes = {"completed"}
  MaxExecutions = 1
  MaxAttempts = 1
  MaxCrashes = 0
  MaxRetries = 0
PROPERTIES
  JobCompletes
CHECK_DEADLOCK FALSE
