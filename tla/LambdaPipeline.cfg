SPECIFICATION FairSpec
CONSTANTS
  Failing <- FailedInvocation
  Captured <- FailedInvocation
  Synchronous <- awaitsResult
  BatchSize = 2
  MaxStarts = 1
  MaxFailures = 2
  MaxRetries = 3
  MaxSlips = 1
INVARIANTS
  DeletedOnlyAfterRetry
PROPERTY
  ImplementsAtLeastOnce
CHECK_DEADLOCK FALSE
