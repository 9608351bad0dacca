SPECIFICATION FairSpec
CONSTANTS
  Failing <- FailedStatus
  Captured <- failedExecutionPattern
  Synchronous <- awaitsResult
  BatchSize = 2
  MaxStarts = 1
  MaxFailures = 2
  MaxRetries = 3
  MaxSlips = 1
INVARIANTS
  TypeOK
  NothingForgotten
  DeletedOnlyAfterRetry
  RetriesAreExcused
PROPERTY
  ImplementsAtLeastOnce
CHECK_DEADLOCK FALSE
