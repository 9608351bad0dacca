SPECIFICATION Spec
CONSTANTS
  Failing <- FailedInvocation
  Captured <- FailedInvocation
  Synchronous <- awaitsResult
  BatchSize <- eventbridgePipeBatchSize
  MaxStarts = 1
  MaxFailures = 2
  MaxRetries = 3
  MaxSlips = 0
INVARIANT SomeRetryPromiseIsKept
CHECK_DEADLOCK FALSE
