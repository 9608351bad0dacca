SPECIFICATION AlarmSpec
CONSTANTS
  Failing = {"FAILED"}
  Captured = {"FAILED"}
  Synchronous <- awaitsResult
  BatchSize <- eventbridgePipeBatchSize
  MaxStarts = 1
  MaxFailures = 2
  MaxRetries = 3
  MaxSlips = 1
  datapointsToAlarm <- alarmDatapointsToAlarm
  evaluationPeriods <- alarmEvaluationPeriods
INVARIANTS
  RateNeedsGrowth
PROPERTY
  AlarmsClear
