------------------------ MODULE SfnErrorNotification ------------------------
(***************************************************************************)
(* The wiring of the SfnErrorNotification construct: the values its        *)
(* constructor gives the deployed pipeline and alarms.                     *)
(***************************************************************************)
EXTENDS DlqPipeline

\* How a standard execution may end badly.
FailedStatus == {"FAILED", "TIMED_OUT", "ABORTED"}

\* Mutant: a pattern that forgets timeouts.
failedExecutionPattern_NoTimeouts == {"FAILED", "ABORTED"}

failedExecutionPattern == {"FAILED", "TIMED_OUT", "ABORTED"}

invocationType == "FIRE_AND_FORGET"
awaitsResult   == invocationType = "REQUEST_RESPONSE"

eventbridgePipeBatchSize == 1
alarmDatapointsToAlarm   == 2
alarmEvaluationPeriods   == 2
=============================================================================
