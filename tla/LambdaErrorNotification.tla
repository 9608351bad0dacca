----------------------- MODULE LambdaErrorNotification -----------------------
(***************************************************************************)
(* The wiring of the LambdaErrorNotification construct.  The construct     *)
(* only grants the right to send to its DLQ: it is assumed, as its README  *)
(* asks for, that the function's owner has made that queue the dead-letter *)
(* destination of failed asynchronous invocations.                         *)
(***************************************************************************)
EXTENDS DlqPipeline

FailedInvocation == {"FAILED"}

\* targetParameters has no lambdaFunctionParameters: the pipe invokes the function
\* with the default type.
invocationType == "REQUEST_RESPONSE"
awaitsResult   == invocationType = "REQUEST_RESPONSE"

eventbridgePipeBatchSize == 1
alarmDatapointsToAlarm   == 1
alarmEvaluationPeriods   == 5

(***************************************************************************)
(* packages/cdk-construct-lambda-error-notification/README.md:87: "The     *)
(* EventBridge Pipe uses a `FIRE_AND_FORGET` invocation type for           *)
(* reprocessing, so retried messages will also be subject to the Lambda's  *)
(* own retry/DLQ configuration": a retry that fails is captured in turn.   *)
(***************************************************************************)
FailedRetriesAreCaptured ==
  \A q \in Run : Retry(q) /\ runs[q].status \in Failing => Owed(q) \/ Handed(q) \/ Lost(q)

(***************************************************************************)
(* Less than that line promises: retries are not repeated without a reason *)
(* (as FIRE_AND_FORGET has it), or at least those that fail are captured.  *)
(* A behaviour in which not even this is so shows both broken.             *)
(***************************************************************************)
SomeRetryPromiseIsKept == RetriesAreExcused \/ FailedRetriesAreCaptured
=============================================================================
