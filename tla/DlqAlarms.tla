------------------------------ MODULE DlqAlarms ------------------------------
(***************************************************************************)
(* The pipeline with the two CloudWatch alarms the constructs put on the   *)
(* DLQ.  Once per period CloudWatch records ApproximateNumberOfMessages-   *)
(* Visible; each alarm looks at the last evaluationPeriods samples and is  *)
(* in ALARM while datapointsToAlarm of them are above the threshold 0.     *)
(***************************************************************************)
EXTENDS DlqPipeline

CONSTANTS datapointsToAlarm, evaluationPeriods

ASSUME AlarmAssumption ==
  /\ datapointsToAlarm \in Nat \ {0} /\ evaluationPeriods \in Nat \ {0}
  /\ datapointsToAlarm <= evaluationPeriods

VARIABLE samples    \* the last evaluationPeriods + 1 samples, the newest last

alarmVars == <<vars, samples>>

Visible == Cardinality({m \in Msg : queue[m].state = "visible"})

\* Before the first sample data is missing: treatMissingData NOT_BREACHING.
AlarmInit == Init /\ samples = [i \in 1 .. evaluationPeriods + 1 |-> 0]

Sample ==
  /\ samples' = [i \in 1 .. evaluationPeriods + 1 |->
                   IF i = evaluationPeriods + 1 THEN Visible ELSE samples[i + 1]]
  /\ UNCHANGED vars

AlarmNext == (Next /\ UNCHANGED samples) \/ Sample

AlarmSpec == AlarmInit /\ [][AlarmNext]_alarmVars /\ Fairness /\ WF_alarmVars(Sample)

-----------------------------------------------------------------------------
Breaches(bad(_)) ==
  Cardinality({i \in 1 .. evaluationPeriods : bad(i)}) >= datapointsToAlarm

\* Mutants: GREATER_THAN_OR_EQUAL_TO_THRESHOLD, of either alarm.
RateAlarm_OrEqual   == Breaches(LAMBDA i : samples[i + 1] >= samples[i])
VolumeAlarm_OrEqual == Breaches(LAMBDA i : samples[i + 1] >= 0)

\* RATE(m1) > 0
RateAlarm == Breaches(LAMBDA i : samples[i + 1] > samples[i])

\* m1 > 0
VolumeAlarm == Breaches(LAMBDA i : samples[i + 1] > 0)

(***************************************************************************)
(* Where every period of the window must breach, the rate alarm needs a    *)
(* queue that grows as many times in a row, so as many failures, each      *)
(* repeated delivery counting as one more: with the state machines' 2 of   *)
(* 2, a failure that is delivered once never raises it alone, however long *)
(* its message stays in the DLQ and however often it comes back to it.     *)
(***************************************************************************)
RateNeedsGrowth ==
  datapointsToAlarm = evaluationPeriods /\ RateAlarm =>
    Cardinality(CapturedRuns) + slips >= datapointsToAlarm

(***************************************************************************)
(* Alarms clear: once the DLQ stays empty both return to OK.               *)
(***************************************************************************)
AlarmsClear == <>[](Visible = 0) => <>[](~RateAlarm /\ ~VolumeAlarm)
=============================================================================
