----------------------------- MODULE DlqPipeline -----------------------------
(***************************************************************************)
(* What the *-error-notification constructs deploy around a state machine  *)
(* or Lambda function: failures are captured into a dead-letter queue      *)
(* (DLQ), and an EventBridge pipe reads the DLQ in batches and starts the  *)
(* target again.                                                           *)
(*                                                                         *)
(* The wiring (what is captured, how the pipe invokes its target, when a   *)
(* message is deleted) is the constructs'; the services behind it run      *)
(* concurrently and keep only their documented at-least-once guarantees.   *)
(* Durations are abstracted: a visibility timeout or a retention period    *)
(* may run out at any time a message is exposed to it.                     *)
(***************************************************************************)
EXTENDS Naturals, Sequences, FiniteSets

CONSTANTS
  Failing,       \* the ways an execution may end badly
  Captured,      \* those that are routed to the DLQ
  Synchronous,   \* the pipe waits for the result (REQUEST_RESPONSE)
  BatchSize,     \* eventbridgePipeBatchSize
  MaxStarts,     \* bound: executions started by users
  MaxFailures,   \* bound: failures, those of executions the pipe waits for not counted
  MaxRetries,    \* bound: executions the pipe starts; beyond it the target is throttled
  MaxSlips       \* bound: duplicated deliveries, lapses, pipe failures

ASSUME PipelineAssumption ==
  /\ Captured \subseteq Failing
  /\ "running" \notin Failing /\ "SUCCEEDED" \notin Failing
  /\ Synchronous \in BOOLEAN
  /\ BatchSize \in Nat /\ MaxStarts \in Nat /\ MaxFailures \in Nat
  /\ MaxRetries \in Nat /\ MaxSlips \in Nat

VARIABLES
  runs,    \* sequence of [status, retries]: the executions in start order;
           \* retries: the failed executions this one reprocesses ({}: a user's)
  bus,     \* failed executions whose failure is still to be sent to the DLQ
  queue,   \* sequence of [of, state]: the DLQ's messages in sending order
  held,    \* batches the pipe holds: [msgs, late, run]; late: those whose visibility
           \* timeout ran out meanwhile; run: the execution started, 0 before
  lost,    \* failures the services gave up delivering
  slips    \* how many slips occurred

vars == <<runs, bus, queue, held, lost, slips>>

-----------------------------------------------------------------------------
Run   == DOMAIN runs
Msg   == DOMAIN queue
Retry(q)  == runs[q].retries # {}

\* SendMessage is configured for the construct's rule, or for asynchronous invocations:
\* an execution the pipe itself waits for is not captured again.
IsCaptured(r) == runs[r].status \in Captured /\ ~(Synchronous /\ Retry(r))

CapturedRuns == {f \in Run : IsCaptured(f)}

SetState(S, state) ==
  [m \in Msg |-> IF m \in S THEN [queue[m] EXCEPT !.state = state] ELSE queue[m]]

Slip == slips < MaxSlips /\ slips' = slips + 1

Init ==
  /\ runs = << >> /\ queue = << >>
  /\ bus = {} /\ held = {} /\ lost = {}
  /\ slips = 0

\* A user starts an execution.
Start ==
  /\ Cardinality({r \in Run : ~Retry(r)}) < MaxStarts
  /\ runs' = Append(runs, [status |-> "running", retries |-> {}])
  /\ UNCHANGED <<bus, queue, held, lost, slips>>

\* The failures of executions that the pipe does not wait for.
Failures == {q \in Run : runs[q].status \in Failing /\ ~(Synchronous /\ Retry(q))}

\* An execution ends; the rule matches the outcomes of failedExecutionPattern.  One the
\* pipe waits for may fail every time.
End(r, outcome) ==
  /\ runs[r].status = "running"
  /\ outcome \in Failing /\ ~(Synchronous /\ Retry(r)) => Cardinality(Failures) < MaxFailures
  /\ runs' = [runs EXCEPT ![r].status = outcome]
  /\ bus' = IF outcome \in Captured /\ ~(Synchronous /\ Retry(r)) THEN bus \cup {r} ELSE bus
  /\ UNCHANGED <<queue, held, lost, slips>>

\* Mutant: the DLQ does not let the sender in, and the failure is dropped.
Deliver_Refused(r) ==
  /\ r \in bus
  /\ bus' = bus \ {r}
  /\ UNCHANGED <<runs, queue, held, lost, slips>>

\* The failure reaches the DLQ, once or, delivery being at least once, once more.
Deliver(r) ==
  /\ r \in bus
  /\ queue' = Append(queue, [of |-> r, state |-> "visible"])
  /\ \/ bus' = bus \ {r} /\ UNCHANGED slips
     \/ bus' = bus /\ Slip
  /\ UNCHANGED <<runs, held, lost>>

\* The rule's target has no retry policy or dead-letter queue of its own: what cannot
\* be delivered in time is dropped.
GiveUp(r) ==
  /\ r \in bus /\ Slip
  /\ bus' = bus \ {r}
  /\ lost' = lost \cup {r}
  /\ UNCHANGED <<runs, queue, held>>

\* Mutant: a visibility timeout of 0.
Receive_StaysVisible(B) ==
  /\ B # {} /\ Cardinality(B) <= BatchSize
  /\ \A m \in B : queue[m].state = "visible"
  /\ held' = held \cup {[msgs |-> B, late |-> {}, run |-> 0]}
  /\ UNCHANGED <<runs, bus, queue, lost, slips>>

\* The pipe polls up to BatchSize visible messages; they become invisible.
Receive(B) ==
  /\ B # {} /\ Cardinality(B) <= BatchSize
  /\ \A m \in B : queue[m].state = "visible"
  /\ queue' = SetState(B, "inflight")
  /\ held' = held \cup {[msgs |-> B, late |-> {}, run |-> 0]}
  /\ UNCHANGED <<runs, bus, lost, slips>>

Throttled == Cardinality({q \in Run : Retry(q)}) >= MaxRetries

\* Mutant: the batch remembers the wrong execution.
Invoke_OffByOne(b) ==
  /\ b.run = 0
  /\ runs' = Append(runs, [status |-> "running", retries |-> {queue[m].of : m \in b.msgs}])
  /\ held' = (held \ {b}) \cup {[b EXCEPT !.run = Len(runs) + 2]}
  /\ UNCHANGED <<bus, queue, lost, slips>>

\* The pipe starts its target on a batch.
Invoke(b) ==
  /\ b.run = 0 /\ ~Throttled
  /\ runs' = Append(runs, [status |-> "running", retries |-> {queue[m].of : m \in b.msgs}])
  /\ held' = (held \ {b}) \cup {[b EXCEPT !.run = Len(runs) + 1]}
  /\ UNCHANGED <<bus, queue, lost, slips>>

\* Mutant: the batch is deleted as soon as it is read.
Settle_OnReceipt(b) ==
  /\ queue' = SetState({m \in b.msgs : queue[m].state # "expired"}, "deleted")
  /\ held' = held \ {b}
  /\ UNCHANGED <<runs, bus, lost, slips>>

\* Mutant: the pipe's role may not delete what it consumed.
Settle_NoDelete(b) ==
  /\ b.run # 0
  /\ Synchronous => runs[b.run].status = "SUCCEEDED"
  /\ held' = held \ {b}
  /\ UNCHANGED <<runs, bus, queue, lost, slips>>

\* FIRE_AND_FORGET deletes the batch once its execution has been started, REQUEST_RESPONSE
\* once it has succeeded.  A late message's receipt handle may no longer delete it.
Settle(b) ==
  /\ b.run # 0
  /\ Synchronous => runs[b.run].status = "SUCCEEDED"
  /\ \E late \in SUBSET b.late :
       queue' = SetState({m \in (b.msgs \ b.late) \cup late :
                            queue[m].state # "expired"}, "deleted")
  /\ held' = held \ {b}
  /\ UNCHANGED <<runs, bus, lost, slips>>

\* The messages a batch still hides from the queue.
Hidden(b) == {m \in b.msgs \ b.late : queue[m].state = "inflight"}

\* The batch is abandoned; its messages come back when their visibility timeout ends.
Abandon(b) ==
  /\ queue' = SetState(Hidden(b), "visible")
  /\ held' = held \ {b}
  /\ UNCHANGED <<runs, bus, lost>>

\* The awaited execution failed.
Reject(b) ==
  /\ Synchronous /\ b.run # 0
  /\ runs[b.run].status \in Failing
  /\ Abandon(b) /\ UNCHANGED slips

\* The target is throttled: nothing is started.
Refuse(b) ==
  /\ b.run = 0 /\ Throttled
  /\ Abandon(b) /\ UNCHANGED slips

\* The pipe fails before it settles the batch.
Drop(b) == Abandon(b) /\ Slip

\* A message's visibility timeout ends while the pipe still holds it.  The constructs set
\* it to 2 s: any execution the pipe waits for may take longer, where the start of one
\* takes as long only if a service slips.
Lapse(b, m) ==
  /\ m \in Hidden(b)
  /\ IF Synchronous /\ b.run # 0 THEN UNCHANGED slips ELSE Slip
  /\ queue' = SetState({m}, "visible")
  /\ held' = (held \ {b}) \cup {[b EXCEPT !.late = @ \cup {m}]}
  /\ UNCHANGED <<runs, bus, lost>>

\* A message's retention period ends.
Expire(m) ==
  /\ queue[m].state \in {"visible", "inflight"}
  /\ queue' = SetState({m}, "expired")
  /\ UNCHANGED <<runs, bus, held, lost, slips>>

PipeNext ==
  \/ \E B \in SUBSET Msg : Receive(B)
  \/ \E b \in held : Invoke(b) \/ Refuse(b) \/ Settle(b) \/ Reject(b) \/ Drop(b)
  \/ \E b \in held : \E m \in b.msgs : Lapse(b, m)

Next ==
  \/ Start
  \/ \E r \in Run, outcome \in Failing \cup {"SUCCEEDED"} : End(r, outcome)
  \/ \E r \in bus : Deliver(r) \/ GiveUp(r)
  \/ PipeNext
  \/ \E m \in Msg : Expire(m)

Spec == Init /\ [][Next]_vars

\* Delivery, polling and the pipe keep working.  Only where the pipe waits for executions
\* does anything depend on their end (a Lambda function has a time limit, a state machine
\* need not), and on that of the retention of messages whose retries fail every time.
Fairness ==
  /\ WF_vars(\E r \in bus : Deliver(r))
  /\ WF_vars(\E B \in SUBSET Msg : Receive(B))
  /\ WF_vars(\E b \in held : Invoke(b) \/ Refuse(b) \/ Settle(b) \/ Reject(b))
  /\ Synchronous => WF_vars(\E r \in Run, outcome \in Failing \cup {"SUCCEEDED"} : End(r, outcome))
  /\ Synchronous => WF_vars(\E m \in Msg : Expire(m))

FairSpec == Spec /\ Fairness

-----------------------------------------------------------------------------
Live(m)   == queue[m].state \in {"visible", "inflight"}
Retries(f) == {q \in Run : f \in runs[q].retries}

\* Execution q answers for what it retries: it was started and, if awaited, succeeded.
Answers(q) == Synchronous => runs[q].status = "SUCCEEDED"

\* Failure f still has a message, or is on its way to having one, or is in the pipe, or an
\* execution that is to answer for it has not ended.
Owed(f) ==
  \/ f \in bus
  \/ \E m \in Msg : queue[m].of = f /\ Live(m)
  \/ \E b \in held : \E m \in b.msgs : queue[m].of = f
  \/ Synchronous /\ \E q \in Retries(f) : runs[q].status = "running"

Handed(f) == \E q \in Retries(f) : Answers(q)
Lost(f)   == f \in lost \/ \E m \in Msg : queue[m].of = f /\ queue[m].state = "expired"

TypeOK ==
  /\ runs \in Seq([status : Failing \cup {"running", "SUCCEEDED"}, retries : SUBSET Nat])
  /\ queue \in Seq([of : Nat, state : {"visible", "inflight", "deleted", "expired"}])
  /\ bus \subseteq Run /\ lost \subseteq Run
  /\ held \subseteq {b \in [msgs : SUBSET Msg, late : SUBSET Msg, run : Run \cup {0}] :
                       b.late \subseteq b.msgs}
  /\ slips \in 0 .. MaxSlips

(***************************************************************************)
(* Every execution that ended badly, whichever way, is still owed, or was  *)
(* reprocessed, or was given up by a service whose limits the construct    *)
(* sets: none falls between rule, queue and pipe.  Only executions a       *)
(* synchronous pipe started are excepted: their message is still there.    *)
(***************************************************************************)
NothingForgotten == \A f \in Failures : Owed(f) \/ Handed(f) \/ Lost(f)

(***************************************************************************)
(* A message is deleted only when a further execution answers for it: one  *)
(* was started and, where the pipe waits for the result, succeeded.        *)
(***************************************************************************)
DeletedOnlyAfterRetry ==
  \A m \in Msg : queue[m].state = "deleted" =>
    \E q \in Retries(queue[m].of) : Answers(q)

(***************************************************************************)
(* The pipe reprocesses only executions that failed before it started, so  *)
(* chains of reprocessing cannot loop back on themselves.                  *)
(***************************************************************************)
RetriesAreOfFailures ==
  \A q \in Run : \A f \in runs[q].retries : f \in Run /\ f < q /\ IsCaptured(f)

(***************************************************************************)
(* A failure is reprocessed once, and once more for every slip of a        *)
(* service and every awaited execution that failed: nothing in the wiring  *)
(* itself duplicates work.  FIRE_AND_FORGET keeps to this; a pipe that     *)
(* waits for longer than messages are hidden does not.                     *)
(***************************************************************************)
RetriesAreExcused ==
  \A f \in Run :
    Cardinality(Retries(f)) <=
      1 + slips + Cardinality({q \in Retries(f) : Synchronous /\ runs[q].status \in Failing})

(***************************************************************************)
(* The deployed pipeline implements AtLeastOnce: what the bus, the queue   *)
(* and the pipe together know of a failure is its fate, it is decided      *)
(* once, and, as long as the services keep working, it is decided, even    *)
(* when every retry fails.  A failure that is in none of these places has  *)
(* lost its fate, which AtLeastOnce does not allow.                        *)
(***************************************************************************)
RunId == 1 .. (MaxStarts + MaxRetries)

Fate(f) ==
  IF f \notin Run \/ ~IsCaptured(f) THEN "none"
  ELSE IF Owed(f) THEN "owed"
  ELSE IF Handed(f) THEN "handed"
  ELSE IF Lost(f) THEN "lost" ELSE "none"

Promise == INSTANCE AtLeastOnce WITH Run <- RunId, fate <- [f \in RunId |-> Fate(f)]

ImplementsAtLeastOnce == Promise!Spec
=============================================================================
