------------------------- MODULE DlqPipeline_proofs -------------------------
(***************************************************************************)
(* What the error pipeline guarantees for any number of executions,        *)
(* failures, slips and any batch size, and what the rate alarm then says   *)
(* of the DLQ, for any numbers of datapoints and periods.                  *)
(***************************************************************************)
EXTENDS DlqAlarms, SequenceTheorems, FiniteSetTheorems, WellFoundedInduction, TLAPS

-----------------------------------------------------------------------------
State == {"visible", "inflight", "deleted", "expired"}
RunRecord == [status : Failing \cup {"running", "SUCCEEDED"}, retries : SUBSET Nat]
MsgRecord == [of : Nat, state : State]
Batch(M, R) ==
  {b \in [msgs : SUBSET M, late : SUBSET M, run : R \cup {0}] : b.late \subseteq b.msgs}

(* Appending keeps the elements and adds one.                              *)
LEMMA AppendKeeps ==
  \A S : \A s \in Seq(S), e \in S :
    /\ Append(s, e) \in Seq(S)
    /\ DOMAIN s = 1 .. Len(s) /\ Len(s) \in Nat
    /\ DOMAIN Append(s, e) = 1 .. (Len(s) + 1)
    /\ Append(s, e)[Len(s) + 1] = e
    /\ \A i \in DOMAIN s : Append(s, e)[i] = s[i]
  OBVIOUS

(* Changing the state of some messages changes nothing else of the queue.  *)
LEMMA SetStateKeeps ==
  ASSUME queue \in Seq(MsgRecord), NEW S, NEW st \in State
  PROVE  /\ SetState(S, st) \in Seq(MsgRecord)
         /\ DOMAIN SetState(S, st) = Msg
         /\ \A m \in Msg : /\ SetState(S, st)[m].of = queue[m].of
                           /\ SetState(S, st)[m].state = IF m \in S THEN st ELSE queue[m].state
<1> DEFINE q == SetState(S, st)
<1>1. DOMAIN queue = 1 .. Len(queue) /\ Len(queue) \in Nat
  OBVIOUS
<1>2. q = [m \in 1 .. Len(queue) |->
             IF m \in S THEN [queue[m] EXCEPT !.state = st] ELSE queue[m]]
  BY <1>1 DEF SetState, Msg
<1>3. \A m \in 1 .. Len(queue) : queue[m] \in MsgRecord
  OBVIOUS
<1>4. \A r \in MsgRecord : /\ [r EXCEPT !.state = st] \in MsgRecord
                           /\ [r EXCEPT !.state = st].of = r.of
                           /\ [r EXCEPT !.state = st].state = st
  BY DEF MsgRecord
<1>5. \A m \in 1 .. Len(queue) : /\ q[m] \in MsgRecord
                                 /\ q[m].of = queue[m].of
                                 /\ q[m].state = IF m \in S THEN st ELSE queue[m].state
  BY <1>2, <1>3, <1>4
<1>6. q \in Seq(MsgRecord) /\ DOMAIN q = 1 .. Len(queue)
  BY <1>1, <1>2, <1>3, <1>4
<1>7. QED
  BY <1>1, <1>5, <1>6 DEF Msg

(* An execution that ends keeps what it retries.                           *)
LEMMA EndKeeps ==
  ASSUME runs \in Seq(RunRecord), NEW r \in Run, NEW outcome \in Failing \cup {"SUCCEEDED"}
  PROVE  LET ended == [runs EXCEPT ![r].status = outcome] IN
         /\ ended \in Seq(RunRecord)
         /\ DOMAIN ended = Run
         /\ \A q \in Run : /\ ended[q].retries = runs[q].retries
                           /\ ended[q].status = IF q = r THEN outcome ELSE runs[q].status
<1> DEFINE ended == [runs EXCEPT ![r].status = outcome]
<1>1. DOMAIN runs = 1 .. Len(runs) /\ Len(runs) \in Nat
  OBVIOUS
<1>2. \A q \in 1 .. Len(runs) : runs[q] \in RunRecord
  OBVIOUS
<1>3. \A x \in RunRecord : /\ [x EXCEPT !.status = outcome] \in RunRecord
                           /\ [x EXCEPT !.status = outcome].retries = x.retries
                           /\ [x EXCEPT !.status = outcome].status = outcome
  BY DEF RunRecord
<1>4. ended = [q \in 1 .. Len(runs) |->
                 IF q = r THEN [runs[q] EXCEPT !.status = outcome] ELSE runs[q]]
  BY <1>1 DEF Run
<1>5. \A q \in 1 .. Len(runs) :
        /\ ended[q] \in RunRecord
        /\ ended[q].retries = runs[q].retries
        /\ ended[q].status = IF q = r THEN outcome ELSE runs[q].status
  BY <1>2, <1>3, <1>4
<1> HIDE DEF ended
<1>6. ended \in Seq(RunRecord) /\ DOMAIN ended = 1 .. Len(runs)
  BY <1>1, <1>4, <1>5
<1>7. QED
  BY <1>1, <1>5, <1>6 DEF Run, ended

-----------------------------------------------------------------------------
(* Every step keeps the types.                                             *)
LEMMA StepTyped == TypeOK /\ [Next]_vars => TypeOK'
<1> SUFFICES ASSUME TypeOK, [Next]_vars PROVE TypeOK'
  OBVIOUS
<1> USE PipelineAssumption
<1>1. /\ runs \in Seq(RunRecord) /\ queue \in Seq(MsgRecord)
      /\ bus \subseteq Run /\ lost \subseteq Run
      /\ held \subseteq Batch(Msg, Run)
      /\ slips \in 0 .. MaxSlips
  BY DEF TypeOK, RunRecord, MsgRecord, State, Batch
<1>2. Run = 1 .. Len(runs) /\ Len(runs) \in Nat /\ Msg = 1 .. Len(queue) /\ Len(queue) \in Nat
  BY <1>1 DEF Run, Msg
<1>3. /\ runs' \in Seq(RunRecord) /\ queue' \in Seq(MsgRecord)
      /\ bus' \subseteq Run' /\ lost' \subseteq Run'
      /\ held' \subseteq Batch(Msg', Run')
      /\ slips' \in 0 .. MaxSlips
      => TypeOK'
  BY DEF TypeOK, RunRecord, MsgRecord, State, Batch
<1>4. Slip => slips' \in 0 .. MaxSlips
  BY <1>1 DEF Slip
<1>6. CASE Start
  <2> DEFINE e == [status |-> "running", retries |-> {}]
  <2>1. e \in RunRecord
    BY DEF RunRecord
  <2>2. runs' = Append(runs, e) /\ UNCHANGED <<bus, queue, held, lost, slips>>
    BY <1>6 DEF Start
  <2>3. runs' \in Seq(RunRecord) /\ Run' = 1 .. (Len(runs) + 1) /\ Msg' = Msg
    BY <1>1, <2>1, <2>2, AppendKeeps DEF Run, Msg
  <2> HIDE DEF e
  <2>4. Run \subseteq Run' /\ Batch(Msg, Run) \subseteq Batch(Msg', Run')
    BY <1>2, <2>3 DEF Batch
  <2>5. QED
    BY <1>1, <1>3, <2>2, <2>3, <2>4
<1>7. ASSUME NEW r \in Run, NEW outcome \in Failing \cup {"SUCCEEDED"}, End(r, outcome)
      PROVE  TypeOK'
  <2>1. runs' \in Seq(RunRecord) /\ Run' = Run
    BY <1>1, <1>7, EndKeeps DEF End, Run
  <2>2. Msg' = Msg /\ UNCHANGED <<queue, held, lost, slips>>
    BY <1>7 DEF End, Msg
  <2>3. bus' \subseteq Run
    BY <1>1, <1>7 DEF End
  <2>4. QED
    BY <1>1, <1>3, <2>1, <2>2, <2>3
<1>8. ASSUME NEW r \in bus, Deliver(r) PROVE TypeOK'
  <2> DEFINE e == [of |-> r, state |-> "visible"]
  <2>1. e \in MsgRecord
    BY <1>1, <1>2 DEF MsgRecord, State
  <2>2. queue' = Append(queue, e) /\ UNCHANGED <<runs, held, lost>>
    BY <1>8 DEF Deliver
  <2>3. queue' \in Seq(MsgRecord) /\ Msg' = 1 .. (Len(queue) + 1) /\ Run' = Run
    BY <1>1, <2>1, <2>2, AppendKeeps DEF Run, Msg
  <2> HIDE DEF e
  <2>4. Batch(Msg, Run) \subseteq Batch(Msg', Run')
    BY <1>2, <2>3 DEF Batch
  <2>5. bus' \subseteq bus /\ slips' \in 0 .. MaxSlips
    BY <1>1, <1>4, <1>8 DEF Deliver
  <2>6. QED
    BY <1>1, <1>3, <2>2, <2>3, <2>4, <2>5
<1>9. ASSUME NEW r \in bus, GiveUp(r) PROVE TypeOK'
  <2>1. UNCHANGED <<runs, queue, held>> /\ Run' = Run /\ Msg' = Msg
    BY <1>9 DEF GiveUp, Run, Msg
  <2>2. bus' \subseteq Run /\ lost' \subseteq Run /\ slips' \in 0 .. MaxSlips
    BY <1>1, <1>4, <1>9 DEF GiveUp
  <2>3. QED
    BY <1>1, <1>3, <2>1, <2>2
<1>10. ASSUME NEW S, NEW st \in State, queue' = SetState(S, st), UNCHANGED <<runs, bus, lost>>
       PROVE  queue' \in Seq(MsgRecord) /\ Msg' = Msg /\ Run' = Run
  BY <1>1, <1>10, SetStateKeeps DEF Run, Msg
<1>11. ASSUME NEW B \in SUBSET Msg, Receive(B) PROVE TypeOK'
  <2>1. queue' \in Seq(MsgRecord) /\ Msg' = Msg /\ Run' = Run /\ UNCHANGED <<runs, bus, lost, slips>>
    BY <1>10, <1>11 DEF Receive, State
  <2>2. held' \subseteq Batch(Msg, Run)
    BY <1>1, <1>11 DEF Receive, Batch
  <2>3. QED
    BY <1>1, <1>3, <2>1, <2>2
<1>12. ASSUME NEW b \in held, Invoke(b) PROVE TypeOK'
  <2> DEFINE e == [status |-> "running", retries |-> {queue[m].of : m \in b.msgs}]
  <2>1. b \in Batch(Msg, Run)
    BY <1>1
  <2>2. e \in RunRecord
    <3>1. b.msgs \subseteq Msg /\ \A m \in Msg : queue[m] \in MsgRecord
      BY <1>1, <1>2, <2>1 DEF Batch
    <3>2. \A m \in b.msgs : queue[m].of \in Nat
      BY <3>1 DEF MsgRecord
    <3>3. QED
      BY <3>2 DEF RunRecord
  <2>3. runs' = Append(runs, e) /\ UNCHANGED <<bus, queue, lost, slips>>
    BY <1>12 DEF Invoke
  <2>4. runs' \in Seq(RunRecord) /\ Run' = 1 .. (Len(runs) + 1) /\ Msg' = Msg
    BY <1>1, <2>2, <2>3, AppendKeeps DEF Run, Msg
  <2> HIDE DEF e
  <2>5. Run \subseteq Run' /\ Len(runs) + 1 \in Run'
    BY <1>2, <2>4
  <2>6. Batch(Msg, Run) \subseteq Batch(Msg', Run')
    BY <2>4, <2>5 DEF Batch
  <2>7. [b EXCEPT !.run = Len(runs) + 1] \in Batch(Msg', Run')
    BY <2>1, <2>4, <2>5 DEF Batch
  <2>8. held' \subseteq Batch(Msg', Run')
    BY <1>1, <1>12, <2>6, <2>7 DEF Invoke
  <2>9. QED
    BY <1>1, <1>3, <2>3, <2>4, <2>5, <2>8
<1>13. ASSUME NEW b \in held, Settle(b) PROVE TypeOK'
  <2>1. queue' \in Seq(MsgRecord) /\ Msg' = Msg /\ Run' = Run /\ UNCHANGED <<runs, bus, lost, slips>>
    BY <1>10, <1>13 DEF Settle, State
  <2>2. QED
    BY <1>1, <1>3, <1>13, <2>1 DEF Settle
<1>14. ASSUME NEW b \in held, Abandon(b), slips' \in 0 .. MaxSlips PROVE TypeOK'
  <2>1. queue' \in Seq(MsgRecord) /\ Msg' = Msg /\ Run' = Run /\ UNCHANGED <<runs, bus, lost>>
    BY <1>10, <1>14 DEF Abandon, State
  <2>2. QED
    BY <1>1, <1>3, <1>14, <2>1 DEF Abandon
<1>15. ASSUME NEW b \in held, NEW m \in b.msgs, Lapse(b, m) PROVE TypeOK'
  <2>1. queue' \in Seq(MsgRecord) /\ Msg' = Msg /\ Run' = Run /\ UNCHANGED <<runs, bus, lost>>
    BY <1>10, <1>15 DEF Lapse, State
  <2>2. b \in Batch(Msg, Run) /\ m \in Msg
    BY <1>1 DEF Batch
  <2>3. [b EXCEPT !.late = @ \cup {m}] \in Batch(Msg, Run)
    BY <2>2 DEF Batch
  <2>4. held' \subseteq Batch(Msg, Run) /\ slips' \in 0 .. MaxSlips
    BY <1>1, <1>4, <1>15, <2>3 DEF Lapse
  <2>5. QED
    BY <1>1, <1>3, <2>1, <2>4
<1>16. ASSUME NEW m \in Msg, Expire(m) PROVE TypeOK'
  <2>1. queue' \in Seq(MsgRecord) /\ Msg' = Msg /\ Run' = Run
    BY <1>10, <1>16 DEF Expire, State
  <2>2. QED
    BY <1>1, <1>3, <1>16, <2>1 DEF Expire
<1>17. CASE UNCHANGED vars
  BY <1>1, <1>3, <1>17 DEF vars, Run, Msg
<1>18. ASSUME NEW b \in held, Reject(b) \/ Refuse(b) \/ Drop(b) PROVE TypeOK'
  BY <1>1, <1>4, <1>14, <1>18 DEF Reject, Refuse, Drop
<1>19. QED
  BY <1>6, <1>7, <1>8, <1>9, <1>11, <1>12, <1>13, <1>15, <1>16, <1>17, <1>18 DEF Next, PipeNext

(***************************************************************************)
(* The pipeline's variables stay within their types.                       *)
(***************************************************************************)
THEOREM TypeCorrect == Spec => []TypeOK
<1>1. Init => TypeOK
  BY PipelineAssumption DEF Init, TypeOK, Run, Msg
<1>2. QED
  BY <1>1, StepTyped, PTL DEF Spec

-----------------------------------------------------------------------------
(***************************************************************************)
(* What one step does to executions, messages, batches and the bus.        *)
(***************************************************************************)
\* Executions keep what they retry and, once over, their outcome; a new one is running
\* and retries only what has a message.
RunsKept ==
  /\ Run \subseteq Run'
  /\ \A q \in Run : /\ runs'[q].retries = runs[q].retries
                    /\ runs[q].status # "running" => runs'[q].status = runs[q].status
  /\ \A q \in Run' \ Run : /\ \A f \in Run : f < q
                           /\ runs'[q].status = "running"
                           /\ \A f \in runs'[q].retries : \E m \in Msg : queue[m].of = f

\* Messages keep what they are of; a new one is of a failure on the bus; one is deleted
\* only as part of a batch whose execution was started and, if awaited, succeeded.
QueueKept ==
  /\ Msg \subseteq Msg'
  /\ \A m \in Msg : /\ queue'[m].of = queue[m].of
                    /\ queue'[m].state = "deleted" =>
                         \/ queue[m].state = "deleted"
                         \/ \E b \in held : /\ b.run # 0 /\ m \in b.msgs
                                            /\ Answers(b.run)
  /\ \A m \in Msg' \ Msg : queue'[m].of \in bus /\ queue'[m].state = "visible"

\* Batches keep their messages and execution; one gets an execution that retries them.
HeldKept ==
  \A b \in held' :
    \/ b.run = 0
    \/ \E c \in held : c.msgs = b.msgs /\ c.run = b.run
    \/ \E c \in held : /\ c.msgs = b.msgs /\ b.run \in Run'
                       /\ \A m \in c.msgs : queue[m].of \in runs'[b.run].retries

\* Captured outcomes go on the bus; what leaves it has a message or is lost.
BusKept ==
  /\ \A r \in bus' : r \in bus \/ IsCaptured(r)'
  /\ \A r \in Run' : IsCaptured(r)' => r \in bus' \/ (r \in Run /\ IsCaptured(r))
  /\ \A r \in bus : r \in bus' \/ r \in lost' \/ \E m \in Msg' : queue'[m].of = r
  /\ lost \subseteq lost'

LEMMA StepKeeps ==
  TypeOK /\ [Next]_vars => RunsKept /\ QueueKept /\ HeldKept /\ BusKept
<1> SUFFICES ASSUME TypeOK, [Next]_vars PROVE RunsKept /\ QueueKept /\ HeldKept /\ BusKept
  OBVIOUS
<1> USE PipelineAssumption
<1>1. /\ runs \in Seq(RunRecord) /\ queue \in Seq(MsgRecord)
      /\ bus \subseteq Run /\ held \subseteq Batch(Msg, Run)
  BY DEF TypeOK, RunRecord, MsgRecord, State, Batch
<1>2. Run = 1 .. Len(runs) /\ Len(runs) \in Nat /\ Msg = 1 .. Len(queue) /\ Len(queue) \in Nat
  BY <1>1 DEF Run, Msg
<1>3. UNCHANGED runs => RunsKept
  BY DEF RunsKept, Run
<1>4. UNCHANGED queue => QueueKept
  BY DEF QueueKept, Msg
<1>5. held' \subseteq held => HeldKept
  BY DEF HeldKept
<1>6. UNCHANGED <<runs, bus, lost>> => BusKept
  BY DEF BusKept, IsCaptured, Retry, Run
<1>7. ASSUME NEW S, NEW st \in State, queue' = SetState(S, st),
             st = "deleted" =>
               \A m \in S \cap Msg : \E b \in held : /\ b.run # 0 /\ m \in b.msgs
                                     /\ Answers(b.run)
      PROVE  QueueKept
  <2>1. /\ Msg' = Msg
        /\ \A m \in Msg : /\ queue'[m].of = queue[m].of
                          /\ queue'[m].state = IF m \in S THEN st ELSE queue[m].state
    BY <1>1, <1>7, SetStateKeeps DEF Msg
  <2>2. ASSUME NEW m \in Msg, queue'[m].state = "deleted", queue[m].state # "deleted"
        PROVE  \E b \in held : /\ b.run # 0 /\ m \in b.msgs
                             /\ Answers(b.run)
    <3>1. m \in S \cap Msg /\ st = "deleted"
      BY <2>1, <2>2
    <3>2. QED
      BY <1>7, <3>1
  <2>3. QED
    BY <2>1, <2>2 DEF QueueKept
<1>8. CASE Start
  <2> DEFINE e == [status |-> "running", retries |-> {}]
  <2>1. runs' = Append(runs, e) /\ UNCHANGED <<bus, queue, held, lost, slips>> /\ e \in RunRecord
    BY <1>8 DEF Start, RunRecord
  <2>2. e.status = "running" /\ e.retries = {}
    OBVIOUS
  <2> HIDE DEF e
  <2>3. /\ Run' = 1 .. (Len(runs) + 1)
        /\ runs'[Len(runs) + 1] = e
        /\ \A q \in Run : runs'[q] = runs[q]
    BY <1>1, <2>1, AppendKeeps DEF Run
  <2>4. RunsKept
    BY <1>2, <2>2, <2>3 DEF RunsKept
  <2>5. BusKept
    BY <1>2, <2>1, <2>2, <2>3 DEF BusKept, IsCaptured, Retry
  <2>6. QED
    BY <1>4, <1>5, <2>1, <2>4, <2>5
<1>9. ASSUME NEW r \in Run, NEW outcome \in Failing \cup {"SUCCEEDED"}, End(r, outcome)
      PROVE  RunsKept /\ QueueKept /\ HeldKept /\ BusKept
  <2>1. /\ Run' = Run
        /\ \A q \in Run : /\ runs'[q].retries = runs[q].retries
                          /\ runs'[q].status = IF q = r THEN outcome ELSE runs[q].status
    BY <1>1, <1>9, EndKeeps DEF End, Run
  <2>2. UNCHANGED <<queue, held, lost>> /\ runs[r].status = "running"
    BY <1>9 DEF End
  <2>3. RunsKept
    BY <2>1, <2>2 DEF RunsKept
  <2>4. bus' = IF outcome \in Captured /\ ~(Synchronous /\ Retry(r)) THEN bus \cup {r} ELSE bus
    BY <1>9 DEF End
  <2>5. BusKept
    BY <1>1, <2>1, <2>2, <2>4 DEF BusKept, IsCaptured, Retry
  <2>6. QED
    BY <1>4, <1>5, <2>2, <2>3, <2>5
<1>10. ASSUME NEW r \in bus, Deliver(r) PROVE RunsKept /\ QueueKept /\ HeldKept /\ BusKept
  <2> DEFINE e == [of |-> r, state |-> "visible"]
  <2>1. queue' = Append(queue, e) /\ UNCHANGED <<runs, held, lost>>
    BY <1>10 DEF Deliver
  <2>2. e \in MsgRecord /\ e.of = r /\ e.state = "visible"
    BY <1>1, <1>2 DEF MsgRecord, State
  <2> HIDE DEF e
  <2>3. /\ Msg' = 1 .. (Len(queue) + 1)
        /\ queue'[Len(queue) + 1] = e
        /\ \A m \in Msg : queue'[m] = queue[m]
    BY <1>1, <2>1, <2>2, AppendKeeps DEF Msg
  <2>4. QueueKept
    BY <1>2, <2>2, <2>3 DEF QueueKept
  <2>5. bus' = bus \/ bus' = bus \ {r}
    BY <1>10 DEF Deliver
  <2>6. BusKept
    BY <1>2, <2>1, <2>2, <2>3, <2>5 DEF BusKept, IsCaptured, Retry, Run
  <2>7. QED
    BY <1>3, <1>5, <2>1, <2>4, <2>6
<1>11. ASSUME NEW r \in bus, GiveUp(r) PROVE RunsKept /\ QueueKept /\ HeldKept /\ BusKept
  <2>1. UNCHANGED <<runs, queue, held>> /\ bus' = bus \ {r} /\ lost' = lost \cup {r}
    BY <1>11 DEF GiveUp
  <2>2. BusKept
    BY <2>1 DEF BusKept, IsCaptured, Retry, Run
  <2>3. QED
    BY <1>3, <1>4, <1>5, <2>1, <2>2
<1>12. ASSUME NEW B \in SUBSET Msg, Receive(B) PROVE RunsKept /\ QueueKept /\ HeldKept /\ BusKept
  <2>1. QueueKept
    BY <1>7, <1>12 DEF Receive, State
  <2>2. HeldKept
    BY <1>12 DEF Receive, HeldKept
  <2>3. QED
    BY <1>3, <1>6, <1>12, <2>1, <2>2 DEF Receive
<1>13. ASSUME NEW b \in held, Invoke(b) PROVE RunsKept /\ QueueKept /\ HeldKept /\ BusKept
  <2> DEFINE e == [status |-> "running", retries |-> {queue[m].of : m \in b.msgs}]
             c == [b EXCEPT !.run = Len(runs) + 1]
  <2>1. /\ runs' = Append(runs, e) /\ held' = (held \ {b}) \cup {c}
        /\ UNCHANGED <<bus, queue, lost, slips>>
    BY <1>13 DEF Invoke
  <2>2. b \in Batch(Msg, Run) /\ \A m \in Msg : queue[m] \in MsgRecord
    BY <1>1, <1>2
  <2>3. e.status = "running" /\ e.retries = {queue[m].of : m \in b.msgs}
    OBVIOUS
  <2>4. b.msgs \subseteq Msg /\ \A m \in Msg : queue[m].of \in Nat
    BY <2>2 DEF Batch, MsgRecord
  <2>5. e \in RunRecord
    BY <2>4 DEF RunRecord
  <2>6. c.msgs = b.msgs /\ c.run = Len(runs) + 1
    BY <2>2 DEF Batch
  <2> HIDE DEF e, c
  <2>7. /\ Run' = 1 .. (Len(runs) + 1)
        /\ runs'[Len(runs) + 1] = e
        /\ \A q \in Run : runs'[q] = runs[q]
    BY <1>1, <2>1, <2>5, AppendKeeps DEF Run
  <2>8. RunsKept
    BY <1>2, <2>3, <2>4, <2>7 DEF RunsKept
  <2>9. BusKept
    BY <1>2, <2>1, <2>3, <2>7 DEF BusKept, IsCaptured, Retry
  <2>10. c.run \in Run' /\ \A m \in b.msgs : queue[m].of \in runs'[c.run].retries
    BY <1>2, <2>3, <2>6, <2>7
  <2>11. HeldKept
    BY <2>1, <2>6, <2>10 DEF HeldKept
  <2>12. QED
    BY <1>4, <2>1, <2>8, <2>9, <2>11
<1>14. ASSUME NEW b \in held, Settle(b) PROVE RunsKept /\ QueueKept /\ HeldKept /\ BusKept
  <2>1. PICK late \in SUBSET b.late :
          queue' = SetState({m \in (b.msgs \ b.late) \cup late :
                               queue[m].state # "expired"}, "deleted")
    BY <1>14 DEF Settle
  <2>2. b.run # 0 /\ Answers(b.run)
    BY <1>14 DEF Settle, Answers
  <2>3. b.late \subseteq b.msgs
    BY <1>1 DEF Batch
  <2>4. QueueKept
    BY <1>7, <2>1, <2>2, <2>3 DEF State
  <2>5. QED
    BY <1>3, <1>5, <1>6, <1>14, <2>4 DEF Settle
<1>15. ASSUME NEW b \in held, Abandon(b) PROVE RunsKept /\ QueueKept /\ HeldKept /\ BusKept
  <2>1. QueueKept
    BY <1>7, <1>15 DEF Abandon, State
  <2>2. QED
    BY <1>3, <1>5, <1>6, <1>15, <2>1 DEF Abandon
<1>16. ASSUME NEW b \in held, NEW m \in b.msgs, Lapse(b, m)
       PROVE  RunsKept /\ QueueKept /\ HeldKept /\ BusKept
  <2> DEFINE c == [b EXCEPT !.late = @ \cup {m}]
  <2>1. QueueKept
    BY <1>7, <1>16 DEF Lapse, State
  <2>2. c.msgs = b.msgs /\ c.run = b.run
    BY <1>1 DEF Batch
  <2>3. held' = (held \ {b}) \cup {c}
    BY <1>16 DEF Lapse
  <2> HIDE DEF c
  <2>4. HeldKept
    BY <2>2, <2>3 DEF HeldKept
  <2>5. QED
    BY <1>3, <1>6, <1>16, <2>1, <2>4 DEF Lapse
<1>17. ASSUME NEW m \in Msg, Expire(m) PROVE RunsKept /\ QueueKept /\ HeldKept /\ BusKept
  <2>1. QueueKept
    BY <1>7, <1>17 DEF Expire, State
  <2>2. QED
    BY <1>3, <1>5, <1>6, <1>17, <2>1 DEF Expire
<1>18. CASE UNCHANGED vars
  BY <1>3, <1>4, <1>5, <1>6, <1>18 DEF vars
<1>19. ASSUME NEW b \in held, Reject(b) \/ Refuse(b) \/ Drop(b)
       PROVE  RunsKept /\ QueueKept /\ HeldKept /\ BusKept
  BY <1>15, <1>19 DEF Reject, Refuse, Drop
<1>20. QED
  BY <1>8, <1>9, <1>10, <1>11, <1>12, <1>13, <1>14, <1>16, <1>17, <1>18, <1>19 DEF Next, PipeNext

-----------------------------------------------------------------------------
(***************************************************************************)
(* The inductive invariant.  NothingForgotten alone is not inductive: that *)
(* a deleted message's failure was handed on needs to know that a batch's  *)
(* execution retries all of the batch (BatchesAnswered), and that a        *)
(* failure without a bus entry has a message needs Accounted.              *)
(***************************************************************************)
OnlyCaptured ==
  /\ \A r \in bus : IsCaptured(r)
  /\ \A m \in Msg : queue[m].of \in Run /\ IsCaptured(queue[m].of)

BatchesAnswered ==
  \A b \in held : b.run # 0 => \A m \in b.msgs : queue[m].of \in runs[b.run].retries

Accounted ==
  \A f \in Run : IsCaptured(f) => f \in bus \/ f \in lost \/ \E m \in Msg : queue[m].of = f

IInv ==
  /\ OnlyCaptured
  /\ BatchesAnswered
  /\ Accounted
  /\ RetriesAreOfFailures
  /\ DeletedOnlyAfterRetry

LEMMA StepInvariant ==
  TypeOK /\ TypeOK' /\ IInv /\ RunsKept /\ QueueKept /\ HeldKept /\ BusKept => IInv'
<1> SUFFICES ASSUME TypeOK, TypeOK', IInv, RunsKept, QueueKept, HeldKept, BusKept PROVE IInv'
  OBVIOUS
<1> USE PipelineAssumption
<1>1. /\ bus \subseteq Run /\ held \subseteq Batch(Msg, Run)
      /\ Run \subseteq Nat /\ Run' \subseteq Nat /\ 0 \notin Run
  BY DEF TypeOK, State, Batch, Run
<1>2. \A r \in Run : IsCaptured(r) => IsCaptured(r)'
  BY DEF RunsKept, IsCaptured, Retry
<1>3. \A r \in Run' : IsCaptured(r)' => r \in bus' \/ (r \in Run /\ IsCaptured(r))
  BY DEF BusKept
<1>4. \A m \in Msg' : queue'[m].of \in Run /\ IsCaptured(queue'[m].of)
  BY <1>1 DEF QueueKept, IInv, OnlyCaptured
<1>5. OnlyCaptured'
  <2>1. \A r \in bus' : IsCaptured(r)'
    BY <1>1, <1>2 DEF BusKept, IInv, OnlyCaptured
  <2>2. QED
    BY <1>2, <1>4, <2>1 DEF OnlyCaptured, RunsKept
<1>6. BatchesAnswered'
  <2> SUFFICES ASSUME NEW b \in held', b.run # 0, NEW m \in b.msgs
               PROVE  queue'[m].of \in runs'[b.run].retries
    BY DEF BatchesAnswered
  <2>1. CASE \E c \in held : c.msgs = b.msgs /\ c.run = b.run
    <3>1. PICK c \in held : c.msgs = b.msgs /\ c.run = b.run
      BY <2>1
    <3>2. c.run \in Run /\ m \in Msg
      BY <1>1, <3>1 DEF Batch
    <3>3. queue[m].of \in runs[c.run].retries
      BY <3>1 DEF IInv, BatchesAnswered
    <3>4. QED
      BY <3>1, <3>2, <3>3 DEF RunsKept, QueueKept
  <2>2. CASE \E c \in held : /\ c.msgs = b.msgs /\ b.run \in Run'
                           /\ \A n \in c.msgs : queue[n].of \in runs'[b.run].retries
    <3>1. PICK c \in held : /\ c.msgs = b.msgs
                           /\ \A n \in c.msgs : queue[n].of \in runs'[b.run].retries
      BY <2>2
    <3>2. m \in Msg
      BY <1>1, <3>1 DEF Batch
    <3>3. QED
      BY <3>1, <3>2 DEF QueueKept
  <2>3. QED
    BY <2>1, <2>2 DEF HeldKept
<1>7. Accounted'
  <2> SUFFICES ASSUME NEW f \in Run', IsCaptured(f)'
               PROVE  f \in bus' \/ f \in lost' \/ \E m \in Msg' : queue'[m].of = f
    BY DEF Accounted
  <2>1. CASE f \in bus'
    BY <2>1
  <2>2. CASE f \in Run /\ IsCaptured(f)
    <3>1. f \in bus \/ f \in lost \/ \E m \in Msg : queue[m].of = f
      BY <2>2 DEF IInv, Accounted
    <3>2. QED
      BY <3>1 DEF BusKept, QueueKept
  <2>3. QED
    BY <1>3, <2>1, <2>2
<1>8. RetriesAreOfFailures'
  <2> SUFFICES ASSUME NEW q \in Run', NEW f \in runs'[q].retries
               PROVE  f \in Run' /\ f < q /\ IsCaptured(f)'
    BY DEF RetriesAreOfFailures
  <2>1. CASE q \in Run
    BY <1>2, <2>1 DEF RunsKept, IInv, RetriesAreOfFailures
  <2>2. CASE q \notin Run
    BY <1>2, <2>2 DEF RunsKept, IInv, OnlyCaptured
  <2>3. QED
    BY <2>1, <2>2
<1>9. DeletedOnlyAfterRetry'
  <2>1. ASSUME NEW m \in Msg', queue'[m].state = "deleted"
        PROVE  \E q \in Run : queue'[m].of \in runs[q].retries /\ Answers(q)
    <3>1. m \in Msg /\ queue'[m].of = queue[m].of
      BY <2>1 DEF QueueKept
    <3>2. CASE queue[m].state = "deleted"
      BY <3>1, <3>2 DEF IInv, DeletedOnlyAfterRetry, Retries
    <3>3. CASE queue[m].state # "deleted"
      <4>1. PICK b \in held : b.run # 0 /\ m \in b.msgs /\ Answers(b.run)
        BY <2>1, <3>1, <3>3 DEF QueueKept
      <4>2. b.run \in Run
        BY <1>1, <4>1 DEF Batch
      <4>3. queue[m].of \in runs[b.run].retries
        BY <4>1 DEF IInv, BatchesAnswered
      <4>4. QED
        BY <3>1, <4>1, <4>2, <4>3
    <3>4. QED
      BY <3>2, <3>3
  <2>2. ASSUME NEW m \in Msg', queue'[m].state = "deleted"
        PROVE  \E q \in Run' : queue'[m].of \in runs'[q].retries
                             /\ (Synchronous => runs'[q].status = "SUCCEEDED")
    <3>1. PICK q \in Run : queue'[m].of \in runs[q].retries /\ Answers(q)
      BY <2>1, <2>2
    <3>2. q \in Run' /\ queue'[m].of \in runs'[q].retries
                             /\ (Synchronous => runs'[q].status = "SUCCEEDED")
      BY <3>1 DEF RunsKept, Answers
    <3>3. QED
      BY <3>2
  <2>3. QED
    BY <2>2 DEF DeletedOnlyAfterRetry, Retries, Answers
<1>10. QED
  BY <1>5, <1>6, <1>7, <1>8, <1>9 DEF IInv

LEMMA Invariant == Spec => [](TypeOK /\ IInv)
<1>1. Init => TypeOK /\ IInv
  BY PipelineAssumption DEF Init, TypeOK, IInv, OnlyCaptured, BatchesAnswered, Accounted,
     RetriesAreOfFailures, DeletedOnlyAfterRetry, Run, Msg
<1>2. TypeOK /\ IInv /\ [Next]_vars => (TypeOK /\ IInv)'
  BY StepTyped, StepKeeps, StepInvariant
<1>3. QED
  BY <1>1, <1>2, PTL DEF Spec

-----------------------------------------------------------------------------
(* A captured failure is somewhere, or was given up.                       *)
Known == \A f \in CapturedRuns : Owed(f) \/ Handed(f) \/ Lost(f)

LEMMA CapturedIsKnown == TypeOK /\ IInv => Known
<1> SUFFICES ASSUME TypeOK, IInv, NEW f \in CapturedRuns
             PROVE  Owed(f) \/ Handed(f) \/ Lost(f)
  BY DEF Known
<1>1. f \in Run /\ IsCaptured(f)
  BY DEF CapturedRuns
<1>2. CASE f \in bus \/ f \in lost
  BY <1>2 DEF Owed, Lost
<1>3. CASE \E m \in Msg : queue[m].of = f
  <2>1. PICK m \in Msg : queue[m].of = f
    BY <1>3
  <2>2. queue[m].state \in State
    <3>1. queue \in Seq(MsgRecord)
      BY DEF TypeOK, MsgRecord, State
    <3>2. queue[m] \in MsgRecord
      BY <3>1 DEF Msg
    <3>3. QED
      BY <3>2 DEF MsgRecord
  <2>3. CASE queue[m].state \in {"visible", "inflight"}
    BY <2>1, <2>3 DEF Owed, Live
  <2>4. CASE queue[m].state = "deleted"
    BY <2>1, <2>4 DEF IInv, DeletedOnlyAfterRetry, Handed
  <2>5. CASE queue[m].state = "expired"
    BY <2>1, <2>5 DEF Lost
  <2>6. QED
    BY <2>2, <2>3, <2>4, <2>5 DEF State
<1>4. QED
  BY <1>1, <1>2, <1>3 DEF IInv, Accounted

(***************************************************************************)
(* If every way of ending badly is captured, no failed execution is ever   *)
(* forgotten.                                                              *)
(***************************************************************************)
THEOREM NothingForgottenEver ==
  ASSUME Captured = Failing
  PROVE  Spec => []NothingForgotten
<1>1. TypeOK /\ IInv => NothingForgotten
  <2> SUFFICES ASSUME TypeOK, IInv, NEW f \in Failures
               PROVE  Owed(f) \/ Handed(f) \/ Lost(f)
    BY DEF NothingForgotten
  <2>1. f \in CapturedRuns
    BY DEF Failures, CapturedRuns, IsCaptured
  <2>2. QED
    BY <2>1, CapturedIsKnown DEF Known
<1>2. QED
  BY <1>1, Invariant, PTL

(***************************************************************************)
(* A message is deleted only when an execution answers for its failure.    *)
(***************************************************************************)
THEOREM DeletedOnlyAfterRetryEver == Spec => []DeletedOnlyAfterRetry
BY Invariant, PTL DEF IInv

(***************************************************************************)
(* The pipe reprocesses failures only, and only earlier ones.              *)
(***************************************************************************)
THEOREM RetriesAreOfFailuresEver == Spec => []RetriesAreOfFailures
BY Invariant, PTL DEF IInv

-----------------------------------------------------------------------------
(***************************************************************************)
(* The safety half of what AtLeastOnce promises: every step of the         *)
(* pipeline settles fates as AtLeastOnce allows, or leaves them alone.     *)
(***************************************************************************)

\* Nothing becomes owed: the bus only shrinks, a message is new only for a failure on
\* it, none comes back to life, and the pipe takes only messages that were owed.
NoNewDebt ==
  /\ bus' \subseteq bus
  /\ \A m \in Msg' : Live(m)' => \/ queue'[m].of \in bus
                                 \/ m \in Msg /\ queue'[m].of = queue[m].of /\ Live(m)
  /\ \A b \in held' : \A m \in b.msgs :
       /\ m \in Msg /\ queue'[m].of = queue[m].of
       /\ Live(m) \/ \E c \in held : m \in c.msgs

\* Executions keep what they retry and, once over, their outcome; a new one retries what
\* a batch holds.
NoNewWork ==
  /\ Run \subseteq Run'
  /\ \A q \in Run : /\ runs'[q].retries = runs[q].retries
                    /\ runs[q].status # "running" => runs'[q].status = runs[q].status
  /\ \A q \in Run' \ Run : \A f \in runs'[q].retries :
       \E b \in held : \E m \in b.msgs : queue[m].of = f

\* One more failure is captured, and nothing else happens.
Captures(r) ==
  /\ r \in Run /\ r \notin CapturedRuns
  /\ CapturedRuns' = CapturedRuns \cup {r}
  /\ r \in bus'
  /\ \A f : f # r => (Owed(f)' <=> Owed(f))
  /\ \A f : Handed(f)' <=> Handed(f)

LEMMA DebtShrinks ==
  ASSUME NoNewDebt, NoNewWork
  PROVE  \A f : /\ Owed(f)' => Owed(f)
                /\ Handed(f) => Handed(f)'
                /\ Handed(f)' => Handed(f) \/ Owed(f)
<1> TAKE f
<1>1. Owed(f)' => Owed(f)
  <2>1. Owed(f)' <=> \/ f \in bus'
                     \/ \E m \in Msg' : queue'[m].of = f /\ Live(m)'
                     \/ \E b \in held' : \E m \in b.msgs : queue'[m].of = f
                     \/ Synchronous /\ \E q \in Run' : f \in runs'[q].retries /\ runs'[q].status = "running"
    BY DEF Owed, Retries
  <2>2. ASSUME NEW m \in Msg', queue'[m].of = f, Live(m)' PROVE Owed(f)
    BY <2>2 DEF NoNewDebt, Owed
  <2>3. ASSUME NEW b \in held', NEW m \in b.msgs, queue'[m].of = f PROVE Owed(f)
    BY <2>3 DEF NoNewDebt, Owed
  <2>4. f \in bus' => Owed(f)
    BY DEF NoNewDebt, Owed
  <2>5. ASSUME Synchronous, NEW q \in Run', f \in runs'[q].retries, runs'[q].status = "running"
        PROVE  Owed(f)
    <3>1. CASE q \in Run
      BY <2>5, <3>1 DEF NoNewWork, Owed, Retries
    <3>2. CASE q \notin Run
      BY <2>5, <3>2 DEF NoNewWork, Owed
    <3>3. QED
      BY <3>1, <3>2
  <2>6. QED
    BY <2>1, <2>2, <2>3, <2>4, <2>5
<1>2. Handed(f) => Handed(f)'
  <2>1. ASSUME NEW q \in Retries(f), Answers(q) PROVE q \in Retries(f)' /\ Answers(q)'
    BY <2>1 DEF NoNewWork, Answers, Retries
  <2>2. QED
    BY <2>1 DEF Handed
<1>3. Handed(f)' => Handed(f) \/ Owed(f)
  <2>1. ASSUME NEW q \in Run', f \in runs'[q].retries,
               Synchronous => runs'[q].status = "SUCCEEDED"
        PROVE  Handed(f) \/ Owed(f)
    <3>1. CASE q \in Run
      <4>1. q \in Retries(f)
        BY <2>1, <3>1 DEF NoNewWork, Retries
      <4>2. CASE Synchronous /\ runs[q].status = "running"
        BY <4>1, <4>2 DEF Owed
      <4>3. CASE ~ (Synchronous /\ runs[q].status = "running")
        <5>1. Answers(q)
          BY <2>1, <3>1, <4>3 DEF NoNewWork, Answers
        <5>2. QED
          BY <4>1, <5>1 DEF Handed
      <4>4. QED
        BY <4>2, <4>3
    <3>2. CASE q \notin Run
      BY <2>1, <3>2 DEF NoNewWork, Owed
    <3>3. QED
      BY <3>1, <3>2
  <2>2. QED
    BY <2>1 DEF Handed, Retries, Answers
<1>4. QED
  BY <1>1, <1>2, <1>3

(* What one step does to the fates.                                        *)
LEMMA StepSettles ==
  ASSUME TypeOK, [Next]_vars
  PROVE  \/ \E r \in Run : Captures(r)
         \/ CapturedRuns' = CapturedRuns /\ NoNewDebt /\ NoNewWork
<1> USE PipelineAssumption
<1> DEFINE Goal == \/ \E r \in Run : Captures(r)
                   \/ CapturedRuns' = CapturedRuns /\ NoNewDebt /\ NoNewWork
<1>1. /\ runs \in Seq(RunRecord) /\ queue \in Seq(MsgRecord)
      /\ bus \subseteq Run /\ held \subseteq Batch(Msg, Run)
  BY DEF TypeOK, RunRecord, MsgRecord, State, Batch
<1>2. Run = 1 .. Len(runs) /\ Len(runs) \in Nat /\ Msg = 1 .. Len(queue) /\ Len(queue) \in Nat
  BY <1>1 DEF Run, Msg
<1>3. \A b \in held : b.msgs \subseteq Msg
  BY <1>1 DEF Batch
<1>4. UNCHANGED runs => NoNewWork /\ CapturedRuns' = CapturedRuns
  BY DEF NoNewWork, CapturedRuns, IsCaptured, Retry, Run
<1>5. UNCHANGED <<queue, held>> /\ bus' \subseteq bus => NoNewDebt
  BY <1>3 DEF NoNewDebt, Live, Msg
<1>6. ASSUME NEW e \in RunRecord, runs' = Append(runs, e), e.status = "running",
             \A f \in e.retries : \E b \in held : \E m \in b.msgs : queue[m].of = f
      PROVE  NoNewWork /\ CapturedRuns' = CapturedRuns
  <2>1. /\ Run' = 1 .. (Len(runs) + 1)
        /\ runs'[Len(runs) + 1] = e
        /\ \A q \in Run : runs'[q] = runs[q]
    BY <1>1, <1>6, AppendKeeps DEF Run
  <2>2. NoNewWork
    BY <1>2, <1>6, <2>1 DEF NoNewWork
  <2>3. \A q \in Run : IsCaptured(q)' <=> IsCaptured(q)
    BY <2>1 DEF IsCaptured, Retry
  <2>4. \A q \in Run' : q \notin Run => ~ IsCaptured(q)'
    BY <1>2, <1>6, <2>1 DEF IsCaptured
  <2>5. QED
    BY <1>2, <2>1, <2>2, <2>3, <2>4 DEF CapturedRuns
<1>7. ASSUME NEW S, NEW st \in State, queue' = SetState(S, st), bus' \subseteq bus,
             st \in {"visible", "inflight"} => \A m \in S \cap Msg : Live(m),
             \A b \in held' : (\E c \in held : b.msgs = c.msgs)
                              \/ (b.msgs \subseteq Msg /\ \A m \in b.msgs : Live(m))
      PROVE  NoNewDebt
  <2>1. /\ Msg' = Msg
        /\ \A m \in Msg : /\ queue'[m].of = queue[m].of
                          /\ queue'[m].state = IF m \in S THEN st ELSE queue[m].state
    BY <1>1, <1>7, SetStateKeeps DEF Msg
  <2>2. \A m \in Msg : Live(m)' => Live(m)
    BY <1>7, <2>1 DEF Live
  <2>3. QED
    BY <1>3, <1>7, <2>1, <2>2 DEF NoNewDebt
<1>8. CASE Start
  <2> DEFINE e == [status |-> "running", retries |-> {}]
  <2>1. /\ e \in RunRecord /\ runs' = Append(runs, e) /\ e.status = "running" /\ e.retries = {}
        /\ UNCHANGED <<bus, queue, held>>
    BY <1>8 DEF Start, RunRecord
  <2> HIDE DEF e
  <2>2. QED
    BY <1>5, <1>6, <2>1
<1>9. ASSUME NEW r \in Run, NEW outcome \in Failing \cup {"SUCCEEDED"}, End(r, outcome)
      PROVE  Goal
  <2>1. /\ Run' = Run
        /\ \A q \in Run : /\ runs'[q].retries = runs[q].retries
                          /\ runs'[q].status = IF q = r THEN outcome ELSE runs[q].status
    BY <1>1, <1>9, EndKeeps DEF End, Run
  <2>2. UNCHANGED <<queue, held>> /\ runs[r].status = "running"
    BY <1>9 DEF End
  <2>3. NoNewWork
    BY <2>1, <2>2 DEF NoNewWork
  <2>4. \A q \in Run : q # r => (IsCaptured(q)' <=> IsCaptured(q))
    BY <2>1 DEF IsCaptured, Retry
  <2>5. ~ IsCaptured(r) /\ (IsCaptured(r)' <=> outcome \in Captured /\ ~(Synchronous /\ Retry(r)))
    BY <2>1, <2>2 DEF IsCaptured, Retry
  <2>6. CASE outcome \in Captured /\ ~(Synchronous /\ Retry(r))
    <3>1. bus' = bus \cup {r}
      BY <1>9, <2>6 DEF End
    <3>2. \A f : /\ Retries(f)' = Retries(f)
                 /\ \A q \in Retries(f) : Synchronous => runs'[q].status = runs[q].status
      BY <2>1, <2>6 DEF Retries, Retry
    <3>3. \A f : Handed(f)' <=> Handed(f)
      BY <3>2 DEF Handed, Answers
    <3>4. \A f : f # r => (Owed(f)' <=> Owed(f))
      <4>1. UNCHANGED <<queue, held>>
        BY <2>2
      <4>2. \A f : (Synchronous /\ \E q \in Retries(f)' : runs'[q].status = "running")
                   <=> (Synchronous /\ \E q \in Retries(f) : runs[q].status = "running")
        BY <3>2
      <4>3. \A f : (\E m \in Msg' : queue'[m].of = f /\ Live(m)')
                   <=> \E m \in Msg : queue[m].of = f /\ Live(m)
        BY <4>1 DEF Live, Msg
      <4>4. QED
        BY <3>1, <4>1, <4>2, <4>3 DEF Owed
    <3>5. CapturedRuns' = CapturedRuns \cup {r} /\ r \notin CapturedRuns
      BY <2>1, <2>4, <2>5, <2>6 DEF CapturedRuns
    <3>6. QED
      BY <3>1, <3>3, <3>4, <3>5 DEF Captures
  <2>7. CASE ~ (outcome \in Captured /\ ~(Synchronous /\ Retry(r)))
    <3>1. bus' = bus
      BY <1>9, <2>7 DEF End
    <3>2. CapturedRuns' = CapturedRuns
      BY <2>1, <2>4, <2>5, <2>7 DEF CapturedRuns
    <3>3. QED
      BY <1>5, <2>2, <2>3, <3>1, <3>2
  <2>8. QED
    BY <2>6, <2>7
<1>10. ASSUME NEW r \in bus, Deliver(r) PROVE Goal
  <2> DEFINE e == [of |-> r, state |-> "visible"]
  <2>1. queue' = Append(queue, e) /\ UNCHANGED <<runs, held>> /\ bus' \subseteq bus
    BY <1>10 DEF Deliver
  <2>2. e \in MsgRecord /\ e.of = r
    BY <1>1, <1>2 DEF MsgRecord, State
  <2> HIDE DEF e
  <2>3. /\ Msg' = 1 .. (Len(queue) + 1)
        /\ queue'[Len(queue) + 1] = e
        /\ \A m \in Msg : queue'[m] = queue[m]
    BY <1>1, <2>1, <2>2, AppendKeeps DEF Msg
  <2>4. \A m \in Msg' : Live(m)' => queue'[m].of \in bus \/ (m \in Msg /\ queue'[m] = queue[m] /\ Live(m))
    BY <1>2, <2>2, <2>3 DEF Live
  <2>5. NoNewDebt
    BY <1>3, <2>1, <2>3, <2>4 DEF NoNewDebt
  <2>6. QED
    BY <1>4, <2>1, <2>5
<1>11. ASSUME NEW r \in bus, GiveUp(r) PROVE Goal
  BY <1>4, <1>5, <1>11 DEF GiveUp
<1>12. ASSUME NEW B \in SUBSET Msg, Receive(B) PROVE Goal
  <2>1. /\ queue' = SetState(B, "inflight") /\ UNCHANGED <<runs, bus>>
        /\ held' = held \cup {[msgs |-> B, late |-> {}, run |-> 0]}
        /\ \A m \in B : Live(m)
    BY <1>12 DEF Receive, Live
  <2>2. NoNewDebt
    BY <1>7, <2>1 DEF State
  <2>3. QED
    BY <1>4, <2>1, <2>2
<1>13. ASSUME NEW b \in held, Invoke(b) PROVE Goal
  <2> DEFINE e == [status |-> "running", retries |-> {queue[m].of : m \in b.msgs}]
             c == [b EXCEPT !.run = Len(runs) + 1]
  <2>1. /\ runs' = Append(runs, e) /\ held' = (held \ {b}) \cup {c} /\ UNCHANGED <<bus, queue>>
    BY <1>13 DEF Invoke
  <2>2. b \in Batch(Msg, Run) /\ \A m \in Msg : queue[m] \in MsgRecord
    BY <1>1, <1>2
  <2>3. e.status = "running" /\ e.retries = {queue[m].of : m \in b.msgs}
    OBVIOUS
  <2>4. e \in RunRecord
    BY <1>3, <2>2 DEF MsgRecord, RunRecord
  <2>5. c.msgs = b.msgs
    BY <2>2 DEF Batch
  <2> HIDE DEF e, c
  <2>6. NoNewWork /\ CapturedRuns' = CapturedRuns
    BY <1>6, <2>1, <2>3, <2>4
  <2>7. NoNewDebt
    BY <1>3, <2>1, <2>5 DEF NoNewDebt, Live, Msg
  <2>8. QED
    BY <2>6, <2>7
<1>14. ASSUME NEW b \in held, Settle(b) PROVE Goal
  <2>1. PICK S : queue' = SetState(S, "deleted")
    BY <1>14 DEF Settle
  <2>2. held' \subseteq held /\ UNCHANGED <<runs, bus>>
    BY <1>14 DEF Settle
  <2>3. NoNewDebt
    BY <1>7, <2>1, <2>2 DEF State
  <2>4. QED
    BY <1>4, <2>2, <2>3
<1>15. ASSUME NEW b \in held, Abandon(b) PROVE Goal
  <2>1. \A m \in Hidden(b) : Live(m)
    BY DEF Hidden, Live
  <2>2. queue' = SetState(Hidden(b), "visible") /\ held' \subseteq held /\ UNCHANGED <<runs, bus>>
    BY <1>15 DEF Abandon
  <2>3. NoNewDebt
    BY <1>7, <2>1, <2>2 DEF State
  <2>4. QED
    BY <1>4, <2>2, <2>3
<1>16. ASSUME NEW b \in held, NEW m \in b.msgs, Lapse(b, m) PROVE Goal
  <2> DEFINE c == [b EXCEPT !.late = @ \cup {m}]
  <2>1. /\ queue' = SetState({m}, "visible") /\ held' = (held \ {b}) \cup {c}
        /\ UNCHANGED <<runs, bus>> /\ Live(m)
    BY <1>16 DEF Lapse, Hidden, Live
  <2>2. c.msgs = b.msgs
    BY <1>1 DEF Batch
  <2> HIDE DEF c
  <2>3. NoNewDebt
    BY <1>7, <2>1, <2>2 DEF State
  <2>4. QED
    BY <1>4, <2>1, <2>3
<1>17. ASSUME NEW m \in Msg, Expire(m) PROVE Goal
  <2>1. queue' = SetState({m}, "expired") /\ UNCHANGED <<runs, bus, held>>
    BY <1>17 DEF Expire
  <2>2. NoNewDebt
    BY <1>7, <2>1 DEF State
  <2>3. QED
    BY <1>4, <2>1, <2>2
<1>18. CASE UNCHANGED vars
  BY <1>4, <1>5, <1>18 DEF vars
<1>19. ASSUME NEW b \in held, Reject(b) \/ Refuse(b) \/ Drop(b) PROVE Goal
  BY <1>15, <1>19 DEF Reject, Refuse, Drop
<1>20. QED
  BY <1>8, <1>9, <1>10, <1>11, <1>12, <1>13, <1>14, <1>16, <1>17, <1>18, <1>19 DEF Next, PipeNext

-----------------------------------------------------------------------------
LEMMA FateIs ==
  ASSUME TypeOK, IInv, TypeOK', IInv', NEW f
  PROVE  /\ Fate(f) = IF f \in CapturedRuns
                      THEN IF Owed(f) THEN "owed" ELSE IF Handed(f) THEN "handed" ELSE "lost"
                      ELSE "none"
         /\ Fate(f)' = IF f \in CapturedRuns'
                       THEN IF Owed(f)' THEN "owed" ELSE IF Handed(f)' THEN "handed" ELSE "lost"
                       ELSE "none"
<1>1. f \in CapturedRuns => Owed(f) \/ Handed(f) \/ Lost(f)
  BY CapturedIsKnown DEF Known
<1>2. f \in CapturedRuns' => Owed(f)' \/ Handed(f)' \/ Lost(f)'
  <2>1. Known'
    BY CapturedIsKnown, PTL
  <2>2. QED
    BY <2>1 DEF Known
<1>3. Fate(f) = IF f \in CapturedRuns
                THEN IF Owed(f) THEN "owed" ELSE IF Handed(f) THEN "handed" ELSE "lost"
                ELSE "none"
  BY <1>1 DEF Fate, CapturedRuns
<1>4. Fate(f)' = IF f \in CapturedRuns'
                 THEN IF Owed(f)' THEN "owed" ELSE IF Handed(f)' THEN "handed" ELSE "lost"
                 ELSE "none"
  BY <1>2 DEF Fate, CapturedRuns
<1>5. QED
  BY <1>3, <1>4

(***************************************************************************)
(* The deployed pipeline never breaks the promise of AtLeastOnce: a fate   *)
(* changes from none to owed when a failure is captured, and from owed to  *)
(* handed or lost, once.                                                   *)
(***************************************************************************)
THEOREM PromiseIsKept == Spec => Promise!Safe
<1> DEFINE fates == [f \in RunId |-> Fate(f)]
<1>1. Init => Promise!Init
  <2>1. Init => \A f : Fate(f) = "none"
    BY DEF Init, Fate, Run
  <2>2. QED
    BY <2>1 DEF Promise!Init
<1>2. TypeOK /\ IInv /\ [Next]_vars /\ TypeOK' /\ IInv' => [Promise!Next]_fates
  <2> SUFFICES ASSUME TypeOK, IInv, [Next]_vars, TypeOK', IInv'
               PROVE  Promise!Next \/ fates' = fates
    OBVIOUS
  <2> DEFINE Decided == {"none", "owed", "handed", "lost"}
  <2>1. fates' = [f \in RunId |-> Fate(f)'] /\ \A f : Fate(f)' \in Decided
    BY FateIs DEF RunId
  <2>2. CASE \E r \in Run : Captures(r)
    <3>1. PICK r \in Run : Captures(r)
      BY <2>2
    <3>2. \A f : f # r => Fate(f)' = Fate(f)
      BY <3>1, FateIs DEF Captures
    <3>3. Fate(r) = "none" /\ Fate(r)' = "owed"
      BY <3>1, FateIs DEF Captures, Owed
    <3>4. CASE r \in RunId
      <4>1. fates[r] = "none" /\ fates' = [fates EXCEPT ![r] = "owed"]
        BY <2>1, <3>2, <3>3, <3>4
      <4>2. QED
        BY <3>4, <4>1 DEF Promise!Next, Promise!Fail
    <3>5. CASE r \notin RunId
      BY <2>1, <3>2, <3>5
    <3>6. QED
      BY <3>4, <3>5
  <2>3. CASE CapturedRuns' = CapturedRuns /\ NoNewDebt /\ NoNewWork
    <3>1. \A f : Fate(f)' # Fate(f) => Fate(f) = "owed" /\ Fate(f)' \in {"handed", "lost"}
      BY <2>3, FateIs, DebtShrinks
    <3>2. CASE fates' # fates
      BY <2>1, <3>1, <3>2 DEF Promise!Next, Promise!Settle
    <3>3. QED
      BY <3>2
  <2>4. QED
    BY <2>2, <2>3, StepSettles
<1>3. QED
  BY <1>1, <1>2, Invariant, PTL DEF Spec, Promise!Safe

-----------------------------------------------------------------------------
(***************************************************************************)
(* Where the pipe does not wait for what it starts, nothing in the wiring  *)
(* duplicates work.  RetriesAreExcused bounds what                         *)
(* has been retried; to be inductive it has to bound as well what may yet  *)
(* be.  A failure has a claim to be retried for each of its messages that  *)
(* are left, for each batch that has lost hold of them all but is still to *)
(* be invoked, and for being on the bus; what has been retried has used a  *)
(* claim up, unless it failed, or its batch still hides the messages.      *)
(* There is one claim to begin with, and a slip makes at most one more.    *)
(***************************************************************************)

\* Of s, exchanging elements of one set for those of another makes it no larger.
LEMMA Exchange ==
  ASSUME NEW T, IsFiniteSet(T), NEW U, NEW g,
         \A x \in U \ T : g[x] \in T \ U,
         \A x, y \in U \ T : g[x] = g[y] => x = y
  PROVE  IsFiniteSet(U) /\ Cardinality(U) <= Cardinality(T)
<1> DEFINE h == [x \in U |-> IF x \in T THEN x ELSE g[x]]
<1>1. h \in Injection(U, T)
  <2>1. \A x \in U : h[x] \in T
    OBVIOUS
  <2>2. ASSUME NEW x \in U, NEW y \in U, h[x] = h[y] PROVE x = y
    <3>1. h[x] = (IF x \in T THEN x ELSE g[x]) /\ h[y] = (IF y \in T THEN y ELSE g[y])
      OBVIOUS
    <3> HIDE DEF h
    <3>2. QED
      BY <2>2, <3>1
  <2>3. h \in [U -> T]
    BY <2>1
  <2> HIDE DEF h
  <2>4. QED
    BY <2>2, <2>3 DEF Injection, IsInjective
<1>2. QED
  BY <1>1, FS_Injection

LEMMA ExchangeOne ==
  ASSUME NEW T, IsFiniteSet(T), NEW U, NEW x, U \subseteq T \cup {x},
         NEW y \in T, y \notin U
  PROVE  IsFiniteSet(U) /\ Cardinality(U) <= Cardinality(T)
<1> DEFINE g == [z \in {x} |-> y]
<1>1. /\ \A z \in U \ T : g[z] \in T \ U
      /\ \A z, w \in U \ T : g[z] = g[w] => z = w
  OBVIOUS
<1> HIDE DEF g
<1>2. QED
  BY <1>1, Exchange

LEMMA OneMore ==
  ASSUME NEW T, IsFiniteSet(T), NEW U, NEW x, U \subseteq T \cup {x}
  PROVE  IsFiniteSet(U) /\ Cardinality(U) <= Cardinality(T) + 1
<1>1. /\ IsFiniteSet(T \cup {x})
      /\ Cardinality(T \cup {x}) = IF x \in T THEN Cardinality(T) ELSE Cardinality(T) + 1
  BY FS_AddElement
<1>2. Cardinality(T) \in Nat
  BY FS_CardinalityType
<1>3. IsFiniteSet(U) /\ Cardinality(U) <= Cardinality(T \cup {x})
  BY <1>1, FS_Subset
<1>4. Cardinality(U) \in Nat
  BY <1>3, FS_CardinalityType
<1>5. QED
  BY <1>1, <1>2, <1>3, <1>4

-----------------------------------------------------------------------------
\* The messages of f that batch b hides from the queue.
HiddenOf(b, f) == {m \in b.msgs \ b.late : queue[m].state = "inflight" /\ queue[m].of = f}

Failed(q)   == Synchronous /\ runs[q].status \in Failing
Waits(q, f) == \E b \in held : b.run = q /\ HiddenOf(b, f) # {}

Spent(f) == {q \in Retries(f) : ~ Failed(q) /\ ~ Waits(q, f)}
Left(f)  == {m \in Msg : queue[m].of = f /\ Live(m)}
Empty(f) == {b \in held : /\ b.run = 0 /\ HiddenOf(b, f) = {}
                          /\ \E m \in b.msgs : queue[m].of = f}

Tokens(S, L, E, B) ==
  ({"run"} \X S) \cup ({"message"} \X L) \cup ({"batch"} \X E) \cup ({"bus"} \X B)

Claims(f) == Tokens(Spent(f), Left(f), Empty(f), bus \cap {f})

\* A message has one batch that hides it, and is not visible while one does.
HiddenOnce ==
  /\ \A b \in held : \A m \in b.msgs \ b.late : queue[m].state # "visible"
  /\ \A b, c \in held : \A m \in (b.msgs \ b.late) \cap (c.msgs \ c.late) :
       queue[m].state = "inflight" => b = c

Frugal == \A f : IsFiniteSet(Claims(f)) /\ Cardinality(Claims(f)) <= 1 + slips

LEMMA TokensAre ==
  ASSUME NEW S, NEW L, NEW E, NEW B
  PROVE  /\ \A x : <<"run", x>> \in Tokens(S, L, E, B) <=> x \in S
         /\ \A x : <<"message", x>> \in Tokens(S, L, E, B) <=> x \in L
         /\ \A x : <<"batch", x>> \in Tokens(S, L, E, B) <=> x \in E
         /\ \A x : <<"bus", x>> \in Tokens(S, L, E, B) <=> x \in B
         /\ \A t \in Tokens(S, L, E, B) :
              \/ \E x \in S : t = <<"run", x>>
              \/ \E x \in L : t = <<"message", x>>
              \/ \E x \in E : t = <<"batch", x>>
              \/ \E x \in B : t = <<"bus", x>>
BY DEF Tokens

LEMMA FewerTokens ==
  ASSUME NEW S, NEW L, NEW E, NEW B, NEW s, NEW l, NEW e, NEW b,
         s \subseteq S, l \subseteq L, e \subseteq E, b \subseteq B
  PROVE  Tokens(s, l, e, b) \subseteq Tokens(S, L, E, B)
BY DEF Tokens

\* No more claims than before, or one more at the price of a slip.
NoMore(f) ==
  IsFiniteSet(Claims(f)) =>
    /\ IsFiniteSet(Claims(f)')
    /\ \/ Cardinality(Claims(f)') <= Cardinality(Claims(f)) /\ slips' = slips
       \/ Cardinality(Claims(f)') <= Cardinality(Claims(f)) + 1 /\ slips' = slips + 1

LEMMA SubsetNoMore ==
  ASSUME NEW f, Claims(f)' \subseteq Claims(f), slips' \in {slips, slips + 1}
  PROVE  NoMore(f)
<1> SUFFICES ASSUME IsFiniteSet(Claims(f)) PROVE
      /\ IsFiniteSet(Claims(f)') /\ Cardinality(Claims(f)') <= Cardinality(Claims(f))
      /\ Cardinality(Claims(f)') <= Cardinality(Claims(f)) + 1
  BY DEF NoMore
<1> DEFINE T == Claims(f)
           U == Claims(f)'
<1>1. IsFiniteSet(T) /\ U \subseteq T
  OBVIOUS
<1> HIDE DEF T, U
<1>2. IsFiniteSet(U) /\ Cardinality(U) <= Cardinality(T)
  BY <1>1, FS_Subset
<1>3. Cardinality(U) \in Nat /\ Cardinality(T) \in Nat
  BY <1>1, <1>2, FS_CardinalityType
<1>4. QED
  BY <1>2, <1>3 DEF T, U

LEMMA SlipNoMore ==
  ASSUME NEW f, NEW x, Claims(f)' \subseteq Claims(f) \cup {x}, slips' = slips + 1
  PROVE  NoMore(f)
<1> DEFINE T == Claims(f)
           U == Claims(f)'
<1>1. U \subseteq T \cup {x}
  OBVIOUS
<1> HIDE DEF T, U
<1>2. IsFiniteSet(T) => IsFiniteSet(U) /\ Cardinality(U) <= Cardinality(T) + 1
  BY <1>1, OneMore
<1>3. QED
  BY <1>2 DEF T, U, NoMore

LEMMA ExchangeNoMore ==
  ASSUME NEW f, NEW x, Claims(f)' \subseteq Claims(f) \cup {x},
         NEW y \in Claims(f), y \notin Claims(f)', slips' = slips
  PROVE  NoMore(f)
<1> DEFINE T == Claims(f)
           U == Claims(f)'
<1>1. U \subseteq T \cup {x} /\ y \in T /\ y \notin U
  OBVIOUS
<1> HIDE DEF T, U
<1>2. IsFiniteSet(T) => IsFiniteSet(U) /\ Cardinality(U) <= Cardinality(T)
  BY <1>1, ExchangeOne
<1>3. QED
  BY <1>2 DEF T, U, NoMore

-----------------------------------------------------------------------------
LEMMA Shape ==
  ASSUME TypeOK
  PROVE  /\ runs \in Seq(RunRecord) /\ queue \in Seq(MsgRecord)
         /\ Run = 1 .. Len(runs) /\ Len(runs) \in Nat
         /\ Msg = 1 .. Len(queue) /\ Len(queue) \in Nat
         /\ \A b \in held : b.msgs \subseteq Msg /\ b.late \subseteq b.msgs /\ b.run \in Run \cup {0}
         /\ bus \subseteq Run /\ slips \in Nat
<1>1. runs \in Seq(RunRecord) /\ queue \in Seq(MsgRecord) /\ bus \subseteq Run /\ slips \in Nat
  BY DEF TypeOK, RunRecord, MsgRecord, State
<1>2. \A b \in held : b.msgs \subseteq Msg /\ b.late \subseteq b.msgs /\ b.run \in Run \cup {0}
  BY DEF TypeOK
<1>3. QED
  BY <1>1, <1>2 DEF Run, Msg

(* What the steps that leave the executions alone do to claims is up to    *)
(* the batches that wait and the messages that are left.                   *)
LEMMA SameRuns ==
  ASSUME UNCHANGED runs, NEW f
  PROVE  /\ Retries(f)' = Retries(f)
         /\ \A q : Failed(q)' = Failed(q)
         /\ (\A q : Waits(q, f) => Waits(q, f)') => Spent(f)' \subseteq Spent(f)
BY DEF Retries, Failed, Spent, Run

LEMMA SameQueue ==
  ASSUME UNCHANGED <<queue, held>>, NEW f
  PROVE  /\ Left(f)' = Left(f) /\ Empty(f)' = Empty(f)
         /\ \A q : Waits(q, f)' = Waits(q, f)
BY DEF Left, Empty, Waits, HiddenOf, Live, Msg

LEMMA StartClaims ==
  ASSUME TypeOK, Start, NEW f
  PROVE  NoMore(f)
<1> DEFINE e == [status |-> "running", retries |-> {}]
<1>1. runs' = Append(runs, e) /\ UNCHANGED <<bus, queue, held, lost, slips>> /\ e \in RunRecord
  BY DEF Start, RunRecord
<1>2. e.retries = {}
  OBVIOUS
<1> HIDE DEF e
<1>3. /\ Run' = 1 .. (Len(runs) + 1)
      /\ runs'[Len(runs) + 1] = e
      /\ \A q \in Run : runs'[q] = runs[q]
  BY <1>1, Shape, AppendKeeps DEF Run
<1>4. Retries(f)' = Retries(f) /\ \A q \in Retries(f) : Failed(q)' = Failed(q)
  BY <1>2, <1>3, Shape DEF Retries, Failed
<1>5. Spent(f)' = Spent(f)
  BY <1>1, <1>4, SameQueue DEF Spent
<1>6. Claims(f)' = Claims(f)
  BY <1>1, <1>5, SameQueue DEF Claims
<1>7. QED
  BY <1>1, <1>6, SubsetNoMore

(* Only failures that are captured have claims.                            *)
LEMMA NoClaims ==
  ASSUME TypeOK, IInv, NEW f, ~ (f \in Run /\ IsCaptured(f))
  PROVE  Claims(f) = {}
<1>1. f \notin bus /\ \A m \in Msg : queue[m].of # f
  BY Shape DEF IInv, OnlyCaptured
<1>2. Retries(f) = {}
  BY DEF IInv, RetriesAreOfFailures, Retries
<1>3. Spent(f) = {} /\ Left(f) = {} /\ bus \cap {f} = {}
  BY <1>1, <1>2 DEF Spent, Left
<1>4. Empty(f) = {}
  BY <1>1, Shape DEF Empty
<1>5. QED
  BY <1>3, <1>4 DEF Claims, Tokens

LEMMA EndClaims ==
  ASSUME TypeOK, IInv, NEW r \in Run, NEW outcome \in Failing \cup {"SUCCEEDED"}, End(r, outcome),
         NEW f, IsFiniteSet(Claims(f)), Cardinality(Claims(f)) <= 1 + slips
  PROVE  IsFiniteSet(Claims(f)') /\ Cardinality(Claims(f)') <= 1 + slips'
<1>1. /\ Run' = Run
      /\ \A q \in Run : /\ runs'[q].retries = runs[q].retries
                        /\ runs'[q].status = IF q = r THEN outcome ELSE runs[q].status
  BY Shape, EndKeeps DEF End, Run
<1>2. UNCHANGED <<queue, held, lost, slips>> /\ runs[r].status = "running"
  BY DEF End
<1>3. Retries(f)' = Retries(f) /\ \A q \in Retries(f) : Failed(q) => Failed(q)'
  BY <1>1, <1>2, PipelineAssumption DEF Retries, Failed
<1>4. Spent(f)' \subseteq Spent(f)
  BY <1>2, <1>3, SameQueue DEF Spent
<1>5. CASE bus' \cap {f} \subseteq bus
  <2>1. bus' \cap {f} \subseteq bus \cap {f}
    BY <1>5
  <2>2. Claims(f)' \subseteq Claims(f)
    BY <1>2, <1>4, <2>1, SameQueue, FewerTokens DEF Claims
  <2>3. NoMore(f)
    BY <1>2, <2>2, SubsetNoMore
  <2>4. Cardinality(Claims(f)) \in Nat /\ slips \in Nat
    BY Shape, FS_CardinalityType
  <2>5. IsFiniteSet(Claims(f)') /\ Cardinality(Claims(f)') <= Cardinality(Claims(f))
    BY <1>2, <2>3, Shape DEF NoMore
  <2>6. Cardinality(Claims(f)') \in Nat
    BY <2>5, FS_CardinalityType
  <2>7. QED
    BY <1>2, <2>4, <2>5, <2>6
<1>6. CASE ~ (bus' \cap {f} \subseteq bus)
  <2>1. f = r /\ bus' \cap {f} = {f}
    BY <1>6 DEF End
  <2>2. ~ IsCaptured(f)
    BY <1>2, <2>1, PipelineAssumption DEF IsCaptured
  <2>3. Claims(f) = {}
    BY <2>2, NoClaims
  <2>4. Spent(f) = {} /\ Left(f) = {} /\ Empty(f) = {}
    <3>1. Tokens(Spent(f), Left(f), Empty(f), bus \cap {f}) = {}
      BY <2>3 DEF Claims
    <3>2. /\ \A x \in Spent(f) : <<"run", x>> \in {}
          /\ \A x \in Left(f) : <<"message", x>> \in {}
          /\ \A x \in Empty(f) : <<"batch", x>> \in {}
      <4> DEFINE S == Spent(f)
                 L == Left(f)
                 E == Empty(f)
                 B == bus \cap {f}
      <4>1. Tokens(S, L, E, B) = {}
        BY <3>1
      <4> HIDE DEF S, L, E, B
      <4>2. /\ \A x : <<"run", x>> \in Tokens(S, L, E, B) <=> x \in S
            /\ \A x : <<"message", x>> \in Tokens(S, L, E, B) <=> x \in L
            /\ \A x : <<"batch", x>> \in Tokens(S, L, E, B) <=> x \in E
        BY TokensAre, Zenon
      <4>3. /\ \A x \in S : <<"run", x>> \in {}
            /\ \A x \in L : <<"message", x>> \in {}
            /\ \A x \in E : <<"batch", x>> \in {}
        BY <4>1, <4>2
      <4>4. QED
        BY <4>3 DEF S, L, E
    <3>3. QED
      BY <3>2
  <2>5. Claims(f)' = Tokens({}, {}, {}, {f})
    <3>1. Spent(f)' = {} /\ Left(f)' = {} /\ Empty(f)' = {}
      BY <1>2, <1>4, <2>4, SameQueue
    <3>2. QED
      BY <2>1, <3>1 DEF Claims
  <2>6. Claims(f)' = {<<"bus", f>>}
    BY <2>5 DEF Tokens
  <2>7. IsFiniteSet({<<"bus", f>>}) /\ Cardinality({<<"bus", f>>}) = 1
    BY FS_Singleton
  <2>8. QED
    BY <1>2, <2>6, <2>7, Shape
<1>7. QED
  BY <1>5, <1>6

LEMMA DeliverClaims ==
  ASSUME TypeOK, NEW r \in bus, Deliver(r), NEW f
  PROVE  NoMore(f)
<1> DEFINE e == [of |-> r, state |-> "visible"]
           n == Len(queue) + 1
<1>1. e \in MsgRecord /\ e.of = r
  BY Shape DEF MsgRecord, State
<1>2. queue' = Append(queue, e) /\ UNCHANGED <<runs, held, lost>>
  BY DEF Deliver
<1> HIDE DEF e
<1>3. /\ Msg' = 1 .. n /\ n \notin Msg /\ Msg' = Msg \cup {n}
      /\ queue'[n] = e /\ \A m \in Msg : queue'[m] = queue[m]
  BY <1>1, <1>2, Shape, AppendKeeps DEF Msg
<1> HIDE DEF n
<1>4. \A b \in held : HiddenOf(b, f)' = HiddenOf(b, f)
  BY <1>3, Shape DEF HiddenOf
<1>5. (\A q : Waits(q, f)' = Waits(q, f)) /\ Empty(f)' = Empty(f)
  <2>1. \A q : Waits(q, f)' = Waits(q, f)
    BY <1>2, <1>4 DEF Waits
  <2>2. \A b \in held : (\E m \in b.msgs : queue'[m].of = f) <=> \E m \in b.msgs : queue[m].of = f
    BY <1>3, Shape
  <2>3. Empty(f)' = Empty(f)
    BY <1>2, <1>4, <2>2 DEF Empty
  <2>4. QED
    BY <2>1, <2>3
<1>6. Spent(f)' \subseteq Spent(f)
  BY <1>2, <1>5, SameRuns
<1>7. Left(f)' \subseteq Left(f) \cup {n} /\ (f # r => Left(f)' \subseteq Left(f))
  BY <1>1, <1>3 DEF Left, Live
<1>8. bus' \cap {f} \subseteq bus \cap {f}
  BY DEF Deliver
<1>9. Claims(f)' \subseteq Claims(f) \cup {<<"message", n>>}
  BY <1>5, <1>6, <1>7, <1>8 DEF Claims, Tokens
<1>10. CASE f # r
  <2>1. Claims(f)' \subseteq Claims(f)
    BY <1>5, <1>6, <1>7, <1>8, <1>10, FewerTokens DEF Claims
  <2>2. slips' \in {slips, slips + 1}
    BY DEF Deliver, Slip
  <2>3. QED
    BY <2>1, <2>2, SubsetNoMore
<1>11. CASE f = r /\ bus' = bus \ {r} /\ UNCHANGED slips
  <2>1. <<"bus", f>> \in Claims(f)
    BY <1>11, TokensAre DEF Claims
  <2>2. bus' \cap {f} = {}
    BY <1>11
  <2>3. Claims(f)' = Tokens(Spent(f)', Left(f)', Empty(f)', {})
    BY <2>2 DEF Claims
  <2>4. <<"bus", f>> \notin Claims(f)'
    BY <2>3, TokensAre
  <2>5. QED
    BY <1>9, <1>11, <2>1, <2>4, ExchangeNoMore
<1>12. CASE Slip
  BY <1>9, <1>12, SlipNoMore DEF Slip
<1>13. QED
  BY <1>10, <1>11, <1>12 DEF Deliver

LEMMA GiveUpClaims ==
  ASSUME NEW r \in bus, GiveUp(r), NEW f
  PROVE  NoMore(f)
<1>1. UNCHANGED <<runs, queue, held>> /\ bus' \cap {f} \subseteq bus \cap {f} /\ slips' = slips + 1
  BY DEF GiveUp, Slip
<1>2. Spent(f)' \subseteq Spent(f) /\ Left(f)' = Left(f) /\ Empty(f)' = Empty(f)
  BY <1>1, SameRuns, SameQueue
<1>3. Claims(f)' \subseteq Claims(f)
  BY <1>1, <1>2, FewerTokens DEF Claims
<1>4. QED
  BY <1>1, <1>3, SubsetNoMore

-----------------------------------------------------------------------------
(* What a batch hides changes only as the state of its messages does.      *)
LEMMA StatesSet ==
  ASSUME TypeOK, NEW S, NEW st \in State, queue' = SetState(S, st)
  PROVE  /\ Msg' = Msg
         /\ \A m \in Msg : /\ queue'[m].of = queue[m].of
                           /\ queue'[m].state = IF m \in S THEN st ELSE queue[m].state
BY Shape, SetStateKeeps DEF Msg

LEMMA HiddenStays ==
  ASSUME TypeOK, NEW S, NEW st \in State, queue' = SetState(S, st),
         NEW c \in held, \A m \in c.msgs \ c.late : queue[m].state = "inflight" => m \notin S,
         st # "inflight" \/ \A m \in c.msgs \ c.late : m \notin S,
         NEW f
  PROVE  HiddenOf(c, f)' = HiddenOf(c, f)
<1>1. \A m \in c.msgs \ c.late : m \in Msg
  BY Shape
<1>2. \A m \in c.msgs \ c.late :
        (queue'[m].state = "inflight" /\ queue'[m].of = f) <=> (queue[m].state = "inflight" /\ queue[m].of = f)
  BY <1>1, StatesSet
<1>3. QED
  BY <1>2 DEF HiddenOf

LEMMA ReceiveClaims ==
  ASSUME TypeOK, HiddenOnce, NEW B \in SUBSET Msg, Receive(B), NEW f
  PROVE  NoMore(f)
<1> DEFINE n == [msgs |-> B, late |-> {}, run |-> 0]
<1>1. /\ queue' = SetState(B, "inflight") /\ held' = held \cup {n}
      /\ UNCHANGED <<runs, bus, lost, slips>>
      /\ \A m \in B : queue[m].state = "visible"
  BY DEF Receive
<1>2. n.msgs = B /\ n.late = {} /\ n.run = 0
  OBVIOUS
<1> HIDE DEF n
<1>3. /\ Msg' = Msg
      /\ \A m \in Msg : /\ queue'[m].of = queue[m].of
                        /\ queue'[m].state = IF m \in B THEN "inflight" ELSE queue[m].state
  BY <1>1, StatesSet DEF State
<1>4. ASSUME NEW c \in held PROVE HiddenOf(c, f)' = HiddenOf(c, f)
  <2>1. \A m \in c.msgs \ c.late : m \notin B
    BY <1>1 DEF HiddenOnce
  <2>2. QED
    BY <1>1, <2>1, HiddenStays DEF State
<1>5. \A q : Waits(q, f) => Waits(q, f)'
  BY <1>1, <1>4 DEF Waits
<1>6. Spent(f)' \subseteq Spent(f)
  BY <1>1, <1>5, SameRuns
<1>7. Left(f)' = Left(f)
  BY <1>1, <1>3 DEF Left, Live
<1>8. Empty(f)' \subseteq Empty(f)
  <2>1. n \notin Empty(f)'
    <3>1. SUFFICES ASSUME NEW m \in B, queue'[m].of = f PROVE HiddenOf(n, f)' # {}
      BY <1>2 DEF Empty
    <3>2. m \in HiddenOf(n, f)'
      BY <1>2, <1>3, <3>1 DEF HiddenOf
    <3>3. QED
      BY <3>2
  <2>2. \A c \in held : c \in Empty(f)' => c \in Empty(f)
    BY <1>3, <1>4, Shape DEF Empty
  <2>3. QED
    BY <1>1, <2>1, <2>2 DEF Empty
<1>9. Claims(f)' \subseteq Claims(f)
  BY <1>1, <1>6, <1>7, <1>8, FewerTokens DEF Claims
<1>10. QED
  BY <1>1, <1>9, SubsetNoMore

LEMMA InvokeClaims ==
  ASSUME TypeOK, NEW b \in held, Invoke(b), NEW f
  PROVE  NoMore(f)
<1> DEFINE e == [status |-> "running", retries |-> {queue[m].of : m \in b.msgs}]
<1>0. PICK n : n = Len(runs) + 1
  OBVIOUS
<1> DEFINE c == [b EXCEPT !.run = n]
<1>1. /\ runs' = Append(runs, e) /\ held' = (held \ {b}) \cup {c} /\ b.run = 0
      /\ UNCHANGED <<bus, queue, lost, slips>>
  BY <1>0 DEF Invoke
<1>2. e.status = "running" /\ e.retries = {queue[m].of : m \in b.msgs} /\ e \in RunRecord
  <2>1. \A m \in b.msgs : queue[m] \in MsgRecord
    BY Shape
  <2>2. QED
    BY <2>1 DEF MsgRecord, RunRecord
<1>3. c.msgs = b.msgs /\ c.late = b.late /\ c.run = n
  BY DEF TypeOK
<1> HIDE DEF e, c
<1>4. /\ Run' = Run \cup {n} /\ n \notin Run /\ n # 0
      /\ runs'[n] = e /\ \A q \in Run : runs'[q] = runs[q]
  BY <1>0, <1>1, <1>2, Shape, AppendKeeps DEF Run
<1>5. /\ \A d : HiddenOf(d, f)' = HiddenOf(d, f)
      /\ HiddenOf(c, f) = HiddenOf(b, f)
  BY <1>1, <1>3 DEF HiddenOf
<1>6. ASSUME NEW q \in Run PROVE Waits(q, f)' <=> Waits(q, f)
  <2>1. q # 0 /\ q # n
    BY <1>4, Shape
  <2>2. QED
    BY <1>1, <1>3, <1>5, <2>1 DEF Waits
<1>7. \A q \in Run : /\ q \in Retries(f)' <=> q \in Retries(f)
                     /\ Failed(q)' = Failed(q)
  BY <1>4 DEF Retries, Failed
<1>8. Retries(f)' \subseteq Run' /\ Retries(f) \subseteq Run
  BY DEF Retries
<1>9. Spent(f)' \subseteq Spent(f) \cup {n}
  BY <1>4, <1>6, <1>7, <1>8 DEF Spent
<1>10. n \in Spent(f)' => b \in Empty(f)
  <2>1. SUFFICES ASSUME n \in Retries(f)', ~ Waits(n, f)' PROVE b \in Empty(f)
    BY DEF Spent
  <2>2. f \in e.retries
    BY <1>4, <2>1 DEF Retries
  <2>3. \E m \in b.msgs : queue[m].of = f
    BY <1>2, <2>2
  <2>4. c \in held'
    BY <1>1
  <2>5. HiddenOf(c, f)' = {}
    BY <1>3, <2>1, <2>4 DEF Waits
  <2>6. QED
    BY <1>1, <1>5, <2>3, <2>5 DEF Empty
<1>11. Left(f)' = Left(f)
  BY <1>1 DEF Left, Live, Msg
<1>12. Empty(f)' \subseteq Empty(f) /\ b \notin Empty(f)'
  BY <1>1, <1>3, <1>4, <1>5 DEF Empty
<1>13. CASE n \notin Spent(f)'
  <2>1. Spent(f)' \subseteq Spent(f)
    BY <1>9, <1>13
  <2>2. Claims(f)' \subseteq Claims(f)
    BY <1>1, <1>11, <1>12, <2>1, FewerTokens DEF Claims
  <2>3. QED
    BY <1>1, <2>2, SubsetNoMore
<1>14. CASE n \in Spent(f)'
  <2>1. Claims(f)' \subseteq Claims(f) \cup {<<"run", n>>}
    BY <1>1, <1>9, <1>11, <1>12 DEF Claims, Tokens
  <2>2. <<"batch", b>> \in Claims(f)
    BY <1>10, <1>14, TokensAre DEF Claims
  <2>3. Claims(f)' = Tokens(Spent(f)', Left(f)', Empty(f)', bus' \cap {f})
    BY DEF Claims
  <2>4. <<"batch", b>> \notin Claims(f)'
    BY <1>12, <2>3, TokensAre
  <2>5. QED
    BY <1>1, <2>1, <2>2, <2>4, ExchangeNoMore
<1>15. QED
  BY <1>13, <1>14

(* The messages that die pay for the batches that lose hold of them.       *)
LEMMA DyingClaims ==
  ASSUME TypeOK, HiddenOnce, NEW S, NEW st \in {"deleted", "expired"},
         queue' = SetState(S, st), UNCHANGED <<runs, bus, slips>>,
         held' \subseteq held, NEW f,
         \A c \in held \ held' : c.run # 0 /\ HiddenOf(c, f) \subseteq S
  PROVE  NoMore(f)
<1> DEFINE Holds(c) == c \in held /\ HiddenOf(c, f) # {} /\ HiddenOf(c, f) \subseteq S
           Holder(t) == IF t[1] = "run" THEN CHOOSE c : Holds(c) /\ c.run = t[2] ELSE t[2]
           Victim(c) == CHOOSE m : m \in HiddenOf(c, f)
           T == Claims(f)
           U == Claims(f)'
           g == [t \in U |-> <<"message", Victim(Holder(t))>>]
<1>1. /\ Msg' = Msg
      /\ \A m \in Msg : /\ queue'[m].of = queue[m].of
                        /\ queue'[m].state = IF m \in S THEN st ELSE queue[m].state
  BY StatesSet DEF State
<1>2. Left(f)' \subseteq Left(f)
  BY <1>1 DEF Left, Live
<1>3. ASSUME NEW c \in held, HiddenOf(c, f) # {}, HiddenOf(c, f)' = {} PROVE Holds(c)
  <2>1. \A m \in HiddenOf(c, f) : m \in S
    <3>1. SUFFICES ASSUME NEW m \in HiddenOf(c, f), m \notin S PROVE FALSE
      OBVIOUS
    <3>2. m \in Msg
      BY Shape DEF HiddenOf
    <3>3. m \in HiddenOf(c, f)'
      BY <1>1, <3>1, <3>2 DEF HiddenOf
    <3>4. QED
      BY <1>3, <3>3
  <2>2. QED
    BY <1>3, <2>1
<1>4. \A q \in Spent(f)' \ Spent(f) : q \in Run /\ \E c : Holds(c) /\ c.run = q
  <2>1. SUFFICES ASSUME NEW q \in Spent(f)' \ Spent(f) PROVE q \in Run /\ \E c : Holds(c) /\ c.run = q
    OBVIOUS
  <2>2. q \in Run /\ Waits(q, f) /\ ~ Waits(q, f)'
    BY SameRuns DEF Spent, Retries
  <2>3. PICK c \in held : c.run = q /\ HiddenOf(c, f) # {}
    BY <2>2 DEF Waits
  <2>4. CASE c \in held'
    <3>1. HiddenOf(c, f)' = {}
      BY <2>2, <2>3, <2>4 DEF Waits
    <3>2. QED
      BY <1>3, <2>2, <2>3, <3>1
  <2>5. CASE c \notin held'
    BY <2>2, <2>3, <2>5
  <2>6. QED
    BY <2>4, <2>5
<1>5. \A c \in Empty(f)' \ Empty(f) : Holds(c) /\ c.run = 0
  <2>1. SUFFICES ASSUME NEW c \in Empty(f)', c \notin Empty(f) PROVE Holds(c) /\ c.run = 0
    OBVIOUS
  <2>2. c \in held /\ c.run = 0 /\ HiddenOf(c, f)' = {} /\ \E m \in c.msgs : queue'[m].of = f
    BY <2>1 DEF Empty
  <2>3. \E m \in c.msgs : queue[m].of = f
    BY <1>1, <2>2, Shape
  <2>4. HiddenOf(c, f) # {}
    BY <2>1, <2>2, <2>3 DEF Empty
  <2>5. QED
    BY <1>3, <2>2, <2>4
<1> HIDE DEF Holds
<1>6. ASSUME NEW t \in U \ T
      PROVE  /\ Holds(Holder(t))
             /\ \/ t = <<"run", Holder(t).run>> /\ Holder(t).run # 0
                \/ t = <<"batch", Holder(t)>> /\ Holder(t).run = 0
  <2>1. \/ \E q \in Spent(f)' \ Spent(f) : t = <<"run", q>>
        \/ \E c \in Empty(f)' \ Empty(f) : t = <<"batch", c>>
    <3>1. U = Tokens(Spent(f)', Left(f)', Empty(f)', bus \cap {f})
      BY DEF Claims
    <3>2. T = Tokens(Spent(f), Left(f), Empty(f), bus \cap {f})
      BY DEF Claims
    <3> DEFINE s1 == Spent(f)'
               l1 == Left(f)'
               e1 == Empty(f)'
               s0 == Spent(f)
               l0 == Left(f)
               e0 == Empty(f)
               b0 == bus \cap {f}
    <3>3. U = Tokens(s1, l1, e1, b0) /\ T = Tokens(s0, l0, e0, b0) /\ l1 \subseteq l0
      BY <1>2, <3>1, <3>2
    <3>4. t \in U /\ t \notin T
      OBVIOUS
    <3> HIDE DEF s0, l0, e0, s1, l1, e1, b0, T, U
    <3>5. t \in Tokens(s1, l1, e1, b0) /\ t \notin Tokens(s0, l0, e0, b0)
      BY <3>3, <3>4
    <3>6. \/ \E q \in s1 \ s0 : t = <<"run", q>>
          \/ \E c \in e1 \ e0 : t = <<"batch", c>>
      BY <3>3, <3>5 DEF Tokens
    <3>7. QED
      BY <3>6 DEF s0, s1, e0, e1
  <2>2. ASSUME NEW q \in Spent(f)' \ Spent(f), t = <<"run", q>>
        PROVE  Holds(Holder(t)) /\ t = <<"run", Holder(t).run>> /\ Holder(t).run # 0
    <3>1. Holder(t) = CHOOSE c : Holds(c) /\ c.run = q
      BY <2>2
    <3>2. Holds(Holder(t)) /\ Holder(t).run = q
      <4>1. \E c : Holds(c) /\ c.run = q
        BY <1>4
      <4> DEFINE w == CHOOSE c : Holds(c) /\ c.run = q
      <4>2. Holds(w) /\ w.run = q
        BY <4>1, Zenon
      <4> HIDE DEF w
      <4>3. Holder(t) = w
        BY <3>1 DEF w
      <4> HIDE DEF Holder
      <4>4. QED
        BY <4>2, <4>3
    <3>3. q # 0
      BY <1>4, Shape
    <3>4. QED
      BY <2>2, <3>2, <3>3
  <2>3. ASSUME NEW c \in Empty(f)' \ Empty(f), t = <<"batch", c>>
        PROVE  Holds(Holder(t)) /\ t = <<"batch", Holder(t)>> /\ Holder(t).run = 0
    <3>1. Holder(t) = c
      BY <2>3
    <3>2. QED
      BY <1>5, <2>3, <3>1
  <2>4. QED
    BY <2>1, <2>2, <2>3
<1>7. ASSUME NEW c, Holds(c)
      PROVE  /\ Victim(c) \in HiddenOf(c, f) /\ Victim(c) \in Left(f) /\ Victim(c) \notin Left(f)'
             /\ Victim(c) \in c.msgs \ c.late /\ queue[Victim(c)].state = "inflight" /\ c \in held
  <2>1. c \in held /\ HiddenOf(c, f) # {} /\ HiddenOf(c, f) \subseteq S
    BY <1>7 DEF Holds
  <2>2. \E m : m \in HiddenOf(c, f)
    BY <2>1
  <2>3. Victim(c) \in HiddenOf(c, f)
    BY <2>2, Zenon
  <2> HIDE DEF Victim
  <2>4. /\ Victim(c) \in c.msgs \ c.late /\ queue[Victim(c)].state = "inflight"
        /\ queue[Victim(c)].of = f /\ Victim(c) \in S
    BY <2>1, <2>3 DEF HiddenOf
  <2>5. Victim(c) \in Msg
    BY <2>1, <2>4, Shape
  <2>6. QED
    BY <1>1, <2>1, <2>3, <2>4, <2>5 DEF Left, Live
<1> HIDE DEF Victim, Holder
<1>8. \A t \in U \ T : g[t] \in T \ U
  <2>1. SUFFICES ASSUME NEW t \in U \ T PROVE g[t] \in T \ U
    OBVIOUS
  <2> DEFINE v == Victim(Holder(t))
  <2>2. v \in Left(f) /\ v \notin Left(f)'
    BY <1>6, <1>7
  <2>3. g[t] = <<"message", v>>
    OBVIOUS
  <2> HIDE DEF v, g
  <2>4. <<"message", v>> \in T
    BY <2>2, TokensAre DEF Claims
  <2>5. U = Tokens(Spent(f)', Left(f)', Empty(f)', bus' \cap {f})
    BY DEF Claims
  <2>6. <<"message", v>> \notin U
    BY <2>2, <2>5, TokensAre
  <2>7. QED
    BY <2>3, <2>4, <2>6
<1>9. \A t, u \in U \ T : g[t] = g[u] => t = u
  <2>1. SUFFICES ASSUME NEW t \in U \ T, NEW u \in U \ T, g[t] = g[u] PROVE t = u
    OBVIOUS
  <2>2. Victim(Holder(t)) = Victim(Holder(u))
    BY <2>1
  <2>3. Holder(t) = Holder(u)
    BY <1>6, <1>7, <2>2 DEF HiddenOnce
  <2>4. QED
    BY <1>6, <2>3
<1> HIDE DEF g, T, U
<1>10. IsFiniteSet(T) => IsFiniteSet(U) /\ Cardinality(U) <= Cardinality(T)
  BY <1>8, <1>9, Exchange
<1>11. QED
  BY <1>10 DEF NoMore, T, U

LEMMA SettleClaims ==
  ASSUME TypeOK, HiddenOnce, NEW b \in held, Settle(b), NEW f
  PROVE  NoMore(f)
<1>1. PICK late \in SUBSET b.late :
        queue' = SetState({m \in (b.msgs \ b.late) \cup late : queue[m].state # "expired"}, "deleted")
  BY DEF Settle
<1> DEFINE S == {m \in (b.msgs \ b.late) \cup late : queue[m].state # "expired"}
<1>2. held' = held \ {b} /\ b.run # 0 /\ UNCHANGED <<runs, bus, slips>>
  BY DEF Settle
<1>3. HiddenOf(b, f) \subseteq S
  BY DEF HiddenOf
<1>4. queue' = SetState(S, "deleted")
  BY <1>1
<1> HIDE DEF S
<1>5. held' \subseteq held /\ \A c \in held \ held' : c.run # 0 /\ HiddenOf(c, f) \subseteq S
  BY <1>2, <1>3
<1>6. QED
  BY <1>2, <1>4, <1>5, DyingClaims

LEMMA ExpireClaims ==
  ASSUME TypeOK, HiddenOnce, NEW m \in Msg, Expire(m), NEW f
  PROVE  NoMore(f)
<1>1. queue' = SetState({m}, "expired") /\ UNCHANGED <<runs, bus, held, slips>>
  BY DEF Expire
<1>2. held' \subseteq held /\ \A c \in held \ held' : c.run # 0 /\ HiddenOf(c, f) \subseteq {m}
  BY <1>1
<1>3. QED
  BY <1>1, <1>2, DyingClaims

(* A batch that is abandoned, or loses a message, leaves the others alone. *)
LEMMA OthersHide ==
  ASSUME TypeOK, HiddenOnce, NEW b \in held, NEW S \in SUBSET Hidden(b),
         queue' = SetState(S, "visible"), NEW f
  PROVE  /\ Msg' = Msg /\ Left(f)' = Left(f)
         /\ \A m \in Msg : queue'[m].of = queue[m].of
         /\ \A c \in held : c # b => HiddenOf(c, f)' = HiddenOf(c, f)
<1>1. /\ Msg' = Msg
      /\ \A m \in Msg : /\ queue'[m].of = queue[m].of
                        /\ queue'[m].state = IF m \in S THEN "visible" ELSE queue[m].state
  BY StatesSet DEF State
<1>2. \A m \in S : m \in b.msgs \ b.late /\ queue[m].state = "inflight"
  BY DEF Hidden
<1>3. Left(f)' = Left(f)
  BY <1>1, <1>2 DEF Left, Live
<1>4. ASSUME NEW c \in held, c # b PROVE HiddenOf(c, f)' = HiddenOf(c, f)
  <2>1. \A m \in c.msgs \ c.late : queue[m].state = "inflight" => m \notin S
    BY <1>2, <1>4 DEF HiddenOnce
  <2>2. QED
    BY <2>1, HiddenStays DEF State
<1>5. QED
  BY <1>1, <1>3, <1>4

LEMMA AbandonClaims ==
  ASSUME TypeOK, HiddenOnce, NEW b \in held, Abandon(b),
         Slip \/ ((Failed(b.run) \/ b.run = 0) /\ UNCHANGED slips), NEW f
  PROVE  NoMore(f)
<1>1. queue' = SetState(Hidden(b), "visible") /\ held' = held \ {b} /\ UNCHANGED <<runs, bus, lost>>
  BY DEF Abandon
<1>2. /\ Msg' = Msg /\ Left(f)' = Left(f)
      /\ \A m \in Msg : queue'[m].of = queue[m].of
      /\ \A c \in held : c # b => HiddenOf(c, f)' = HiddenOf(c, f)
  BY <1>1, OthersHide
<1>3. \A q : q # b.run /\ Waits(q, f) => Waits(q, f)'
  BY <1>1, <1>2 DEF Waits
<1>4. Retries(f)' = Retries(f) /\ \A q : Failed(q)' = Failed(q)
  BY <1>1, SameRuns
<1>5. Spent(f)' \subseteq Spent(f) \cup {b.run}
  BY <1>3, <1>4 DEF Spent
<1>6. Empty(f)' \subseteq Empty(f)
  BY <1>1, <1>2, Shape DEF Empty
<1>7. CASE Slip
  <2>1. Claims(f)' \subseteq Claims(f) \cup {<<"run", b.run>>}
    BY <1>1, <1>2, <1>5, <1>6 DEF Claims, Tokens
  <2>2. QED
    BY <1>7, <2>1, SlipNoMore DEF Slip
<1>8. CASE (Failed(b.run) \/ b.run = 0) /\ UNCHANGED slips
  <2>1. 0 \notin Retries(f)
    BY Shape DEF Retries
  <2>3. Spent(f)' \subseteq Spent(f)
    BY <1>4, <1>5, <1>8, <2>1 DEF Spent
  <2>2. Claims(f)' \subseteq Claims(f)
    BY <1>1, <1>2, <1>6, <2>3, FewerTokens DEF Claims
  <2>4. QED
    BY <1>8, <2>2, SubsetNoMore
<1>9. QED
  BY <1>7, <1>8

LEMMA LapseClaims ==
  ASSUME ~ Synchronous, TypeOK, HiddenOnce, NEW b \in held, NEW m \in b.msgs, Lapse(b, m), NEW f
  PROVE  NoMore(f)
<1> DEFINE c == [b EXCEPT !.late = @ \cup {m}]
           x == IF b.run = 0 THEN <<"batch", c>> ELSE <<"run", b.run>>
<1>1. /\ queue' = SetState({m}, "visible") /\ held' = (held \ {b}) \cup {c}
      /\ m \in Hidden(b) /\ slips' = slips + 1 /\ UNCHANGED <<runs, bus, lost>>
  BY DEF Lapse, Slip
<1>2. c.run = b.run
  BY DEF TypeOK
<1> HIDE DEF c
<1>3. /\ Msg' = Msg /\ Left(f)' = Left(f)
      /\ \A n \in Msg : queue'[n].of = queue[n].of
      /\ \A d \in held : d # b => HiddenOf(d, f)' = HiddenOf(d, f)
  <2>1. PICK S \in SUBSET Hidden(b) : S = {m}
    BY <1>1
  <2>2. queue' = SetState(S, "visible")
    BY <1>1, <2>1
  <2>3. QED
    BY <2>2, OthersHide
<1>4. \A q : q # b.run /\ Waits(q, f) => Waits(q, f)'
  BY <1>1, <1>3 DEF Waits
<1>5. Retries(f)' = Retries(f) /\ (\A q : Failed(q)' = Failed(q)) /\ Retries(f) \subseteq Run
  BY <1>1, SameRuns DEF Retries
<1>6. Spent(f)' \subseteq Spent(f) \cup {b.run} /\ (b.run = 0 => Spent(f)' \subseteq Spent(f))
  <2>1. Spent(f)' \subseteq Spent(f) \cup {b.run}
    BY <1>4, <1>5 DEF Spent
  <2>2. 0 \notin Spent(f)'
    BY <1>5, Shape DEF Spent
  <2>3. QED
    BY <2>1, <2>2
<1>7. Empty(f)' \subseteq Empty(f) \cup {c} /\ (b.run # 0 => Empty(f)' \subseteq Empty(f))
  BY <1>1, <1>2, <1>3, Shape DEF Empty
<1>8. Claims(f)' \subseteq Claims(f) \cup {x}
  BY <1>1, <1>3, <1>6, <1>7 DEF Claims, Tokens
<1> HIDE DEF x
<1>9. QED
  BY <1>1, <1>8, SlipNoMore

-----------------------------------------------------------------------------
(* A message is hidden by one batch at a time.                             *)
LEMMA StepHidesOnce ==
  ASSUME TypeOK, HiddenOnce, [Next]_vars
  PROVE  HiddenOnce'
<1> DEFINE Keeps(b) == b.msgs \ b.late
<1>1. \A b \in held : Keeps(b) \subseteq Msg
  BY Shape
<1>2. ASSUME UNCHANGED held, Msg \subseteq Msg', \A m \in Msg : queue'[m].state = queue[m].state
      PROVE  HiddenOnce'
  BY <1>1, <1>2 DEF HiddenOnce
<1>3. ASSUME NEW S, NEW st \in {"deleted", "expired"}, queue' = SetState(S, st), held' \subseteq held
      PROVE  HiddenOnce'
  <2>1. \A m \in Msg : queue'[m].state = IF m \in S THEN st ELSE queue[m].state
    BY <1>3, StatesSet DEF State
  <2>2. QED
    BY <1>1, <1>3, <2>1 DEF HiddenOnce
<1>4. CASE UNCHANGED <<queue, held>>
  BY <1>2, <1>4 DEF Msg
<1>5. ASSUME NEW r \in bus, Deliver(r) PROVE HiddenOnce'
  <2> DEFINE e == [of |-> r, state |-> "visible"]
  <2>1. e \in MsgRecord
    BY Shape DEF MsgRecord, State
  <2>2. queue' = Append(queue, e) /\ UNCHANGED held
    BY <1>5 DEF Deliver
  <2> HIDE DEF e
  <2>3. Msg \subseteq Msg' /\ \A m \in Msg : queue'[m] = queue[m]
    BY <2>1, <2>2, Shape, AppendKeeps DEF Msg
  <2>4. QED
    BY <1>2, <2>2, <2>3
<1>6. ASSUME NEW B \in SUBSET Msg, Receive(B) PROVE HiddenOnce'
  <2> DEFINE n == [msgs |-> B, late |-> {}, run |-> 0]
  <2>1. /\ queue' = SetState(B, "inflight") /\ held' = held \cup {n}
        /\ \A m \in B : queue[m].state = "visible"
    BY <1>6 DEF Receive
  <2>2. n.msgs \ n.late = B
    OBVIOUS
  <2> HIDE DEF n
  <2>3. \A m \in Msg : queue'[m].state = IF m \in B THEN "inflight" ELSE queue[m].state
    BY <2>1, StatesSet DEF State
  <2>4. \A b \in held : \A m \in Keeps(b) : m \in Msg /\ m \notin B
    BY <1>1, <2>1 DEF HiddenOnce
  <2>5. \A b \in held' : \A m \in b.msgs \ b.late : queue'[m].state # "visible"
    BY <2>1, <2>2, <2>3, <2>4 DEF HiddenOnce
  <2>6. ASSUME NEW b \in held', NEW c \in held', NEW m \in (b.msgs \ b.late) \cap (c.msgs \ c.late),
               queue'[m].state = "inflight"
        PROVE  b = c
    <3>1. CASE m \in B
      BY <2>1, <2>4, <2>6, <3>1
    <3>2. CASE m \notin B
      BY <2>1, <2>2, <2>3, <2>4, <2>6, <3>2 DEF HiddenOnce
    <3>3. QED
      BY <3>1, <3>2
  <2>7. QED
    BY <2>5, <2>6 DEF HiddenOnce
<1>7. ASSUME NEW b \in held, Invoke(b) PROVE HiddenOnce'
  <2> DEFINE c == [b EXCEPT !.run = Len(runs) + 1]
  <2>1. held' = (held \ {b}) \cup {c} /\ UNCHANGED queue
    BY <1>7 DEF Invoke
  <2>2. c.msgs \ c.late = Keeps(b)
    BY DEF TypeOK
  <2> HIDE DEF c
  <2>3. \A d \in held' : (d = c \/ (d \in held /\ d # b))
    BY <2>1
  <2>4. \A d \in held' : \A m \in d.msgs \ d.late : queue'[m].state # "visible"
    BY <2>1, <2>2, <2>3 DEF HiddenOnce
  <2>5. \A d1, d2 \in held' : \A m \in (d1.msgs \ d1.late) \cap (d2.msgs \ d2.late) :
          queue'[m].state = "inflight" => d1 = d2
    BY <2>1, <2>2, <2>3 DEF HiddenOnce
  <2>6. QED
    BY <2>4, <2>5 DEF HiddenOnce
<1>8. ASSUME NEW b \in held, Settle(b) PROVE HiddenOnce'
  BY <1>3, <1>8 DEF Settle
<1>9. ASSUME NEW b \in held, Abandon(b) PROVE HiddenOnce'
  <2>1. queue' = SetState(Hidden(b), "visible") /\ held' = held \ {b}
    BY <1>9 DEF Abandon
  <2>2. \A m \in Msg : queue'[m].state = IF m \in Hidden(b) THEN "visible" ELSE queue[m].state
    BY <2>1, StatesSet DEF State
  <2>3. \A d \in held' : d \in held /\ \A m \in Keeps(d) : m \in Msg /\ m \notin Hidden(b)
    BY <1>1, <2>1 DEF HiddenOnce, Hidden
  <2>4. QED
    BY <2>2, <2>3 DEF HiddenOnce
<1>10. ASSUME NEW b \in held, NEW m \in b.msgs, Lapse(b, m) PROVE HiddenOnce'
  <2> DEFINE c == [b EXCEPT !.late = @ \cup {m}]
  <2>1. queue' = SetState({m}, "visible") /\ held' = (held \ {b}) \cup {c} /\ m \in Hidden(b)
    BY <1>10 DEF Lapse
  <2>2. c.msgs \ c.late = Keeps(b) \ {m}
    BY DEF TypeOK
  <2> HIDE DEF c
  <2>3. \A n \in Msg : queue'[n].state = IF n = m THEN "visible" ELSE queue[n].state
    <3>1. \A n \in Msg : queue'[n].state = IF n \in {m} THEN "visible" ELSE queue[n].state
      <4> "visible" \in State
        BY DEF State
      <4>1. QED
        BY <2>1, StatesSet
    <3>2. QED
      BY <3>1
  <2>4. \A d \in held' : (d = c \/ (d \in held /\ d # b))
    BY <2>1
  <2>5. \A d \in held : d # b => \A n \in Keeps(d) : n \in Msg /\ n # m
    BY <1>1, <2>1 DEF HiddenOnce, Hidden
  <2>6. \A d \in held' : \A n \in d.msgs \ d.late : queue'[n].state # "visible"
    BY <1>1, <2>2, <2>3, <2>4, <2>5 DEF HiddenOnce
  <2>7. \A d1, d2 \in held' : \A n \in (d1.msgs \ d1.late) \cap (d2.msgs \ d2.late) :
          queue'[n].state = "inflight" => d1 = d2
    BY <1>1, <2>2, <2>3, <2>4, <2>5 DEF HiddenOnce
  <2>8. QED
    BY <2>6, <2>7 DEF HiddenOnce
<1>11. ASSUME NEW m \in Msg, Expire(m) PROVE HiddenOnce'
  BY <1>3, <1>11 DEF Expire
<1>12. ASSUME NEW r \in bus, GiveUp(r) PROVE HiddenOnce'
  BY <1>4, <1>12 DEF GiveUp
<1>13. ASSUME NEW b \in held, Reject(b) \/ Refuse(b) \/ Drop(b) PROVE HiddenOnce'
  BY <1>9, <1>13 DEF Reject, Refuse, Drop
<1>14. Start \/ UNCHANGED vars \/ (\E r \in Run, outcome \in Failing \cup {"SUCCEEDED"} : End(r, outcome))
       => HiddenOnce'
  BY <1>4 DEF Start, End, vars
<1>15. QED
  BY <1>5, <1>6, <1>7, <1>8, <1>10, <1>11, <1>12, <1>13, <1>14 DEF Next, PipeNext

(* What a failure may claim never exceeds its one retry and the slips.     *)
LEMMA StepFrugal ==
  ASSUME ~ Synchronous, TypeOK, IInv, HiddenOnce, Frugal, [Next]_vars
  PROVE  Frugal'
<1> SUFFICES ASSUME NEW f PROVE IsFiniteSet(Claims(f)') /\ Cardinality(Claims(f)') <= 1 + slips'
  BY DEF Frugal
<1>1. IsFiniteSet(Claims(f)) /\ Cardinality(Claims(f)) <= 1 + slips
  BY DEF Frugal
<1> DEFINE Goal == IsFiniteSet(Claims(f)') /\ Cardinality(Claims(f)') <= 1 + slips'
<1>2. NoMore(f) => Goal
  <2>1. SUFFICES ASSUME NoMore(f) PROVE Goal
    OBVIOUS
  <2>2. /\ IsFiniteSet(Claims(f)')
        /\ \/ Cardinality(Claims(f)') <= Cardinality(Claims(f)) /\ slips' = slips
           \/ Cardinality(Claims(f)') <= Cardinality(Claims(f)) + 1 /\ slips' = slips + 1
    BY <1>1, <2>1 DEF NoMore
  <2>3. Cardinality(Claims(f)) \in Nat /\ Cardinality(Claims(f)') \in Nat /\ slips \in Nat
    BY <1>1, <2>2, Shape, FS_CardinalityType
  <2> DEFINE x == Cardinality(Claims(f))
             y == Cardinality(Claims(f)')
  <2>4. /\ IsFiniteSet(Claims(f)') /\ x \in Nat /\ y \in Nat /\ x <= 1 + slips
        /\ (y <= x /\ slips' = slips) \/ (y <= x + 1 /\ slips' = slips + 1)
    BY <1>1, <2>2, <2>3
  <2> HIDE DEF x, y
  <2>5. y <= 1 + slips'
    BY <2>3, <2>4
  <2>6. QED
    BY <2>4, <2>5 DEF y
<1>3. Start => Goal
  BY <1>2, StartClaims
<1>4. ASSUME NEW r \in Run, NEW outcome \in Failing \cup {"SUCCEEDED"}, End(r, outcome) PROVE Goal
  BY <1>1, <1>4, EndClaims
<1>5. ASSUME NEW r \in bus, Deliver(r) \/ GiveUp(r) PROVE Goal
  BY <1>2, <1>5, DeliverClaims, GiveUpClaims
<1>6. ASSUME NEW B \in SUBSET Msg, Receive(B) PROVE Goal
  BY <1>2, <1>6, ReceiveClaims
<1>7. ASSUME NEW b \in held, Invoke(b) \/ Settle(b) PROVE Goal
  BY <1>2, <1>7, InvokeClaims, SettleClaims
<1>8. ASSUME NEW b \in held, Reject(b) \/ Refuse(b) \/ Drop(b) PROVE Goal
  <2>1. Abandon(b) /\ (Slip \/ ((Failed(b.run) \/ b.run = 0) /\ UNCHANGED slips))
    BY <1>8 DEF Reject, Refuse, Drop, Failed
  <2>2. QED
    BY <1>2, <2>1, AbandonClaims
<1>9. ASSUME NEW b \in held, NEW m \in b.msgs, Lapse(b, m) PROVE Goal
  BY <1>2, <1>9, LapseClaims
<1>10. ASSUME NEW m \in Msg, Expire(m) PROVE Goal
  BY <1>2, <1>10, ExpireClaims
<1>11. UNCHANGED vars => Goal
  <2>1. SUFFICES ASSUME UNCHANGED vars PROVE Claims(f)' = Claims(f) /\ slips' = slips
    BY <1>1
  <2>2. Spent(f)' = Spent(f) /\ Left(f)' = Left(f) /\ Empty(f)' = Empty(f)
    <3>1. UNCHANGED <<runs, queue, held>>
      BY <2>1 DEF vars
    <3>2. QED
      BY <3>1, SameRuns, SameQueue DEF Spent
  <2>3. QED
    BY <2>1, <2>2 DEF Claims, vars
<1>12. QED
  BY <1>3, <1>4, <1>5, <1>6, <1>7, <1>8, <1>9, <1>10, <1>11 DEF Next, PipeNext

(* A retry that failed is excused; one that waits stands for a message it  *)
(* hides; any other is a claim used up.                                    *)
LEMMA FrugalExcuses ==
  ASSUME TypeOK, HiddenOnce, Frugal
  PROVE  RetriesAreExcused
<1> SUFFICES ASSUME NEW f \in Run
             PROVE  Cardinality(Retries(f)) <=
                      1 + slips + Cardinality({q \in Retries(f) : Synchronous /\ runs[q].status \in Failing})
  BY DEF RetriesAreExcused
<1> DEFINE F == {q \in Retries(f) : Synchronous /\ runs[q].status \in Failing}
           G == Retries(f) \ F
           C == Claims(f)
           Hides(b, q) == b \in held /\ b.run = q /\ HiddenOf(b, f) # {}
           Holder(q) == CHOOSE b : Hides(b, q)
           Hostage(q) == CHOOSE m : m \in HiddenOf(Holder(q), f)
           g == [q \in G |-> IF Waits(q, f) THEN <<"message", Hostage(q)>> ELSE <<"run", q>>]
<1>1. IsFiniteSet(Retries(f))
  <2>1. IsFiniteSet(1 .. Len(runs))
    BY Shape, FS_Interval
  <2>2. Retries(f) \subseteq 1 .. Len(runs)
    BY Shape DEF Retries
  <2>3. QED
    BY <2>1, <2>2, FS_Subset
<1>2. IsFiniteSet(C) /\ Cardinality(C) <= 1 + slips
  BY DEF Frugal
<1>3. ASSUME NEW q, Waits(q, f)
      PROVE  /\ Holder(q) \in held /\ Holder(q).run = q
             /\ Hostage(q) \in Holder(q).msgs \ Holder(q).late
             /\ queue[Hostage(q)].state = "inflight" /\ Hostage(q) \in Left(f)
  <2>1. \E b : Hides(b, q)
    BY <1>3 DEF Waits
  <2>2. Hides(Holder(q), q)
    BY <2>1, Zenon
  <2> HIDE DEF Holder
  <2>3. \E m : m \in HiddenOf(Holder(q), f)
    BY <2>2
  <2>4. Hostage(q) \in HiddenOf(Holder(q), f)
    BY <2>3, Zenon
  <2> HIDE DEF Hostage
  <2>5. /\ Hostage(q) \in Holder(q).msgs \ Holder(q).late
        /\ queue[Hostage(q)].state = "inflight" /\ queue[Hostage(q)].of = f
    BY <2>4 DEF HiddenOf
  <2>6. Hostage(q) \in Msg
    BY <2>2, <2>5, Shape
  <2>7. QED
    BY <2>2, <2>5, <2>6 DEF Left, Live
<1> HIDE DEF Holder, Hostage, Hides
<1>4. \A q \in G : g[q] \in C
  <2>1. SUFFICES ASSUME NEW q \in G PROVE g[q] \in C
    OBVIOUS
  <2>2. CASE Waits(q, f)
    <3>1. g[q] = <<"message", Hostage(q)>> /\ Hostage(q) \in Left(f)
      BY <1>3, <2>2
    <3> HIDE DEF g
    <3>2. QED
      BY <3>1, TokensAre DEF Claims
  <2>3. CASE ~ Waits(q, f)
    <3>1. g[q] = <<"run", q>> /\ q \in Spent(f)
      BY <2>3 DEF Spent, Failed
    <3> HIDE DEF g
    <3>2. QED
      BY <3>1, TokensAre DEF Claims
  <2>4. QED
    BY <2>2, <2>3
<1>5. ASSUME NEW q \in G, NEW p \in G, g[q] = g[p] PROVE q = p
  <2>1. /\ g[q] = IF Waits(q, f) THEN <<"message", Hostage(q)>> ELSE <<"run", q>>
        /\ g[p] = IF Waits(p, f) THEN <<"message", Hostage(p)>> ELSE <<"run", p>>
    OBVIOUS
  <2> HIDE DEF g, G
  <2>2. CASE Waits(q, f) /\ Waits(p, f)
    <3>1. <<"message", Hostage(q)>> = <<"message", Hostage(p)>>
      BY <1>5, <2>1, <2>2, Zenon
    <3>3. Hostage(q) = Hostage(p)
      BY <3>1
    <3>2. Holder(q) = Holder(p)
      BY <1>3, <2>2, <3>3 DEF HiddenOnce
    <3>4. QED
      BY <1>3, <2>2, <3>2
  <2>3. CASE ~ Waits(q, f) /\ ~ Waits(p, f)
    <3>1. <<"run", q>> = <<"run", p>>
      BY <1>5, <2>1, <2>3, Zenon
    <3>2. QED
      BY <3>1
  <2>4. CASE Waits(q, f) /\ ~ Waits(p, f)
    <3>1. <<"message", Hostage(q)>> = <<"run", p>>
      BY <1>5, <2>1, <2>4, Zenon
    <3>2. QED
      BY <3>1
  <2>5. CASE ~ Waits(q, f) /\ Waits(p, f)
    <3>1. <<"message", Hostage(p)>> = <<"run", q>>
      BY <1>5, <2>1, <2>5, Zenon
    <3>2. QED
      BY <3>1
  <2>6. QED
    BY <2>2, <2>3, <2>4, <2>5
<1>6. g \in Injection(G, C)
  <2>1. g \in [G -> C]
    BY <1>4
  <2> HIDE DEF g, G, C
  <2>2. QED
    BY <1>5, <2>1 DEF Injection, IsInjective
<1> HIDE DEF g
<1>7. IsFiniteSet(G) /\ Cardinality(G) <= Cardinality(C)
  <2> HIDE DEF G, C
  <2>1. QED
    BY <1>2, <1>6, FS_Injection
<1>8. IsFiniteSet(F) /\ Retries(f) = F \cup G /\ F \cap G = {}
  BY <1>1, FS_Subset
<1> HIDE DEF F, G, C
<1>9. Cardinality(Retries(f)) = Cardinality(F) + Cardinality(G) - Cardinality(F \cap G)
  BY <1>7, <1>8, FS_Union
<1>10. Cardinality(F \cap G) = 0
  BY <1>8, FS_EmptySet
<1>11. Cardinality(F) \in Nat /\ Cardinality(G) \in Nat /\ Cardinality(C) \in Nat /\ slips \in Nat
  BY <1>2, <1>7, <1>8, Shape, FS_CardinalityType
<1>12. Cardinality(Retries(f)) <= 1 + slips + Cardinality(F)
  BY <1>2, <1>7, <1>9, <1>10, <1>11
<1>13. QED
  BY <1>12 DEF F

(***************************************************************************)
(* Under FIRE_AND_FORGET nothing in the wiring duplicates work: a failure  *)
(* is reprocessed once, and once more for every slip of a service.         *)
(***************************************************************************)
THEOREM RetriesAreAlwaysExcused ==
  ASSUME ~ Synchronous
  PROVE  Spec => []RetriesAreExcused
<1>1. Init => HiddenOnce /\ Frugal
  <2> SUFFICES ASSUME Init PROVE HiddenOnce /\ Frugal
    OBVIOUS
  <2>1. HiddenOnce
    BY DEF Init, HiddenOnce
  <2>2. ASSUME NEW f PROVE Claims(f) = {}
    <3>1. Spent(f) = {} /\ Left(f) = {} /\ Empty(f) = {} /\ bus \cap {f} = {}
      BY DEF Init, Spent, Retries, Run, Left, Msg, Empty
    <3>2. QED
      BY <3>1 DEF Claims, Tokens
  <2>3. Frugal
    BY <2>2, FS_EmptySet DEF Frugal, Init
  <2>4. QED
    BY <2>1, <2>3
<1>2. TypeOK /\ IInv /\ HiddenOnce /\ Frugal /\ [Next]_vars => (HiddenOnce /\ Frugal)'
  BY StepHidesOnce, StepFrugal
<1>3. TypeOK /\ HiddenOnce /\ Frugal => RetriesAreExcused
  BY FrugalExcuses
<1>4. QED
  BY <1>1, <1>2, <1>3, Invariant, PTL DEF Spec
-----------------------------------------------------------------------------
(* A set of numbers that is not empty has a least element.                 *)
LEMMA Least ==
  ASSUME NEW T \in SUBSET Nat, T # {}
  PROVE  \E x \in T : \A y \in T : x <= y
<1> DEFINE R == OpToRel(<, Nat)
<1>1. IsWellFoundedOn(R, Nat)
  BY NatLessThanWellFounded
<1>2. \A x, y \in Nat : x < y => <<x, y>> \in R
  BY DEF OpToRel
<1> HIDE DEF R
<1>3. PICK x \in T : \A y \in T : ~ (<<y, x>> \in R)
  BY <1>1, WFMin
<1>4. ASSUME NEW y \in T PROVE x <= y
  <2>1. x \in Nat /\ y \in Nat
    OBVIOUS
  <2>2. ~ (y < x)
    BY <1>2, <1>3, <2>1
  <2>3. QED
    BY <2>1, <2>2
<1>5. QED
  BY <1>4

(* Samples that grow n times in a row have reached n.                      *)
LEMMA GrowthAddsUp ==
  ASSUME NEW n \in Nat, NEW s \in [1 .. n + 1 -> Nat],
         \A i \in 1 .. n : s[i + 1] > s[i]
  PROVE  s[n + 1] >= n
<1> DEFINE T == {j \in 1 .. n + 1 : s[j] < j - 1}
<1>1. CASE T = {}
  <2>1. n + 1 \in 1 .. n + 1 /\ s[n + 1] \in Nat
    OBVIOUS
  <2>2. ~ (s[n + 1] < (n + 1) - 1)
    BY <1>1, <2>1
  <2>3. QED
    BY <2>1, <2>2
<1>2. CASE T # {}
  <2>1. PICK j \in T : \A k \in T : j <= k
    <3>1. T \in SUBSET Nat
      OBVIOUS
    <3> HIDE DEF T
    <3>2. QED
      BY <1>2, <3>1, Least
  <2>2. j \in 2 .. n + 1 /\ s[j] \in Nat
    <3>1. s[1] \in Nat /\ j \in 1 .. n + 1 /\ s[j] \in Nat /\ s[j] < j - 1
      OBVIOUS
    <3>2. QED
      BY <3>1
  <2>3. j - 1 \in 1 .. n /\ s[j - 1] \in Nat /\ s[(j - 1) + 1] > s[j - 1]
    BY <2>2
  <2>4. j - 1 \notin T
    BY <2>1, <2>2
  <2>5. QED
    BY <2>2, <2>3, <2>4
<1>3. QED
  BY <1>1, <1>2

-----------------------------------------------------------------------------
(***************************************************************************)
(* Every sample is at most the number of messages there ever were, and     *)
(* that number only grows.                                                 *)
(***************************************************************************)
SamplesBounded ==
  /\ samples \in [1 .. evaluationPeriods + 1 -> Nat]
  /\ \A i \in 1 .. evaluationPeriods + 1 : samples[i] <= Len(queue)

LEMMA VisibleBounded ==
  ASSUME TypeOK
  PROVE  Visible \in Nat /\ Visible <= Len(queue)
<1> DEFINE V == {m \in Msg : queue[m].state = "visible"}
<1>1. Msg = 1 .. Len(queue) /\ Len(queue) \in Nat
  BY DEF TypeOK, Msg
<1>2. IsFiniteSet(Msg) /\ Cardinality(Msg) = Len(queue)
  BY <1>1, FS_Interval
<1>3. V \subseteq Msg
  OBVIOUS
<1> HIDE DEF V
<1>4. IsFiniteSet(V) /\ Cardinality(V) <= Cardinality(Msg)
  BY <1>2, <1>3, FS_Subset
<1>5. Cardinality(V) \in Nat
  BY <1>4, FS_CardinalityType
<1>6. QED
  BY <1>2, <1>4, <1>5 DEF Visible, V

LEMMA QueueGrows ==
  ASSUME TypeOK, TypeOK', [Next]_vars
  PROVE  Len(queue) \in Nat /\ Len(queue') \in Nat /\ Len(queue) <= Len(queue')
<1>1. Msg \subseteq Msg'
  BY StepKeeps DEF QueueKept
<1>2. Msg = 1 .. Len(queue) /\ Len(queue) \in Nat /\ Msg' = 1 .. Len(queue') /\ Len(queue') \in Nat
  BY DEF TypeOK, Msg
<1>3. QED
  BY <1>1, <1>2

(* A full window of growth is growth in every period.                      *)
LEMMA EveryPeriodGrew ==
  ASSUME datapointsToAlarm = evaluationPeriods, RateAlarm
  PROVE  \A i \in 1 .. evaluationPeriods : samples[i + 1] > samples[i]
<1> DEFINE G == {i \in 1 .. evaluationPeriods : samples[i + 1] > samples[i]}
           W == 1 .. evaluationPeriods
<1>1. evaluationPeriods \in Nat
  BY AlarmAssumption
<1>2. IsFiniteSet(W) /\ Cardinality(W) = evaluationPeriods
  BY <1>1, FS_Interval
<1>3. Cardinality(G) >= evaluationPeriods
  BY DEF RateAlarm, Breaches
<1>4. G \subseteq W
  OBVIOUS
<1>5. SUFFICES G = W
  OBVIOUS
<1> HIDE DEF G, W
<1>6. IsFiniteSet(G) /\ Cardinality(G) <= Cardinality(W) /\ (Cardinality(G) = Cardinality(W) => G = W)
  BY <1>2, <1>4, FS_Subset
<1>7. Cardinality(G) \in Nat
  BY <1>6, FS_CardinalityType
<1>8. QED
  BY <1>1, <1>2, <1>3, <1>6, <1>7

(***************************************************************************)
(* Every message, and every failure still on the bus, stands for a failure *)
(* that was captured or for a slip that delivered one once more.           *)
(***************************************************************************)
Counted == Len(queue) + Cardinality(bus) <= Cardinality(CapturedRuns) + slips

CountsAre ==
  /\ IsFiniteSet(bus) /\ Cardinality(bus) \in Nat
  /\ IsFiniteSet(CapturedRuns) /\ Cardinality(CapturedRuns) \in Nat
  /\ Len(queue) \in Nat /\ slips \in Nat

LEMMA Counts == TypeOK => CountsAre
<1> SUFFICES ASSUME TypeOK PROVE CountsAre
  OBVIOUS
<1>1. IsFiniteSet(1 .. Len(runs))
  BY Shape, FS_Interval
<1>2. bus \subseteq 1 .. Len(runs) /\ CapturedRuns \subseteq 1 .. Len(runs)
  BY Shape DEF CapturedRuns
<1>3. IsFiniteSet(bus) /\ IsFiniteSet(CapturedRuns)
  BY <1>1, <1>2, FS_Subset
<1>4. QED
  BY <1>3, FS_CardinalityType, Shape DEF CountsAre

LEMMA StepCounts ==
  ASSUME TypeOK, TypeOK', [Next]_vars, Counted
  PROVE  Counted'
<1> USE PipelineAssumption
<1> DEFINE q0 == Len(queue)
           q1 == Len(queue')
           b0 == Cardinality(bus)
           b1 == Cardinality(bus')
           c0 == Cardinality(CapturedRuns)
           c1 == Cardinality(CapturedRuns')
<1>1. /\ IsFiniteSet(bus) /\ IsFiniteSet(CapturedRuns)
      /\ q0 \in Nat /\ b0 \in Nat /\ c0 \in Nat /\ slips \in Nat
  BY Counts DEF CountsAre
<1>2. /\ IsFiniteSet(bus') /\ IsFiniteSet(CapturedRuns')
      /\ q1 \in Nat /\ b1 \in Nat /\ c1 \in Nat /\ slips' \in Nat
  <2>1. CountsAre'
    BY Counts, PTL
  <2>2. QED
    BY <2>1 DEF CountsAre
<1>3. CapturedRuns \subseteq CapturedRuns'
  BY StepKeeps DEF RunsKept, CapturedRuns, IsCaptured, Retry
<1>4. c0 <= c1
  BY <1>2, <1>3, FS_Subset
<1>5. q0 + b0 <= c0 + slips
  BY DEF Counted
<1>6. bus' \subseteq bus => b1 <= b0
  BY <1>1, FS_Subset
<1>7. q1 + b1 <= c1 + slips' => Counted'
  BY DEF Counted
<1>8. Slip => slips' = slips + 1
  BY DEF Slip
<1>9. ASSUME NEW r \in Run, NEW outcome \in Failing \cup {"SUCCEEDED"}, End(r, outcome)
      PROVE  Counted'
  <2>1. /\ Run' = Run
        /\ \A q \in Run : /\ runs'[q].retries = runs[q].retries
                          /\ runs'[q].status = IF q = r THEN outcome ELSE runs[q].status
    BY <1>9, Shape, EndKeeps DEF End, Run
  <2>2. UNCHANGED <<queue, slips>> /\ runs[r].status = "running"
    BY <1>9 DEF End
  <2>3. CASE outcome \in Captured /\ ~(Synchronous /\ Retry(r))
    <3>1. bus' = bus \cup {r}
      BY <1>9, <2>3 DEF End
    <3>2. b1 <= b0 + 1
      BY <1>1, <1>2, <3>1, OneMore
    <3>3. r \notin CapturedRuns /\ r \in CapturedRuns'
      BY <2>1, <2>2, <2>3 DEF CapturedRuns, IsCaptured, Retry
    <3>4. Cardinality(CapturedRuns \cup {r}) = c0 + 1
      BY <1>1, <3>3, FS_AddElement
    <3>5. CapturedRuns \cup {r} \subseteq CapturedRuns'
      BY <1>3, <3>3
    <3>6. Cardinality(CapturedRuns \cup {r}) <= c1
      BY <1>2, <3>5, FS_Subset
    <3> HIDE DEF q0, q1, b0, b1, c0, c1
    <3>7. q1 = q0
      BY <2>2 DEF q0, q1
    <3>8. QED
      BY <1>1, <1>2, <1>5, <1>7, <2>2, <3>2, <3>4, <3>6, <3>7
  <2>4. CASE ~ (outcome \in Captured /\ ~(Synchronous /\ Retry(r)))
    <3>1. bus' = bus
      BY <1>9, <2>4 DEF End
    <3>2. q1 = q0 /\ b1 = b0
      BY <2>2, <3>1
    <3> HIDE DEF q0, q1, b0, b1, c0, c1
    <3>3. QED
      BY <1>1, <1>2, <1>4, <1>5, <1>7, <2>2, <3>2
  <2>5. QED
    BY <2>3, <2>4
<1>10. ASSUME NEW r \in bus, Deliver(r) PROVE Counted'
  <2> DEFINE e == [of |-> r, state |-> "visible"]
  <2>1. e \in MsgRecord
    BY Shape DEF MsgRecord, State
  <2>2. queue' = Append(queue, e)
    BY <1>10 DEF Deliver
  <2> HIDE DEF e
  <2>3. q1 = q0 + 1
    BY <2>1, <2>2, Shape
  <2>4. CASE bus' = bus \ {r} /\ UNCHANGED slips
    <3>1. Cardinality(bus \ {r}) = b0 - 1
      BY <1>1, FS_RemoveElement
    <3>2. b1 = b0 - 1
      BY <2>4, <3>1
    <3> HIDE DEF q0, q1, b0, b1, c0, c1
    <3>3. QED
      BY <1>1, <1>2, <1>4, <1>5, <1>7, <2>3, <2>4, <3>2
  <2>5. CASE bus' = bus /\ Slip
    <3>1. b1 = b0
      BY <2>5
    <3> HIDE DEF q0, q1, b0, b1, c0, c1
    <3>2. QED
      BY <1>1, <1>2, <1>4, <1>5, <1>7, <1>8, <2>3, <2>5, <3>1
  <2>6. QED
    BY <1>10, <2>4, <2>5 DEF Deliver
<1>11. ASSUME q1 = q0, bus' \subseteq bus, slips' = slips \/ Slip PROVE Counted'
  <2>1. b1 <= b0 /\ q1 = q0
    BY <1>6, <1>11
  <2>2. slips' = slips \/ slips' = slips + 1
    BY <1>8, <1>11
  <2> HIDE DEF q0, q1, b0, b1, c0, c1
  <2>3. slips <= slips' /\ q0 \in Nat /\ b0 \in Nat /\ c0 \in Nat /\ slips \in Nat
    BY <1>1, <2>2
  <2>4. q1 \in Nat /\ b1 \in Nat /\ c1 \in Nat /\ slips' \in Nat
    BY <1>2
  <2>5. PICK s : s = slips'
    OBVIOUS
  <2>6. q0 + b0 <= c0 + slips /\ c0 <= c1 /\ slips <= s /\ s \in Nat
    BY <1>4, <1>5, <2>3, <2>4, <2>5
  <2>7. q1 + b1 <= c1 + s
    BY <2>1, <2>3, <2>4, <2>6
  <2>8. QED
    BY <1>7, <2>5, <2>7
<1>12. ASSUME NEW S, NEW st \in State, queue' = SetState(S, st) PROVE q1 = q0
  <2>1. Msg' = Msg
    BY <1>12, StatesSet
  <2>2. Msg = 1 .. q0 /\ Msg' = 1 .. q1
    BY DEF TypeOK, Msg
  <2> HIDE DEF q0, q1
  <2>3. QED
    BY <1>1, <1>2, <2>1, <2>2
<1>13. CASE Start \/ UNCHANGED vars
  BY <1>11, <1>13 DEF Start, vars
<1>14. ASSUME NEW r \in bus, GiveUp(r) PROVE Counted'
  BY <1>11, <1>14 DEF GiveUp
<1>15. ASSUME NEW B \in SUBSET Msg, Receive(B) PROVE Counted'
  BY <1>11, <1>12, <1>15 DEF Receive, State
<1>16. ASSUME NEW b \in held, Invoke(b) PROVE Counted'
  BY <1>11, <1>16 DEF Invoke
<1>17. ASSUME NEW b \in held, Settle(b) PROVE Counted'
  BY <1>11, <1>12, <1>17 DEF Settle, State
<1>18. ASSUME NEW b \in held, Reject(b) \/ Refuse(b) \/ Drop(b) PROVE Counted'
  <2>1. Abandon(b) /\ (slips' = slips \/ Slip)
    BY <1>18 DEF Reject, Refuse, Drop
  <2>2. QED
    BY <1>11, <1>12, <2>1 DEF Abandon, State
<1>19. ASSUME NEW b \in held, NEW m \in b.msgs, Lapse(b, m) PROVE Counted'
  BY <1>11, <1>12, <1>19 DEF Lapse, State
<1>20. ASSUME NEW m \in Msg, Expire(m) PROVE Counted'
  BY <1>11, <1>12, <1>20 DEF Expire, State
<1>21. QED
  BY <1>9, <1>10, <1>13, <1>14, <1>15, <1>16, <1>17, <1>18, <1>19, <1>20 DEF Next, PipeNext

(***************************************************************************)
(* Where every period must breach, a rate alarm means at least as many     *)
(* captured failures as periods, a repeated delivery counting as one more: *)
(* with 2 of 2, a failure that is delivered once never raises it alone.    *)
(***************************************************************************)
THEOREM RateNeedsGrowthAlways == AlarmSpec => []RateNeedsGrowth
<1> DEFINE Inv == TypeOK /\ SamplesBounded /\ Counted
<1>1. AlarmInit => Inv
  <2>1. AlarmInit => TypeOK
    BY PipelineAssumption DEF AlarmInit, Init, TypeOK, Run, Msg
  <2>2. AlarmInit => SamplesBounded
    BY AlarmAssumption DEF AlarmInit, Init, SamplesBounded
  <2>3. AlarmInit => Counted
    <3> SUFFICES ASSUME AlarmInit PROVE Counted
      OBVIOUS
    <3>1. Len(queue) = 0 /\ bus = {} /\ slips = 0 /\ CapturedRuns = {}
      BY DEF AlarmInit, Init, CapturedRuns, Run
    <3>2. QED
      BY <3>1, FS_EmptySet DEF Counted
  <2>4. QED
    BY <2>1, <2>2, <2>3
<1>2. Inv /\ [AlarmNext]_alarmVars => Inv'
  <2> SUFFICES ASSUME TypeOK, SamplesBounded, Counted, [AlarmNext]_alarmVars
               PROVE  TypeOK' /\ SamplesBounded' /\ Counted'
    OBVIOUS
  <2>1. [Next]_vars
    BY DEF AlarmNext, alarmVars, Sample
  <2>2. TypeOK'
    BY <2>1, StepTyped
  <2>3. Len(queue) \in Nat /\ Len(queue') \in Nat /\ Len(queue) <= Len(queue')
    BY <2>1, <2>2, QueueGrows
  <2>4. ASSUME UNCHANGED samples PROVE SamplesBounded'
    BY <2>2, <2>3, <2>4 DEF SamplesBounded
  <2>5. ASSUME Sample PROVE SamplesBounded'
    <3>1. Visible \in Nat /\ Visible <= Len(queue)
      BY VisibleBounded
    <3>2. evaluationPeriods \in Nat
      BY AlarmAssumption
    <3>3. QED
      BY <2>2, <2>3, <2>5, <3>1, <3>2 DEF Sample, SamplesBounded
  <2>6. Counted'
    BY <2>1, <2>2, StepCounts
  <2>7. QED
    BY <2>2, <2>4, <2>5, <2>6 DEF AlarmNext, alarmVars
<1>3. Inv => RateNeedsGrowth
  <2> SUFFICES ASSUME Inv, datapointsToAlarm = evaluationPeriods, RateAlarm
               PROVE  Cardinality(CapturedRuns) + slips >= datapointsToAlarm
    BY DEF RateNeedsGrowth
  <2> DEFINE n == evaluationPeriods
  <2>1. n \in Nat /\ samples \in [1 .. n + 1 -> Nat]
    BY AlarmAssumption DEF SamplesBounded
  <2>2. samples[n + 1] >= n
    BY <2>1, EveryPeriodGrew, GrowthAddsUp
  <2>3. samples[n + 1] \in Nat /\ samples[n + 1] <= Len(queue) /\ Len(queue) \in Nat
    BY <2>1 DEF SamplesBounded, TypeOK
  <2>4. /\ Len(queue) + Cardinality(bus) <= Cardinality(CapturedRuns) + slips
        /\ Cardinality(bus) \in Nat /\ Cardinality(CapturedRuns) \in Nat /\ slips \in Nat
    BY Counts DEF Counted, CountsAre
  <2>5. QED
    BY <2>1, <2>2, <2>3, <2>4
<1>4. QED
  BY <1>1, <1>2, <1>3, PTL DEF AlarmSpec
=============================================================================
