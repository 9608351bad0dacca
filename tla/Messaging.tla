------------------------------ MODULE Messaging ------------------------------
(***************************************************************************)
(* The constructors of queues, topics and dead-letter pipelines.           *)
(***************************************************************************)
EXTENDS Constructs

-----------------------------------------------------------------------------
(* SqsQueue *)

dlqContext(ctx, suffix) == extendContext(ctx, [attributes |-> <<suffix>>])

queueName(ctx, props) == Fifo(contextId(ctx), Is(props, "fifo"))

dlqName_SameContext(ctx, props) == Fifo(contextId(ctx), Is(props, "fifo"))
dlqName(ctx, props) ==
  Fifo(contextId(dlqContext(ctx, Given(props, "dlqNameSuffix", <<Word["dlq"]>>))),
       Is(props, "fifo"))

SqsQueue(self, ctx, props) ==
  LET dlq     == self \o <<"Dlq">>
      redrive == IF Is(props, "dlqEnabled") THEN {dlq} ELSE {}
      queue   == [Resource("Queue", queueName(ctx, props), {}) EXCEPT !.redrive = redrive]
  IN  Constructor(self, ctx,
        When(Is(props, "dlqEnabled"), <<New(dlq, Resource("Queue", dlqName(ctx, props), {}))>>)
        \o <<New(self \o <<"Queue">>, queue)>>)

-----------------------------------------------------------------------------
(* Sns *)

topicName(ctx, props) == Fifo(contextId(ctx), Is(props, "fifoTopic"))

Protocol == {"sqs", "lambda", "https", "http", "email", "sms"}

\* CDK puts the i-th subscription below the imported queue or function, or the topic.
addSubscription(self, i, subscriber) ==
  LET topic    == self \o <<"Topic">>
      node     == Resource("Subscription", << >>, {topic})
      imported == self \o << (IF subscriber.protocol = "sqs" THEN "SubQueue" ELSE "SubLambda")
                             \o ToString(i) >>
  IN  CASE subscriber.protocol \in {"sqs", "lambda"} ->
             <<New(imported, Construct), New(imported \o <<"Sub">>, node)>>
        [] subscriber.protocol \in Protocol \ {"sqs", "lambda"} ->
             <<New(topic \o <<subscriber.endpoint>>, node)>>
        [] subscriber.protocol \notin Protocol -> <<Throw>>

SnsTopic(self, ctx, props) ==
  <<New(self \o <<"Topic">>, Resource("Topic", topicName(ctx, props), {}))>>
  \o Parse(Given(props, "snsTopicPolicyJson", "valid"))

SnsSubscriptions(self, props) ==
  LET subscribers == Given(props, "subscribers", << >>)
  IN  FlattenSeq([i \in DOMAIN subscribers |-> addSubscription(self, i, subscribers[i])])
      \o Parse(Given(props, "deliveryPolicy", "valid"))

SnsDlq(self, ctx, props) ==
  LET dlq  == self \o <<"Dlq">>
      name == contextId(Derived(ctx, "dlq"))
  IN  When(Is(props, "sqsDlqEnabled"),
           <<New(dlq, Resource("Queue", Fifo(name, Is(props, "sqsDlqFifo")), {}))>>
           \o Parse(Given(props, "redrivePolicy", "valid"))
           \o <<Redrive(self, IF "redrivePolicy" \in DOMAIN props THEN External ELSE dlq)>>)

Sns_DlqBeforeSubscriptions(self, ctx, props) ==
  Constructor(self, ctx,
    SnsTopic(self, ctx, props) \o SnsDlq(self, ctx, props) \o SnsSubscriptions(self, props))

Sns(self, ctx, props) ==
  Constructor(self, ctx,
    SnsTopic(self, ctx, props) \o SnsSubscriptions(self, props) \o SnsDlq(self, ctx, props))

-----------------------------------------------------------------------------
(* The dead-letter pipelines: SfnErrorNotification, LambdaErrorNotification and, once per *)
(* entry, ExpressSfnErrorNotification; their behaviour once deployed is DlqPipeline.      *)

DlqAlarms(self, name, dlq, key) ==
  << New(self \o <<"RateAlarm" \o key>>,
         Resource("Alarm", Dashed(Dashed(name, "dlq"), "rate"), {dlq})),
     New(self \o <<"VolumeAlarm" \o key>>,
         Resource("Alarm", Dashed(Dashed(name, "dlq"), "volume"), {dlq})) >>

DlqToTarget(self, name, dlq, key) ==
  LET role == self \o <<"PipeRole" \o key>>
      logs == self \o <<"PipeLogGroup" \o key>>
      pipe == Dashed(name, "pipe")
  IN  << New(role, Resource("Role", << >>, {})),
         New(logs, Resource("LogGroup", Under("/aws/pipes/", pipe), {})),
         New(self \o <<"Pipe" \o key>>, Resource("Pipe", pipe, {dlq, role, logs})) >>

\* sqsQueueName ?? the id of the dlq context
SfnErrorNotification(self, ctx, props) ==
  LET dlq  == self \o <<"Dlq">>
      id   == contextId(ctx)
      name == Given(props, "sqsQueueName", contextId(Derived(ctx, "dlq")))
  IN  Constructor(self, ctx,
        <<New(dlq, Resource("Queue", name, {}))>>
        \o DlqAlarms(self, id, dlq, "")
        \o <<New(self \o <<"FailedRule">>, Resource("Rule", Dashed(id, "failed"), {dlq}))>>
        \o DlqToTarget(self, id, dlq, ""))

LambdaErrorNotification(self, ctx, props) ==
  LET dlq  == self \o <<"Dlq">>
      id   == contextId(ctx)
      name == Given(props, "sqsQueueName", contextId(Derived(ctx, "dlq")))
  IN  Constructor(self, ctx,
        <<New(dlq, Resource("Queue", name, {}))>>
        \o DlqAlarms(self, id, dlq, "") \o DlqToTarget(self, id, dlq, ""))

\* One state machine: entry.key is the key in the map, entry.text the same as a label.
machineDlqContext(ctx, text) == extendContext(ctx, [attributes |-> <<text, <<Word["dlq"]>> >>])

ExpressMachine(self, ctx, entry) ==
  LET key  == "-" \o entry.key
      dlq  == self \o <<"Dlq" \o key>>
      id   == contextId(extendContext(ctx, [attributes |-> <<entry.text>>]))
      name == Given(entry, "sqsQueueName", contextId(machineDlqContext(ctx, entry.text)))
  IN  <<New(dlq, Resource("Queue", name, {}))>>
      \o DlqAlarms(self, id, dlq, key) \o DlqToTarget(self, id, dlq, key)

ExpressSfnErrorNotification(self, ctx, props) ==
  LET machines == props.stepFunctions
  IN  Constructor(self, ctx,
        FlattenSeq([i \in DOMAIN machines |-> ExpressMachine(self, ctx, machines[i])]))
=============================================================================
