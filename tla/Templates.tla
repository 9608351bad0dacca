----------------------------- MODULE Templates ------------------------------
(***************************************************************************)
(* What a deployment has to know of the constructs: which of their         *)
(* resources hold data, or a name that can be taken, and what becomes of   *)
(* each when the stack no longer has it.  Roles, policies, rules, alarms   *)
(* and topics, which are removed with their stack as a queue is, are left  *)
(* out, as is what has neither name nor data.                              *)
(*                                                                         *)
(* A construct is given as [class, id, ...]: id stands for the id of its   *)
(* context, the rest are the options given.                                *)
(***************************************************************************)
EXTENDS Integers, Sequences

Given(c, option, default) == IF option \in DOMAIN c THEN c[option] ELSE default

(***************************************************************************)
(* A resource: its kind, its physical name (<< >>: AWS makes one up), the  *)
(* settings that cannot be changed in place, and its removal policy; of    *)
(* what is PROTECTED, AWS refuses the deletion.                            *)
(***************************************************************************)
Named(kind, name, removalPolicy) ==
  [kind |-> kind, name |-> name, shape |-> {}, policy |-> removalPolicy]
Unnamed(kind, removalPolicy)  == Named(kind, << >>, removalPolicy)
Absent == Named("none", << >>, "DESTROY")
If(condition, resource) == IF condition THEN resource ELSE Absent

\* Left behind by the stack that drops it.
IsKept(r) == r.policy # "DESTROY"

\* CloudFormation deletes what has no policy; the classes of aws-cdk-lib for streams retain.
NoPolicy     == "DESTROY"
StreamPolicy == "RETAIN"

-----------------------------------------------------------------------------
Bucket(name, force) == Named("bucket", name, IF force THEN "DESTROY" ELSE "RETAIN")

S3Bucket(c) == [Bucket |-> Bucket(Given(c, "bucketName", <<c.id>>), Given(c, "forceDestroy", FALSE))]

notificationQueue(c) == Named("queue", <<c.id, "-notifications">>, "DESTROY")

\* The bucket is that of an S3Bucket inside this construct.
S3LogStorage(c) ==
  [BucketBucket |-> S3Bucket(c).Bucket,
   NotificationQueue |-> If(Given(c, "notificationsEnabled", FALSE), notificationQueue(c))]

S3Website(c) == [OriginBucket |-> Bucket(<<c.id, "-origin">>, FALSE)]

\* The keys of a table with their types, and its local indexes.
mapAttrType(t) == IF t \in {"N", "B"} THEN t ELSE "S"
keySchema(c) ==
  {<<"partition", c.hashKey, mapAttrType(Given(c, "hashKeyType", "S"))>>}
  \cup {<<"sort", k, mapAttrType(Given(c, "rangeKeyType", "S"))>> :
          k \in IF "rangeKey" \in DOMAIN c THEN {c.rangeKey} ELSE {}}
  \cup {<<"index", i>> : i \in Given(c, "localSecondaryIndexes", {})}

\* Mutant: without a removal policy of its own, the table goes with its construct.
tableProps_NoPolicy(c) == [Named("table", <<c.id>>, NoPolicy) EXCEPT !.shape = keySchema(c)]
\* Mutant: AWS makes up the table's name.
tableProps_Unnamed(c) == [Unnamed("table", "RETAIN") EXCEPT !.shape = keySchema(c)]
tableProps(c) == [Named("table", <<c.id>>, "RETAIN") EXCEPT !.shape = keySchema(c)]
Dynamodb(c)   == [Table |-> tableProps(c)]

smSecret(c) == Named("secret", <<c.id, "-secret">>, "RETAIN")
Secret(c) ==
  LET own == Given(c, "createKmsKey", TRUE)
  IN  [Secret |-> smSecret(c),
       Key |-> If(own, Unnamed("key", "RETAIN")),
       KeyAlias |-> If(own, Named("alias", <<c.id, "-key">>, NoPolicy))]

KmsKey(c) ==
  [Key |-> Unnamed("key", "RETAIN"), Alias |-> Named("alias", Given(c, "alias", <<c.id>>), NoPolicy)]

\* The ending .fifo belongs to the name.
Queue(name, c) ==
  Named("queue", IF Given(c, "fifo", FALSE) THEN name \o <<".fifo">> ELSE name, NoPolicy)
SqsQueue(c) ==
  [Queue |-> Queue(<<c.id>>, c),
   Dlq |-> If(Given(c, "dlqEnabled", FALSE), Queue(<<c.id, "-dlq">>, c))]

\* A stream, and the consumers registered with it, by number.
KinesisStream(c) ==
  [r \in {<<"Stream">>} \cup {"Consumer"} \X (0 .. Given(c, "consumerCount", 0) - 1) |->
     IF r[1] = "Consumer" THEN Named("consumer", <<c.id, "-consumer-", r[2]>>, NoPolicy)
     ELSE Named("stream", <<c.id>>,
                IF Given(c, "enforceConsumerDeletion", TRUE) THEN StreamPolicy ELSE "RETAIN")]

RedshiftCluster(c) == [Cluster |-> Named("cluster", <<c.id>>, NoPolicy)]

AuroraDsql(c) ==
  [Cluster |-> Unnamed("dsql", IF Given(c, "deleteProtection", TRUE) THEN "PROTECTED" ELSE NoPolicy)]

\* Mutant: without a removal policy, as a log group of aws-cdk-lib is retained.
logGroup_NoPolicy(prefix, c) == Named("logs", <<prefix, c.id>>, "RETAIN")
logGroup(prefix, c) == Named("logs", <<prefix, c.id>>, "DESTROY")

CloudTrail(c) ==
  [LogGroup |-> If(Given(c, "cloudWatchLogsEnabled", FALSE), logGroup("/aws/cloudtrail/", c))]
CloudwatchFlowLogs(c) == [LogGroup |-> logGroup("/aws/vpc/flowlogs/", c)]
LambdaFunction(c)     == [LogGroup |-> logGroup("/aws/lambda/", c)]
StepFunctions(c)      == [LogGroup |-> If("existingLogGroupArn" \notin DOMAIN c, logGroup("/aws/states/", c))]
HttpApiGateway(c)     == [AccessLogs |-> If(Given(c, "accessLoggingEnabled", TRUE),
                                            logGroup("/aws/apigateway/", c))]
Slackbot(c)           == [LogGroup |-> logGroup("/aws/lambda/", c)]
Sns(c) == [Dlq |-> If(Given(c, "sqsDlqEnabled", FALSE), Named("queue", <<c.id, "-dlq">>, NoPolicy))]

\* A standard state machine and a Lambda function have the same, an express one once per key.
ErrorNotification(c) ==
  [Dlq |-> Named("queue", <<c.id, "-dlq">>, NoPolicy), PipeLogGroup |-> logGroup("/aws/pipes/", c)]
ExpressSfnErrorNotification(c) ==
  [r \in {"Dlq", "PipeLogGroup"} \X Given(c, "stepFunctions", {}) |->
     IF r[1] = "Dlq" THEN Named("queue", <<c.id, r[2], "-dlq">>, NoPolicy)
     ELSE Named("logs", <<"/aws/pipes/", c.id, r[2]>>, "DESTROY")]

Class == {"S3Bucket", "S3LogStorage", "S3Website", "Dynamodb", "Secret", "KmsKey", "SqsQueue",
          "KinesisStream", "RedshiftCluster", "AuroraDsql", "CloudTrail", "CloudwatchFlowLogs",
          "LambdaFunction", "StepFunctions", "HttpApiGateway", "Slackbot", "Sns",
          "SfnErrorNotification", "LambdaErrorNotification", "ExpressSfnErrorNotification"}

Body(c) ==
  CASE c.class = "S3Bucket" -> S3Bucket(c)
    [] c.class = "S3LogStorage" -> S3LogStorage(c)
    [] c.class = "S3Website" -> S3Website(c)
    [] c.class = "Dynamodb" -> Dynamodb(c)
    [] c.class = "Secret" -> Secret(c)
    [] c.class = "KmsKey" -> KmsKey(c)
    [] c.class = "SqsQueue" -> SqsQueue(c)
    [] c.class = "KinesisStream" -> KinesisStream(c)
    [] c.class = "RedshiftCluster" -> RedshiftCluster(c)
    [] c.class = "AuroraDsql" -> AuroraDsql(c)
    [] c.class = "CloudTrail" -> CloudTrail(c)
    [] c.class = "CloudwatchFlowLogs" -> CloudwatchFlowLogs(c)
    [] c.class = "LambdaFunction" -> LambdaFunction(c)
    [] c.class = "StepFunctions" -> StepFunctions(c)
    [] c.class = "HttpApiGateway" -> HttpApiGateway(c)
    [] c.class = "Slackbot" -> Slackbot(c)
    [] c.class = "Sns" -> Sns(c)
    [] c.class \in {"SfnErrorNotification", "LambdaErrorNotification"} -> ErrorNotification(c)
    [] c.class = "ExpressSfnErrorNotification" -> ExpressSfnErrorNotification(c)

\* What a construct puts into the template: nothing, if its context is disabled.
Resources(c) ==
  [r \in {q \in DOMAIN Body(c) : Given(c, "enabled", TRUE) /\ Body(c)[q] # Absent} |-> Body(c)[r]]
=============================================================================
