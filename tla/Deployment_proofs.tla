-------------------------- MODULE Deployment_proofs --------------------------
(***************************************************************************)
(* Proofs about Deployment, for all projects, any number of deployments    *)
(* and of failures: a stack is always whole, loses only the data it was    *)
(* told to, and leaves behind only what it is meant to.                    *)
(***************************************************************************)
EXTENDS Deployment, TLAPS

-----------------------------------------------------------------------------
(***************************************************************************)
(* What the constructs decide about their resources.                       *)
(***************************************************************************)
Kept == {"table", "secret", "key", "stream"}

\* The policy of a construct's resource r is that of its kind, or follows the construct's props.
Decides(c, r, x) ==
  /\ x.kind \in Kept => IsKept(x)
  /\ x.kind = "bucket" =>
       \/ r = "OriginBucket" /\ IsKept(x)
       \/ /\ c.class \in {"S3Bucket", "S3LogStorage"}
          /\ IsKept(x) => Given(c, "forceDestroy", FALSE) = FALSE
          /\ ~IsKept(x) => Given(c, "forceDestroy", FALSE) = TRUE
  /\ x.kind = "dsql" =>
       /\ c.class = "AuroraDsql"
       /\ IsKept(x) => Given(c, "deleteProtection", TRUE) = TRUE
       /\ ~IsKept(x) => Given(c, "deleteProtection", TRUE) = FALSE
  /\ x.kind \notin Kept \cup {"bucket", "dsql"} => ~IsKept(x)
  /\ x.shape # {} => x.name # << >>

\* The fields of a resource without keys.
LEMMA NamedFields ==
  \A k, n, p : Named(k, n, p).kind = k /\ Named(k, n, p).policy = p /\ Named(k, n, p).shape = {}
BY DEF Named

\* A resource without data that goes with its construct.
LEMMA PlainDecides ==
  ASSUME NEW c, NEW r, NEW n, NEW k, k \notin Kept \cup {"bucket", "dsql"}
  PROVE  Decides(c, r, Named(k, n, "DESTROY"))
<1> DEFINE x == Named(k, n, "DESTROY")
<1>1. x.kind = k /\ x.policy = "DESTROY" /\ x.shape = {}
  BY NamedFields
<1> HIDE DEF x
<1>2. ~IsKept(x) /\ x.kind \notin Kept \cup {"bucket", "dsql"} /\ x.shape = {}
  BY <1>1 DEF IsKept
<1>3. Decides(c, r, x)
  BY <1>2 DEF Decides
<1> QED  BY <1>3 DEF x

\* One that stays.
LEMMA KeptDecides ==
  ASSUME NEW c, NEW r, NEW n, NEW k \in Kept
  PROVE  Decides(c, r, Named(k, n, "RETAIN"))
<1> DEFINE x == Named(k, n, "RETAIN")
<1>1. x.kind = k /\ x.policy = "RETAIN" /\ x.shape = {}
  BY NamedFields
<1> HIDE DEF x
<1>2. IsKept(x) /\ x.kind \in Kept /\ x.shape = {}
  BY <1>1 DEF IsKept
<1>3. Decides(c, r, x)
  BY <1>2 DEF Decides, Kept
<1> QED  BY <1>3 DEF x

\* One that is only there on a condition.
LEMMA IfDecides ==
  ASSUME NEW c, NEW r, NEW b, NEW x, Decides(c, r, x)
  PROVE  Decides(c, r, If(b, x))
<1>1. Decides(c, r, Absent)
  BY PlainDecides DEF Absent, Kept
<1>2. If(b, x) = x \/ If(b, x) = Absent
  BY DEF If
<1> QED  BY <1>1, <1>2

\* The bucket of an S3Bucket, or of an S3LogStorage.
LEMMA BucketDecides ==
  ASSUME NEW c, IsConstruct(c), c.class \in {"S3Bucket", "S3LogStorage"}, NEW r
  PROVE  Decides(c, r, S3Bucket(c).Bucket)
<1> DEFINE f == Given(c, "forceDestroy", FALSE)
<1>1. f = TRUE \/ f = FALSE
  BY DEF IsConstruct
<1>2. PICK n, p : /\ S3Bucket(c).Bucket = Named("bucket", n, p)
                  /\ f = TRUE => p = "DESTROY"
                  /\ f = FALSE => p = "RETAIN"
  BY DEF S3Bucket, Bucket
<1> DEFINE x == S3Bucket(c).Bucket
<1>3. x.kind = "bucket" /\ x.policy = p /\ x.shape = {}
  BY <1>2, NamedFields
<1>4. (IsKept(x) => f = FALSE) /\ (~IsKept(x) => f = TRUE)
  BY <1>1, <1>2, <1>3 DEF IsKept
<1> QED  BY <1>3, <1>4 DEF Decides, Kept

\* The cluster of an AuroraDsql.
LEMMA DsqlDecides ==
  ASSUME NEW c, IsConstruct(c), c.class = "AuroraDsql", NEW r
  PROVE  Decides(c, r, AuroraDsql(c).Cluster)
<1> DEFINE f == Given(c, "deleteProtection", TRUE)
           x == AuroraDsql(c).Cluster
<1>1. f = TRUE \/ f = FALSE
  BY DEF IsConstruct
<1>2. PICK p : /\ x = Named("dsql", << >>, p)
               /\ f = TRUE => p = "PROTECTED"
               /\ f = FALSE => p = "DESTROY"
  BY DEF AuroraDsql, Unnamed, NoPolicy
<1>3. x.kind = "dsql" /\ x.policy = p /\ x.shape = {}
  BY <1>2, NamedFields
<1>4. (IsKept(x) => f = TRUE) /\ (~IsKept(x) => f = FALSE)
  BY <1>1, <1>2, <1>3 DEF IsKept
<1> QED  BY <1>3, <1>4 DEF Decides, Kept

\* The bucket behind an S3Website.
LEMMA OriginDecides ==
  ASSUME NEW c PROVE Decides(c, "OriginBucket", S3Website(c).OriginBucket)
<1> DEFINE x == S3Website(c).OriginBucket
<1>1. x = Named("bucket", <<c.id, "-origin">>, "RETAIN")
  BY DEF S3Website, Bucket
<1>2. x.kind = "bucket" /\ IsKept(x) /\ x.shape = {}
  BY <1>1, NamedFields DEF IsKept
<1> QED  BY <1>2 DEF Decides, Kept

\* The table of a Dynamodb.
LEMMA TableDecides ==
  ASSUME NEW c, NEW r PROVE Decides(c, r, tableProps(c))
<1>1. tableProps(c).kind = "table" /\ tableProps(c).policy = "RETAIN" /\ tableProps(c).name = <<c.id>>
  BY DEF tableProps, Named
<1>2. <<c.id>> # << >>
  OBVIOUS
<1> QED  BY <1>1, <1>2 DEF Decides, IsKept, Kept

\* The log groups go with their constructs.
LEMMA LogGroupDecides ==
  ASSUME NEW c, NEW r, NEW prefix PROVE Decides(c, r, logGroup(prefix, c))
BY PlainDecides DEF logGroup, Kept

\* So do the queues.
LEMMA QueueDecides ==
  ASSUME NEW c, NEW r, NEW d, NEW n PROVE Decides(c, r, Queue(n, d))
<1>1. PICK m : Queue(n, d) = Named("queue", m, "DESTROY")
  BY DEF Queue, NoPolicy
<1> QED  BY <1>1, PlainDecides DEF Kept

(***************************************************************************)
(* Of every resource of every construct, in whatever template.             *)
(***************************************************************************)
LEMMA ResourcesDecide ==
  ASSUME NEW c, IsConstruct(c), NEW r \in DOMAIN Resources(c)
  PROVE  Decides(c, r, Resources(c)[r])
<1> DEFINE x == Body(c)[r]
<1>1. r \in DOMAIN Body(c) /\ Resources(c)[r] = x
  BY DEF Resources
<1>2. SUFFICES Decides(c, r, x)
  BY <1>1
<1>3. CASE c.class = "S3Bucket"
  <2>1. Body(c) = S3Bucket(c)
    BY <1>3 DEF Body
  <2>2. r = "Bucket"
    BY <1>1, <2>1 DEF S3Bucket
  <2>3. CASE r = "Bucket"
    <3>1. x = S3Bucket(c).Bucket
      BY <2>1, <2>3 DEF S3Bucket
    <3> QED  BY <3>1, <1>3, BucketDecides, <2>3
  <2> QED  BY <2>2, <2>3
<1>4. CASE c.class = "S3LogStorage"
  <2>1. Body(c) = S3LogStorage(c)
    BY <1>4 DEF Body
  <2>2. r = "BucketBucket" \/ r = "NotificationQueue"
    BY <1>1, <2>1 DEF S3LogStorage
  <2>3. CASE r = "BucketBucket"
    <3>1. x = S3Bucket(c).Bucket
      BY <2>1, <2>3 DEF S3LogStorage
    <3> QED  BY <3>1, <1>4, BucketDecides, <2>3
  <2>4. CASE r = "NotificationQueue"
    <3>1. x = If(Given(c, "notificationsEnabled", FALSE), notificationQueue(c))
      BY <2>1, <2>4 DEF S3LogStorage
    <3> QED  BY <3>1, <1>4, PlainDecides, IfDecides, <2>4 DEF notificationQueue, Kept
  <2> QED  BY <2>2, <2>3, <2>4
<1>5. CASE c.class = "S3Website"
  <2>1. Body(c) = S3Website(c)
    BY <1>5 DEF Body
  <2>2. r = "OriginBucket"
    BY <1>1, <2>1 DEF S3Website
  <2>3. CASE r = "OriginBucket"
    <3>1. x = S3Website(c).OriginBucket
      BY <2>1, <2>3 DEF S3Website
    <3> QED  BY <3>1, <1>5, OriginDecides, <2>3
  <2> QED  BY <2>2, <2>3
<1>6. CASE c.class = "Dynamodb"
  <2>1. Body(c) = Dynamodb(c)
    BY <1>6 DEF Body
  <2>2. r = "Table"
    BY <1>1, <2>1 DEF Dynamodb
  <2>3. CASE r = "Table"
    <3>1. x = tableProps(c)
      BY <2>1, <2>3 DEF Dynamodb
    <3> QED  BY <3>1, <1>6, TableDecides, <2>3
  <2> QED  BY <2>2, <2>3
<1>7. CASE c.class = "Secret"
  <2>1. Body(c) = Secret(c)
    BY <1>7 DEF Body
  <2>2. r = "Secret" \/ r = "Key" \/ r = "KeyAlias"
    BY <1>1, <2>1 DEF Secret
  <2>3. CASE r = "Secret"
    <3>1. x = smSecret(c)
      BY <2>1, <2>3 DEF Secret
    <3> QED  BY <3>1, <1>7, KeptDecides, <2>3 DEF smSecret, Kept
  <2>4. CASE r = "Key"
    <3>1. x = If(Given(c, "createKmsKey", TRUE), Named("key", << >>, "RETAIN"))
      BY <2>1, <2>4 DEF Secret, Unnamed, NoPolicy, StreamPolicy
    <3> QED  BY <3>1, <1>7, KeptDecides, IfDecides, <2>4 DEF Kept
  <2>5. CASE r = "KeyAlias"
    <3>1. x = If(Given(c, "createKmsKey", TRUE), Named("alias", <<c.id, "-key">>, "DESTROY"))
      BY <2>1, <2>5 DEF Secret, Unnamed, NoPolicy, StreamPolicy
    <3> QED  BY <3>1, <1>7, PlainDecides, IfDecides, <2>5 DEF Kept
  <2> QED  BY <2>2, <2>3, <2>4, <2>5
<1>8. CASE c.class = "KmsKey"
  <2>1. Body(c) = KmsKey(c)
    BY <1>8 DEF Body
  <2>2. r = "Key" \/ r = "Alias"
    BY <1>1, <2>1 DEF KmsKey
  <2>3. CASE r = "Key"
    <3>1. x = Named("key", << >>, "RETAIN")
      BY <2>1, <2>3 DEF KmsKey, Unnamed, NoPolicy, StreamPolicy
    <3> QED  BY <3>1, <1>8, KeptDecides, <2>3 DEF Kept
  <2>4. CASE r = "Alias"
    <3>1. x = Named("alias", Given(c, "alias", <<c.id>>), "DESTROY")
      BY <2>1, <2>4 DEF KmsKey, Unnamed, NoPolicy, StreamPolicy
    <3> QED  BY <3>1, <1>8, PlainDecides, <2>4 DEF Kept
  <2> QED  BY <2>2, <2>3, <2>4
<1>9. CASE c.class = "SqsQueue"
  <2>1. Body(c) = SqsQueue(c)
    BY <1>9 DEF Body
  <2>2. r = "Queue" \/ r = "Dlq"
    BY <1>1, <2>1 DEF SqsQueue
  <2>3. CASE r = "Queue"
    <3>1. x = Queue(<<c.id>>, c)
      BY <2>1, <2>3 DEF SqsQueue
    <3> QED  BY <3>1, <1>9, QueueDecides, <2>3
  <2>4. CASE r = "Dlq"
    <3>1. x = If(Given(c, "dlqEnabled", FALSE), Queue(<<c.id, "-dlq">>, c))
      BY <2>1, <2>4 DEF SqsQueue
    <3> QED  BY <3>1, <1>9, QueueDecides, IfDecides, <2>4
  <2> QED  BY <2>2, <2>3, <2>4
<1>10. CASE c.class = "KinesisStream"
  <2>1. Body(c) = KinesisStream(c)
    BY <1>10 DEF Body
  <2>2. \/ x = Named("stream", <<c.id>>, "RETAIN")
        \/ x = Named("consumer", <<c.id, "-consumer-", r[2]>>, "DESTROY")
    BY <1>1, <2>1 DEF KinesisStream, NoPolicy, StreamPolicy
  <2>3. CASE x = Named("stream", <<c.id>>, "RETAIN")
    BY <2>3, KeptDecides DEF Kept
  <2>4. CASE x = Named("consumer", <<c.id, "-consumer-", r[2]>>, "DESTROY")
    BY <2>4, PlainDecides DEF Kept
  <2> QED  BY <2>2, <2>3, <2>4
<1>11. CASE c.class = "RedshiftCluster"
  <2>1. Body(c) = RedshiftCluster(c)
    BY <1>11 DEF Body
  <2>2. r = "Cluster"
    BY <1>1, <2>1 DEF RedshiftCluster
  <2>3. CASE r = "Cluster"
    <3>1. x = Named("cluster", <<c.id>>, "DESTROY")
      BY <2>1, <2>3 DEF RedshiftCluster, Unnamed, NoPolicy, StreamPolicy
    <3> QED  BY <3>1, <1>11, PlainDecides, <2>3 DEF Kept
  <2> QED  BY <2>2, <2>3
<1>12. CASE c.class = "AuroraDsql"
  <2>1. Body(c) = AuroraDsql(c)
    BY <1>12 DEF Body
  <2>2. r = "Cluster"
    BY <1>1, <2>1 DEF AuroraDsql
  <2>3. CASE r = "Cluster"
    <3>1. x = AuroraDsql(c).Cluster
      BY <2>1, <2>3 DEF AuroraDsql
    <3> QED  BY <3>1, <1>12, DsqlDecides, <2>3
  <2> QED  BY <2>2, <2>3
<1>13. CASE c.class = "CloudTrail"
  <2>1. Body(c) = CloudTrail(c)
    BY <1>13 DEF Body
  <2>2. r = "LogGroup"
    BY <1>1, <2>1 DEF CloudTrail
  <2>3. CASE r = "LogGroup"
    <3>1. x = If(Given(c, "cloudWatchLogsEnabled", FALSE), logGroup("/aws/cloudtrail/", c))
      BY <2>1, <2>3 DEF CloudTrail
    <3> QED  BY <3>1, <1>13, LogGroupDecides, IfDecides, <2>3
  <2> QED  BY <2>2, <2>3
<1>14. CASE c.class = "CloudwatchFlowLogs"
  <2>1. Body(c) = CloudwatchFlowLogs(c)
    BY <1>14 DEF Body
  <2>2. r = "LogGroup"
    BY <1>1, <2>1 DEF CloudwatchFlowLogs
  <2>3. CASE r = "LogGroup"
    <3>1. x = logGroup("/aws/vpc/flowlogs/", c)
      BY <2>1, <2>3 DEF CloudwatchFlowLogs
    <3> QED  BY <3>1, <1>14, LogGroupDecides, <2>3
  <2> QED  BY <2>2, <2>3
<1>15. CASE c.class = "LambdaFunction"
  <2>1. Body(c) = LambdaFunction(c)
    BY <1>15 DEF Body
  <2>2. r = "LogGroup"
    BY <1>1, <2>1 DEF LambdaFunction
  <2>3. CASE r = "LogGroup"
    <3>1. x = logGroup("/aws/lambda/", c)
      BY <2>1, <2>3 DEF LambdaFunction
    <3> QED  BY <3>1, <1>15, LogGroupDecides, <2>3
  <2> QED  BY <2>2, <2>3
<1>16. CASE c.class = "StepFunctions"
  <2>1. Body(c) = StepFunctions(c)
    BY <1>16 DEF Body
  <2>2. r = "LogGroup"
    BY <1>1, <2>1 DEF StepFunctions
  <2>3. CASE r = "LogGroup"
    <3>1. x = If("existingLogGroupArn" \notin DOMAIN c, logGroup("/aws/states/", c))
      BY <2>1, <2>3 DEF StepFunctions
    <3> QED  BY <3>1, <1>16, LogGroupDecides, IfDecides, <2>3
  <2> QED  BY <2>2, <2>3
<1>17. CASE c.class = "HttpApiGateway"
  <2>1. Body(c) = HttpApiGateway(c)
    BY <1>17 DEF Body
  <2>2. r = "AccessLogs"
    BY <1>1, <2>1 DEF HttpApiGateway
  <2>3. CASE r = "AccessLogs"
    <3>1. x = If(Given(c, "accessLoggingEnabled", TRUE), logGroup("/aws/apigateway/", c))
      BY <2>1, <2>3 DEF HttpApiGateway
    <3> QED  BY <3>1, <1>17, LogGroupDecides, IfDecides, <2>3
  <2> QED  BY <2>2, <2>3
<1>18. CASE c.class = "Slackbot"
  <2>1. Body(c) = Slackbot(c)
    BY <1>18 DEF Body
  <2>2. r = "LogGroup"
    BY <1>1, <2>1 DEF Slackbot
  <2>3. x = logGroup("/aws/lambda/", c)
    BY <2>1, <2>2 DEF Slackbot
  <2> QED  BY <2>3, LogGroupDecides
<1>19. CASE c.class = "Sns"
  <2>1. Body(c) = Sns(c)
    BY <1>19 DEF Body
  <2>2. r = "Dlq"
    BY <1>1, <2>1 DEF Sns
  <2>3. x = If(Given(c, "sqsDlqEnabled", FALSE), Named("queue", <<c.id, "-dlq">>, "DESTROY"))
    BY <2>1, <2>2 DEF Sns, NoPolicy
  <2> QED  BY <2>3, PlainDecides, IfDecides DEF Kept
<1>20. CASE c.class \in {"SfnErrorNotification", "LambdaErrorNotification"}
  <2>1. Body(c) = ErrorNotification(c)
    BY <1>20 DEF Body
  <2>2. r = "Dlq" \/ r = "PipeLogGroup"
    BY <1>1, <2>1 DEF ErrorNotification
  <2>3. CASE r = "Dlq"
    <3>1. x = Named("queue", <<c.id, "-dlq">>, "DESTROY")
      BY <2>1, <2>3 DEF ErrorNotification, NoPolicy
    <3> QED  BY <3>1, PlainDecides DEF Kept
  <2>4. CASE r = "PipeLogGroup"
    <3>1. x = logGroup("/aws/pipes/", c)
      BY <2>1, <2>4 DEF ErrorNotification
    <3> QED  BY <3>1, LogGroupDecides
  <2> QED  BY <2>2, <2>3, <2>4
<1>21. CASE c.class = "ExpressSfnErrorNotification"
  <2>1. Body(c) = ExpressSfnErrorNotification(c)
    BY <1>21 DEF Body
  <2>2. PICK n, k : k \in {"queue", "logs"} /\ x = Named(k, n, "DESTROY")
    BY <1>1, <2>1 DEF ExpressSfnErrorNotification, NoPolicy
  <2> QED  BY <2>2, PlainDecides DEF Kept
<1> QED
  BY <1>3, <1>4, <1>5, <1>6, <1>7, <1>8, <1>9, <1>10, <1>11, <1>12, <1>13, <1>14, <1>15,
     <1>16, <1>17, <1>18, <1>19, <1>20, <1>21 DEF IsConstruct, Class

-----------------------------------------------------------------------------
(***************************************************************************)
(* The inductive invariant.                                                *)
(***************************************************************************)
\* What a template holds, some construct that was deployed put there.
Backed(t) ==
  \A l \in DOMAIN t : \E g \in given :
    /\ IsConstruct(g[2]) /\ g[1] = l[1]
    /\ l[2] \in DOMAIN Resources(g[2]) /\ t[l] = Resources(g[2])[l[2]]

Backing == project \in Projects /\ Backed(template) /\ Backed(target)

\* What the template in force names is there, and not to be deleted.
StackIsWhole ==
  \A l \in DOMAIN stack :
    /\ stack[l] \in account /\ stack[l] \notin doomed
    /\ stack[l].kind = template[l].kind /\ stack[l].name = template[l].name

\* Physical resources are of the logical ones that use them, and of their kind.
InUse ==
  /\ Accepted(target)
  /\ \A l \in DOMAIN stack : l \in DOMAIN template /\ stack[l].of = l
  /\ \A l \in DOMAIN fresh : l \in Wanted /\ fresh[l].of = l
  /\ \A l \in DOMAIN fresh : fresh[l].kind = target[l].kind /\ fresh[l].name = target[l].name

\* The stack is older than what a deployment at work makes, and nothing else is made.
Ages ==
  /\ deploys \in Nat
  /\ \A l \in DOMAIN stack : stack[l].born \in Nat /\ stack[l].born <= deploys
  /\ phase = "creating" => \A l \in DOMAIN stack : stack[l].born < deploys
  /\ \A l \in DOMAIN fresh : fresh[l].born = deploys /\ fresh[l] \in account
  /\ phase # "creating" => DOMAIN fresh = {}

Excused  == \A p \in doomed \cup removed : MayBeDeleted(p)
Leftover == \A p \in account \ (Values(stack) \cup Values(fresh) \cup doomed) : MayBeLeft(p)
NotDoomed == phase \in {"idle", "creating"} => doomed = {}

\* No two resources of a kind have one name, whoever they belong to.
NamesAreHeldOnce ==
  \A p, q \in account : p.kind = q.kind /\ p.name = q.name /\ p.name # << >> => p = q

IInv == Backing /\ InUse /\ Ages /\ StackIsWhole /\ Excused /\ Leftover /\ NotDoomed /\ NamesAreHeldOnce

-----------------------------------------------------------------------------
\* What is dropped because its policy says so may be deleted ...
LEMMA DroppedMayBeDeleted ==
  ASSUME NEW t, Backed(t), NEW l \in DOMAIN t, ~IsKept(t[l]),
         NEW p, p.of = l, p.kind = t[l].kind
  PROVE  MayBeDeleted(p)
<1>1. PICK g \in given : /\ IsConstruct(g[2]) /\ g[1] = l[1]
                         /\ l[2] \in DOMAIN Resources(g[2]) /\ t[l] = Resources(g[2])[l[2]]
  BY DEF Backed
<1>2. Decides(g[2], l[2], t[l])
  BY <1>1, ResourcesDecide
<1>3. p.kind \notin {"table", "secret", "key"}
  BY <1>2 DEF Decides, Kept
<1>4. ASSUME p.kind = "bucket" PROVE BucketWasGiven(p, TRUE)
  BY <1>1, <1>2, <1>4 DEF Decides, BucketWasGiven, WasGiven
<1>5. ASSUME p.kind = "dsql" PROVE WasGiven(p, "AuroraDsql", "deleteProtection", TRUE, FALSE)
  BY <1>1, <1>2, <1>5 DEF Decides, WasGiven
<1> QED  BY <1>3, <1>4, <1>5 DEF MayBeDeleted

\* ... and what is kept, may be left.
LEMMA KeptMayBeLeft ==
  ASSUME NEW t, Backed(t), NEW l \in DOMAIN t, IsKept(t[l]),
         NEW p, p.of = l, p.kind = t[l].kind
  PROVE  MayBeLeft(p)
<1>1. PICK g \in given : /\ IsConstruct(g[2]) /\ g[1] = l[1]
                         /\ l[2] \in DOMAIN Resources(g[2]) /\ t[l] = Resources(g[2])[l[2]]
  BY DEF Backed
<1>2. Decides(g[2], l[2], t[l])
  BY <1>1, ResourcesDecide
<1>3. p.kind \in Kept \cup {"bucket", "dsql"}
  BY <1>2 DEF Decides
<1>4. ASSUME p.kind = "bucket" PROVE BucketWasGiven(p, FALSE) \/ p.of[2] = "OriginBucket"
  BY <1>1, <1>2, <1>4 DEF Decides, BucketWasGiven, WasGiven
<1>5. ASSUME p.kind = "dsql" PROVE WasGiven(p, "AuroraDsql", "deleteProtection", TRUE, TRUE)
  BY <1>1, <1>2, <1>5 DEF Decides, WasGiven
<1> QED  BY <1>3, <1>4, <1>5 DEF MayBeLeft, Kept

\* What was ever given stays so.
LEMMA GivenStays ==
  ASSUME given \subseteq given'
  PROVE  /\ \A p : MayBeDeleted(p) => MayBeDeleted(p)'
         /\ \A p : MayBeLeft(p) => MayBeLeft(p)'
         /\ \A t : Backed(t) => \A l \in DOMAIN t : \E g \in given' :
              /\ IsConstruct(g[2]) /\ g[1] = l[1]
              /\ l[2] \in DOMAIN Resources(g[2]) /\ t[l] = Resources(g[2])[l[2]]
<1>1. ASSUME NEW p, NEW class, NEW option, NEW default, NEW value,
             WasGiven(p, class, option, default, value)
      PROVE  WasGiven(p, class, option, default, value)'
  BY <1>1 DEF WasGiven
<1>2. ASSUME NEW p, NEW force, BucketWasGiven(p, force) PROVE BucketWasGiven(p, force)'
  BY <1>1, <1>2 DEF BucketWasGiven
<1>3. \A p : MayBeDeleted(p) => MayBeDeleted(p)'
  BY <1>1, <1>2 DEF MayBeDeleted
<1>4. \A p : MayBeLeft(p) => MayBeLeft(p)'
  BY <1>1, <1>2 DEF MayBeLeft
<1>5. \A t : Backed(t) => \A l \in DOMAIN t : \E g \in given' :
        /\ IsConstruct(g[2]) /\ g[1] = l[1]
        /\ l[2] \in DOMAIN Resources(g[2]) /\ t[l] = Resources(g[2])[l[2]]
  BY DEF Backed
<1> QED  BY <1>3, <1>4, <1>5

\* The empty stack is whole.
LEMMA InitHolds == Init => IInv
BY DEF Init, IInv, Backing, Backed, InUse, Accepted, Ages, StackIsWhole, Excused, Leftover,
       NotDoomed, NamesAreHeldOnce, Empty, Values

-----------------------------------------------------------------------------
\* A deployment that starts touches nothing yet.
LEMMA DeployKeeps ==
  ASSUME IInv, NEW app \in project, Deploy(app)
  PROVE  IInv'
<1> USE DEF IInv
<1>1. given \subseteq given' /\ UNCHANGED <<template, stack, fresh, account, doomed, removed>>
  BY DEF Deploy
<1>2. Backing'
  <2>1. ASSUME NEW l \in DOMAIN target'
        PROVE  \E g \in given' : /\ IsConstruct(g[2]) /\ g[1] = l[1]
                                 /\ l[2] \in DOMAIN Resources(g[2]) /\ target'[l] = Resources(g[2])[l[2]]
    <3>1. PICK s \in DOMAIN app : \E r \in DOMAIN Resources(app[s]) : l = <<s, r>>
      BY <2>1 DEF Deploy, Template, Logical
    <3>2. <<s, app[s]>> \in given' /\ IsConstruct(app[s])
      BY DeploymentAssumption DEF Deploy, Backing
    <3>3. target'[l] = Resources(app[s])[l[2]] /\ l[1] = s /\ l[2] \in DOMAIN Resources(app[s])
      BY <3>1, <2>1 DEF Deploy, Template
    <3> QED  BY <3>2, <3>3
  <2>2. Backed(template)'
    BY <1>1, GivenStays DEF Backing, Backed
  <2> QED  BY <2>1, <2>2 DEF Backing, Backed, Deploy
<1>3. InUse'
  BY <1>1 DEF InUse, Deploy, Accepted, Ages
<1>4. Ages' /\ StackIsWhole' /\ NotDoomed' /\ NamesAreHeldOnce'
  BY <1>1 DEF Ages, StackIsWhole, NotDoomed, NamesAreHeldOnce, Deploy
<1>5. Excused' /\ Leftover'
  BY <1>1, GivenStays DEF Excused, Leftover, Values
<1> QED  BY <1>2, <1>3, <1>4, <1>5

\* What is created is new: of its name there is no other.
LEMMA CreateKeeps ==
  ASSUME IInv, NEW l \in Wanted, Create(l)
  PROVE  IInv'
<1> USE DEF IInv
<1>1. /\ given' = given /\ UNCHANGED <<project, deploys, phase, template, target, stack, doomed, removed>>
      /\ account' = account \cup {Physical(l)} /\ phase = "creating"
      /\ fresh' = Over([k \in {l} |-> Physical(l)], fresh)
      /\ l \notin DOMAIN fresh
  BY DEF Create
<1>2. /\ DOMAIN fresh' = DOMAIN fresh \cup {l} /\ fresh'[l] = Physical(l)
      /\ \A k \in DOMAIN fresh : fresh'[k] = fresh[k]
  BY <1>1 DEF Over
<1>3. /\ Physical(l).of = l /\ Physical(l).born = deploys
      /\ Physical(l).kind = target[l].kind /\ Physical(l).name = target[l].name
  BY DEF Physical
<1>4. Backing' /\ Excused' /\ NotDoomed'
  BY <1>1, GivenStays DEF Backing, Backed, Excused, NotDoomed
<1>5. InUse' /\ Ages'
  BY <1>1, <1>2, <1>3 DEF InUse, Ages, Accepted, Wanted, Replaced
<1>6. StackIsWhole'
  BY <1>1 DEF StackIsWhole
<1>7. Values(fresh') = Values(fresh) \cup {Physical(l)} /\ Values(stack') = Values(stack)
  BY <1>1, <1>2 DEF Values
<1>8. Leftover'
  BY <1>1, <1>7, GivenStays DEF Leftover
<1>9. NamesAreHeldOnce'
  <2>1. \A p \in account : ~(/\ p.kind = Physical(l).kind /\ p.name = Physical(l).name
                              /\ Physical(l).name # << >>)
    BY <1>3 DEF Create, Holders
  <2> QED  BY <1>1, <2>1 DEF NamesAreHeldOnce
<1> QED  BY <1>4, <1>5, <1>6, <1>8, <1>9

\* A failure deletes only what the deployment itself made.
LEMMA UndoKeeps ==
  ASSUME IInv, phase = "creating", Undo
  PROVE  IInv'
<1> USE DEF IInv
<1>1. /\ given' = given /\ UNCHANGED <<project, deploys, template, stack, account, removed>>
      /\ phase' = "undoing" /\ target' = template /\ fresh' = Empty
      /\ doomed' = {fresh[l] : l \in {k \in DOMAIN fresh : ~IsKept(target[k])}}
  BY DEF Undo
<1>2. DOMAIN fresh' = {} /\ Values(fresh') = {} /\ Values(stack') = Values(stack) /\ doomed = {}
  BY <1>1 DEF Empty, Values, NotDoomed
<1>3. Backing' /\ NotDoomed' /\ NamesAreHeldOnce'
  BY <1>1, GivenStays DEF Backing, Backed, NotDoomed, NamesAreHeldOnce
<1>4. InUse' /\ Ages'
  BY <1>1, <1>2 DEF InUse, Ages, Accepted
<1>5. StackIsWhole'
  BY <1>1 DEF StackIsWhole, Ages
<1>6. ASSUME NEW p \in doomed' PROVE MayBeDeleted(p)
  <2>1. PICK l \in DOMAIN fresh : ~IsKept(target[l]) /\ p = fresh[l]
    BY <1>1, <1>6
  <2> QED  BY <2>1, DroppedMayBeDeleted DEF Backing, InUse, Wanted
<1>7. Excused'
  BY <1>1, <1>6, GivenStays DEF Excused
<1>8. ASSUME NEW p \in account, p \notin Values(stack), p \notin doomed' PROVE MayBeLeft(p)
  <2>1. CASE p \in Values(fresh)
    <3>1. PICK l \in DOMAIN fresh : p = fresh[l]
      BY <2>1 DEF Values
    <3>2. IsKept(target[l])
      BY <1>1, <1>8, <3>1
    <3> QED  BY <3>1, <3>2, KeptMayBeLeft DEF Backing, InUse, Wanted
  <2>2. CASE p \notin Values(fresh)
    BY <1>2, <1>8, <2>2 DEF Leftover
  <2> QED  BY <2>1, <2>2
<1>9. Leftover'
  BY <1>1, <1>2, <1>8, GivenStays DEF Leftover
<1> QED  BY <1>3, <1>4, <1>5, <1>7, <1>9

\* What the new template does not use is deleted, or left, as one of the templates says.
LEMMA SwitchKeeps ==
  ASSUME IInv, Switch
  PROVE  IInv'
<1> USE DEF IInv
<1> DEFINE gone     == DOMAIN stack \ DOMAIN target
           replaced == DOMAIN stack \cap Wanted
           kept     == (DOMAIN target \cap DOMAIN stack) \ Wanted
<1>1. /\ given' = given /\ UNCHANGED <<project, deploys, target, account, removed>>
      /\ phase = "creating" /\ phase' = "cleaning" /\ template' = target /\ fresh' = Empty
      /\ DOMAIN fresh = Wanted
  BY DEF Switch
<1>2. PICK old \in SUBSET replaced :
        doomed' = {stack[l] : l \in {k \in gone \cup old : ~IsKept(template[k])}
                                    \cup {k \in replaced \ old : ~IsKept(target[k])}}
  BY DEF Switch
<1>3. /\ DOMAIN stack' = Wanted \cup kept
      /\ \A l \in Wanted : stack'[l] = fresh[l]
      /\ \A l \in kept : stack'[l] = stack[l]
  BY <1>1 DEF Switch, Over
<1>4. DOMAIN fresh' = {} /\ Values(fresh') = {} /\ doomed = {}
  BY <1>1 DEF Empty, Values, NotDoomed
<1>5. Backing' /\ NotDoomed' /\ NamesAreHeldOnce'
  BY <1>1, GivenStays DEF Backing, Backed, NotDoomed, NamesAreHeldOnce
<1>6. InUse'
  BY <1>1, <1>3, <1>4 DEF InUse, Accepted, Wanted
<1>7. Ages'
  BY <1>1, <1>3, <1>4 DEF Ages
<1>8. \A l \in DOMAIN stack : /\ l \in DOMAIN template /\ stack[l].of = l /\ stack[l].kind = template[l].kind
                              /\ l \in DOMAIN target => target[l].kind = template[l].kind
  BY DEF InUse, StackIsWhole, Accepted
<1>9. StackIsWhole'
  <2>1. \A p \in doomed' : \E k \in gone \cup replaced : p = stack[k] /\ p.of = k /\ p.born < deploys
    BY <1>1, <1>2, <1>8 DEF Ages
  <2>2. ASSUME NEW l \in Wanted
        PROVE  /\ fresh[l] \in account /\ fresh[l] \notin doomed'
               /\ fresh[l].kind = target[l].kind /\ fresh[l].name = target[l].name
    BY <1>1, <2>1 DEF Ages, InUse
  <2>3. ASSUME NEW l \in kept
        PROVE  /\ stack[l] \in account /\ stack[l] \notin doomed'
               /\ stack[l].kind = target[l].kind /\ stack[l].name = target[l].name
    <3>1. target[l].name = template[l].name
      BY DEF Wanted, Replaced
    <3>2. stack[l] \notin doomed'
      BY <2>1, <1>8
    <3> QED  BY <3>1, <3>2, <1>8 DEF StackIsWhole
  <2> QED  BY <1>1, <1>3, <2>2, <2>3 DEF StackIsWhole
<1>10. ASSUME NEW p \in doomed' PROVE MayBeDeleted(p)
  <2>1. PICK l \in DOMAIN stack : /\ p = stack[l]
                                  /\ \/ ~IsKept(template[l])
                                     \/ l \in DOMAIN target /\ ~IsKept(target[l])
    BY <1>2, <1>10 DEF Wanted
  <2> QED  BY <2>1, <1>8, DroppedMayBeDeleted DEF Backing
<1>11. Excused'
  BY <1>1, <1>10, GivenStays DEF Excused
<1>12. ASSUME NEW p \in account, p \notin Values(stack'), p \notin doomed' PROVE MayBeLeft(p)
  <2>1. p \notin Values(fresh)
    BY <1>12, <1>1, <1>3 DEF Values
  <2>2. CASE p \in Values(stack)
    <3>1. PICK l \in DOMAIN stack : p = stack[l]
      BY <2>2 DEF Values
    <3>2. l \in gone \cup replaced
      BY <3>1, <1>12, <1>3 DEF Values
    <3>3. CASE l \in gone \cup old
      <4>1. IsKept(template[l])
        BY <1>2, <1>12, <3>1, <3>3
      <4> QED  BY <3>1, <4>1, <1>8, KeptMayBeLeft DEF Backing
    <3>4. CASE l \in replaced \ old
      <4>1. IsKept(target[l])
        BY <1>2, <1>12, <3>1, <3>4
      <4> QED  BY <3>1, <3>4, <4>1, <1>8, KeptMayBeLeft DEF Backing, Wanted
    <3> QED  BY <3>2, <3>3, <3>4
  <2>3. CASE p \notin Values(stack)
    BY <2>1, <2>3, <1>4 DEF Leftover
  <2> QED  BY <2>2, <2>3
<1>13. Leftover'
  BY <1>1, <1>4, <1>12, GivenStays DEF Leftover
<1> QED  BY <1>5, <1>6, <1>7, <1>9, <1>11, <1>13

\* What is doomed is not in use.
LEMMA DeleteKeeps ==
  ASSUME IInv, NEW p \in doomed, Delete(p)
  PROVE  IInv'
<1> USE DEF IInv
<1>1. /\ given' = given /\ UNCHANGED <<project, deploys, phase, template, target, stack, fresh>>
      /\ doomed' = doomed \ {p} /\ account' = account \ {p} /\ removed' = removed \cup {p}
      /\ phase \in {"cleaning", "undoing"}
  BY DEF Delete
<1>2. Backing' /\ Excused' /\ NotDoomed' /\ NamesAreHeldOnce'
  BY <1>1, GivenStays DEF Backing, Backed, Excused, NotDoomed, NamesAreHeldOnce
<1>3. InUse' /\ Ages'
  BY <1>1 DEF InUse, Accepted, Wanted, Replaced, Ages
<1>4. StackIsWhole' /\ Values(stack') = Values(stack) /\ Values(fresh') = Values(fresh)
  BY <1>1 DEF StackIsWhole, Values
<1>5. Leftover'
  BY <1>1, <1>4, GivenStays DEF Leftover
<1> QED  BY <1>2, <1>3, <1>4, <1>5

\* The end of a deployment, and a stutter.
LEMMA RestKeeps ==
  ASSUME IInv,
         UNCHANGED <<project, given, deploys, template, target, stack, fresh, account, doomed, removed>>,
         phase' = phase \/ (phase # "creating" /\ phase' = "idle" /\ doomed = {})
  PROVE  IInv'
<1> USE DEF IInv
<1>1. Backing' /\ Excused' /\ NotDoomed' /\ NamesAreHeldOnce'
  BY GivenStays DEF Backing, Backed, Excused, NotDoomed, NamesAreHeldOnce
<1>2. InUse' /\ Ages'
  BY DEF InUse, Accepted, Wanted, Replaced, Ages
<1>3. StackIsWhole' /\ Values(stack') = Values(stack) /\ Values(fresh') = Values(fresh)
  BY DEF StackIsWhole, Values
<1>4. Leftover'
  BY <1>3, GivenStays DEF Leftover
<1> QED  BY <1>1, <1>2, <1>3, <1>4

\* Every step keeps the invariant.
LEMMA NextKeeps == IInv /\ [Next]_vars => IInv'
<1> SUFFICES ASSUME IInv, [Next]_vars PROVE IInv'
  OBVIOUS
<1>1. CASE \E app \in project : Deploy(app)
  BY <1>1, DeployKeeps
<1>2. CASE \E l \in Wanted : Create(l)
  BY <1>2, CreateKeeps
<1>3. CASE \E l \in Wanted : Collide(l)
  BY <1>3, UndoKeeps DEF Collide
<1>4. CASE Fault
  BY <1>4, UndoKeeps DEF Fault
<1>5. CASE Switch
  BY <1>5, SwitchKeeps
<1>6. CASE Done
  BY <1>6, RestKeeps DEF Done
<1>7. CASE \E p \in doomed : Delete(p)
  BY <1>7, DeleteKeeps
<1>8. CASE UNCHANGED vars
  BY <1>8, RestKeeps DEF vars
<1> QED  BY <1>1, <1>2, <1>3, <1>4, <1>5, <1>6, <1>7, <1>8 DEF Next

\* So it always holds.
LEMMA InvariantHolds == Spec => []IInv
BY InitHolds, NextKeeps, PTL DEF Spec

-----------------------------------------------------------------------------
(***************************************************************************)
(* Whatever is deployed, nothing that holds data is deleted but a bucket   *)
(* that was given forceDestroy or a cluster given up to deletion.          *)
(***************************************************************************)
THEOREM DataLostByForceOnly == Spec => []DataLostByForce
<1>1. IInv => DataLostByForce
  BY DEF IInv, Excused, DataLostByForce
<1> QED  BY <1>1, InvariantHolds, PTL

(***************************************************************************)
(* What a stack leaves behind is always data it was meant to keep, never a *)
(* name of the rest: those can be deployed again.                          *)
(***************************************************************************)
THEOREM NoLitterEver == Spec => []NoLitter
<1>1. IInv => NoLitter
  BY DEF IInv, Leftover, Ages, NotDoomed, Values, NoLitter
<1> QED  BY <1>1, InvariantHolds, PTL

(***************************************************************************)
(* What is in use is only ever replaced under another name: what cannot be *)
(* changed in place has a name, and that is taken by what is in use.       *)
(***************************************************************************)
THEOREM ReplacedOnlyIfRenamedEver == Spec => ReplacedOnlyIfRenamed
<1> DEFINE P == \A l \in DOMAIN stack \cap DOMAIN stack' :
                  stack'[l] # stack[l] => stack'[l].name # stack[l].name
<1>1. ASSUME IInv, Switch PROVE P
  <2>1. SUFFICES ASSUME NEW l \in DOMAIN stack, l \in DOMAIN stack',
                        stack'[l] # stack[l], stack'[l].name = stack[l].name
                 PROVE  FALSE
    OBVIOUS
  <2>2. l \in Wanted /\ stack'[l] = fresh[l] /\ l \in DOMAIN fresh
    BY <1>1, <2>1 DEF Switch, Over, IInv, InUse
  <2>3. /\ l \in DOMAIN template /\ l \in DOMAIN target /\ target[l].kind = template[l].kind
        /\ stack[l].name = template[l].name /\ fresh[l].name = target[l].name
        /\ stack[l].kind = template[l].kind /\ fresh[l].kind = target[l].kind
        /\ stack[l] \in account
    BY <2>1, <2>2, <1>1 DEF IInv, InUse, StackIsWhole, Wanted, Accepted
  <2>4. target[l].shape # template[l].shape
    BY <2>1, <2>2, <2>3 DEF Wanted, Replaced
  <2>5. /\ target[l].shape # {} => target[l].name # << >>
        /\ template[l].shape # {} => template[l].name # << >>
    <3>1. ASSUME NEW t, Backed(t), NEW k \in DOMAIN t
          PROVE  t[k].shape # {} => t[k].name # << >>
      <4>1. PICK g \in given : /\ IsConstruct(g[2]) /\ k[2] \in DOMAIN Resources(g[2])
                               /\ t[k] = Resources(g[2])[k[2]]
        BY <3>1 DEF Backed
      <4>2. Decides(g[2], k[2], t[k])
        BY <4>1, ResourcesDecide
      <4> QED  BY <4>2 DEF Decides
    <3> QED  BY <3>1, <2>3, <1>1 DEF IInv, Backing
  <2>6. stack[l].name # << >>
    BY <2>1, <2>2, <2>3, <2>4, <2>5
  <2>7. fresh[l] \in account /\ fresh[l].born = deploys /\ stack[l].born < deploys
    BY <2>1, <2>2, <1>1 DEF IInv, Ages, Switch
  <2> QED  BY <2>1, <2>2, <2>3, <2>6, <2>7, <1>1 DEF IInv, NamesAreHeldOnce
<1>2. ASSUME [Next]_vars, ~Switch PROVE stack' = stack
  BY <1>2 DEF Next, vars, Deploy, Create, Collide, Undo, Fault, Done, Delete
<1>3. IInv /\ [Next]_vars => [P]_vars
  BY <1>1, <1>2
<1> QED  BY <1>3, InvariantHolds, PTL DEF Spec, ReplacedOnlyIfRenamed
=============================================================================
