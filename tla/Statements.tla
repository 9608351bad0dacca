----------------------------- MODULE Statements -----------------------------
(***************************************************************************)
(* The policy statements the constructors build.  For each class, one      *)
(* operator gives what its constructor adds to the account: statements of  *)
(* resource and trust policies, statements of identity policies, and the   *)
(* requests the parts it wires together will make.  Statements CDK adds    *)
(* for a grant or a target the constructor asks for are included; those it *)
(* cannot add, because the other side is an imported resource, are not.    *)
(***************************************************************************)
EXTENDS Iam, SequencesExt

CONSTANTS
  Account         \* this account

-----------------------------------------------------------------------------
(* Shared shapes.                                                          *)

\* What one constructor adds: to the policies of resources, to those of identities, and to
\* the requests that will be made.
Adds(policy, identity, wired) == [policy |-> policy, identity |-> identity, wired |-> wired]

Is(props, f) == Given(props, f, FALSE)

\* A service acting for a resource of this account, and a call by a principal.
Acting(service, action, on) ==
  Request(Service(service), action, on, [SourceAccount |-> Account, SecureTransport |-> "true"])
Calling(by, action, on) == Request(by, action, on, [SecureTransport |-> "true"])

ActionsOf(service, verbs) == {<<service, v>> : v \in verbs}

Assume  == <<"sts", "AssumeRole">>
Publish == <<"sns", "Publish">>
Send    == <<"sqs", "SendMessage">>
Receive == <<"sqs", "ReceiveMessage">>
Put     == <<"s3", "PutObject">>
Get     == <<"s3", "GetObject">>
PutLogs == <<"logs", "PutLogEvents">>
Start   == <<"states", "StartExecution">>
Invoke  == <<"lambda", "InvokeFunction">>
GetSecret == <<"secretsmanager", "GetSecretValue">>
Decrypt   == <<"kms", "Decrypt">>

\* What CDK grants: grantSendMessages, grantConsumeMessages, LogGroup.grantWrite, and the
\* managed policy AWSLambdaBasicExecutionRole.
SendActions    == ActionsOf("sqs", {"SendMessage", "GetQueueAttributes", "GetQueueUrl"})
ConsumeActions == ActionsOf("sqs", {"ReceiveMessage", "ChangeMessageVisibility", "GetQueueUrl",
                                    "DeleteMessage", "GetQueueAttributes"})
LogActions     == ActionsOf("logs", {"CreateLogStream", "PutLogEvents"})
BasicExecution ==
  Allow({}, ActionsOf("logs", {"CreateLogGroup", "CreateLogStream", "PutLogEvents"}), {Anything})

\* assumedBy: new ServicePrincipal(..)
Trusting(role, who) == {Allow(who, {Assume}, {role})}

buildPrincipal(type, id) ==
  CASE type = "Service"   -> Service(id)
    [] type = "Federated" -> Federated(id)
    [] OTHER              -> Arn(id)

\* principals?: Record<type, ids>
PrincipalsOf(given) ==
  UNION {{buildPrincipal(type, id) : id \in given[type]} : type \in DOMAIN given}

\* addCondition(test, {variable: values}): of one test and variable the last values stay.
AddCondition(conditions, c) == Only(<<c.test, c.variable>>, c.values) ++ conditions

\* A document is the set of its statements.  JSON.parse(doc).Statement of every document.
parseDocumentStatements(docs) == UNION docs

-----------------------------------------------------------------------------
(* SqsQueue.  The type of a principal is Service, or anything else.        *)

SqsPolicyStatement(stmt) ==
  LET who(type, id) == IF type = "Service" THEN Service(id) ELSE Arn(id)
      given == Given(stmt, "principals", EmptyMap)
  IN  Statement([sid        |-> Given(stmt, "sid", ""),
                 effect     |-> IF Given(stmt, "effect", "Allow") = "Deny" THEN "Deny" ELSE "Allow",
                 principals |-> UNION {{who(t, id) : id \in given[t]} : t \in DOMAIN given},
                 actions    |-> stmt.actions,
                 resources  |-> stmt.resources,
                 conditions |-> Given(stmt, "conditions", EmptyMap)])

SqsLimit_TestInverted(queue) ==
  Statement([effect     |-> "Deny",
             principals |-> {AnyPrincipal},
             actions    |-> {<<"sqs", "*">>},
             resources  |-> {queue},
             conditions |-> Only(<<"StringEquals", "SourceAccount">>, {Account})])
SqsLimit(queue) ==
  Statement([effect     |-> "Deny",
             principals |-> {AnyPrincipal},
             actions    |-> {<<"sqs", "*">>},
             resources  |-> {queue},
             conditions |-> Only(<<"StringNotEquals", "SourceAccount">>, {Account})])
SqsQueue(self, props) ==
  LET queue == <<self, "Queue">>
      statements == {SqsPolicyStatement(s) : s \in Given(props, "iamPolicyStatements", {})}
      limit == IF Given(props, "iamPolicyLimitToCurrentAccount", TRUE) THEN {SqsLimit(queue)} ELSE {}
  IN  Adds(Only(queue, statements \cup limit), EmptyMap, {})

-----------------------------------------------------------------------------
(* Sns.  A given policy replaces the allowances.  CDK would let the topic  *)
(* send to a queue of the same app; the queues of subscribers are imported *)
(* and keep the policy of their owner.  The DLQ gets no policy.            *)

Publishers(props) ==
  IF "snsTopicPolicyJson" \in DOMAIN props THEN {}
  ELSE {Service(s) : s \in Given(props, "allowedAwsServicesForPublish", {})}
       \cup {Arn(id) : id \in Given(props, "allowedIamArnsForPublish", {})}

PublishBy(by, topic) ==
  IF by.type = "Service" THEN Acting(by.id[1], Publish, topic) ELSE Calling(by, Publish, topic)

Sns(self, props) ==
  LET topic == <<self, "Topic">>
      dlq   == <<self, "Dlq">>
      statements == IF "snsTopicPolicyJson" \in DOMAIN props THEN props.snsTopicPolicyJson
                    ELSE {Allow({p}, {Publish}, {topic}) : p \in Publishers(props)}
      queues == {s.endpoint : s \in {t \in Given(props, "subscribers", {}) : t.protocol = "sqs"}}
      redriven == IF Is(props, "sqsDlqEnabled") THEN {dlq} ELSE {}
  IN  Adds(Only(topic, statements) ++ [q \in redriven |-> {}],
           EmptyMap,
           {PublishBy(p, topic) : p \in Publishers(props)}
           \cup {Acting("sns", Send, q) : q \in queues \cup redriven})

-----------------------------------------------------------------------------
(* Secret.  Of the identifiers of a service or federated reader only the   *)
(* first is used; an ARN principal is a composite of all of them.          *)

mapPrincipal(p) ==
  CASE p.type = "Service"   -> {Service(p.identifiers[1])}
    [] p.type = "Federated" -> {Federated(p.identifiers[1])}
    [] OTHER                -> {Arn(id) : id \in ToSet(p.identifiers)}

GivenConditions(principals) ==
  FlattenSeq([i \in DOMAIN principals |-> Given(principals[i], "conditions", << >>)])

buildConditions_ResetsTest(principals) ==
  FoldLeft(LAMBDA acc, c : Only(<<c.test, c.variable>>, c.values)
                           ++ [k \in {x \in DOMAIN acc : x[1] # c.test} |-> acc[k]],
           EmptyMap, GivenConditions(principals))
buildConditions(principals) ==
  FoldLeft(AddCondition, EmptyMap, GivenConditions(principals))

AnyOf(principals) == UNION {mapPrincipal(p) : p \in ToSet(principals)}

secretReadPolicyStatements(secret, keys, principals) ==
  LET read == Allow(AnyOf(principals), ActionsOf("secretsmanager", {"GetSecretValue", "DescribeSecret"}),
                    {secret})
  IN  {[read EXCEPT !.conditions = buildConditions(principals)]}
      \cup {Allow(AnyOf(principals), ActionsOf("kms", {"Decrypt", "DescribeKey"}), {k}) : k \in keys}

snsPublishPolicyStatement(topic, principals)   == Allow(AnyOf(principals), {Publish}, {topic})
snsSubscribePolicyStatement(topic, principals) == Allow(AnyOf(principals), {<<"sns", "Subscribe">>}, {topic})

\* The key is CDK's default one: the account decides.
Secret(self, props) ==
  LET secret == <<self, "Secret">>
      topic  == <<self, "Topic">>
      keys   == IF Given(props, "createKmsKey", TRUE) THEN {<<self, "Key">>} ELSE {}
      list(f) == Given(props, f, << >>)
      one(f, statements) == IF list(f) = << >> THEN {} ELSE statements
      readers == one("secretReadPrincipals",
                     secretReadPolicyStatements(secret, keys, list("secretReadPrincipals")))
      topics == one("snsPubPrincipals", {snsPublishPolicyStatement(topic, list("snsPubPrincipals"))})
                \cup one("snsSubPrincipals", {snsSubscribePolicyStatement(topic, list("snsSubPrincipals"))})
  IN  Adds(Only(secret, readers)
           ++ [k \in keys |-> {Allow({Root}, {<<"kms", "*">>}, {k})}]
           ++ [t \in IF Is(props, "createSns") THEN {topic} ELSE {} |-> topics],
           EmptyMap,
           {Calling(by, Decrypt, k) : by \in AnyOf(list("secretReadPrincipals")), k \in keys})

-----------------------------------------------------------------------------
(* S3Bucket, S3LogStorage, S3Website.                                      *)

AllowSSLRequestsOnly(bucket) ==
  Statement([sid        |-> "AllowSSLRequestsOnly",
             effect     |-> "Deny",
             principals |-> {AnyPrincipal},
             actions    |-> {<<"s3", "*">>},
             resources  |-> {bucket, Objects(bucket)},
             conditions |-> Only(<<"Bool", "SecureTransport">>, {"false"})])

DenyUnEncryptedObjectUploads(bucket) ==
  Statement([sid        |-> "DenyUnEncryptedObjectUploads",
             effect     |-> "Deny",
             principals |-> {AnyPrincipal},
             actions    |-> {Put},
             resources  |-> {Objects(bucket)},
             conditions |-> Only(<<"StringNotEquals", "x-amz-server-side-encryption">>, {"aws:kms"})])

S3BucketPolicy(bucket, props) ==
  (IF Is(props, "allowSslRequestsOnly") THEN {AllowSSLRequestsOnly(bucket)} ELSE {})
  \cup (IF Is(props, "allowEncryptedUploadsOnly") THEN {DenyUnEncryptedObjectUploads(bucket)} ELSE {})
  \cup parseDocumentStatements(Given(props, "sourcePolicyDocuments", {}))

S3Bucket(self, props) ==
  LET bucket == <<self, "Bucket">>
  IN  Adds(Only(bucket, S3BucketPolicy(bucket, props)), EmptyMap, {})

\* What is passed on to the S3Bucket inside, of the props that concern its policy.
toS3BucketProps(props) ==
  [allowSslRequestsOnly  |-> Given(props, "allowSslRequestsOnly", TRUE),
   sourcePolicyDocuments |-> Given(props, "sourcePolicyDocuments", {})]

\* CDK lets the bucket send to the queue it notifies.
S3LogStorage(self, props) ==
  LET bucket == <<self, "Bucket", "Bucket">>
      notified == IF Is(props, "notificationsEnabled") /\ Given(props, "notificationsType", "SQS") = "SQS"
                  THEN {<<self, "NotificationQueue">>} ELSE {}
  IN  Adds(Only(bucket, S3BucketPolicy(bucket, toS3BucketProps(props)))
           ++ [q \in notified |-> {Allow({Service("s3")}, SendActions, {q})}],
           EmptyMap,
           {Acting("s3", Send, q) : q \in notified})

\* CDK lets the distribution read the bucket; grantPut for whoever deploys.
S3Website(self, props) ==
  LET bucket == <<self, "OriginBucket">>
      deployers == {Arn(id) : id \in Given(props, "deploymentPrincipalArns", {})}
  IN  Adds(Only(bucket, {Allow({Service("cloudfront")}, {Get}, {Objects(bucket)})}
                        \cup {Allow({p}, {Put}, {Objects(bucket)}) : p \in deployers}),
           EmptyMap,
           {Acting("cloudfront", Get, Objects(bucket))}
           \cup {Calling(p, Put, Objects(bucket)) : p \in deployers})

\* The bucket of a trail is imported: whoever made it has to let CloudTrail in.  Log files
\* are encrypted with a key of KMS if one is given.
CloudTrail(self, props) ==
  LET put == Acting("cloudtrail", Put, Objects(props.s3BucketName))
  IN  Adds(EmptyMap, EmptyMap,
           {IF Is(props, "kmsKeyArn")
            THEN [put EXCEPT !.keys = @ ++ Only("x-amz-server-side-encryption", "aws:kms")]
            ELSE put})
=============================================================================
