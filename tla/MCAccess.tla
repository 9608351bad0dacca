------------------------------ MODULE MCAccess ------------------------------
(* Access with three constructs that may refer to each other, and for every   *)
(* class the props that make its statements differ.                         *)
EXTENDS Access

CONSTANTS A, B, C            \* three construct ids

partner == <<"partner">>     \* a role of another account
ci      == <<"ci">>          \* a role of this account that no construct made
outside == <<"outside">>     \* a resource no construct made

MCForeign  == {partner}
MCSymmetry == Permutations({A, B, C})

Of(name)     == {<<x, name>> : x \in {A, B, C}}
Queues       == {outside} \cup Of("Queue")

\* {Service: [..]}, {AWS: [..]}
services(names) == [Service |-> names]
arns(ids)       == [AWS |-> ids]

QueueStatement(principals, actions) ==
  [principals |-> principals, actions |-> actions, resources |-> {Anything}]

MCSqsQueue ==
  { [fifo |-> FALSE],
    [iamPolicyStatements |-> {QueueStatement(services({"sns", "events"}), {Send})}],
    [iamPolicyStatements |->
       {QueueStatement(services({"events"}), {Send})
        ++ [conditions |-> Only(<<"StringEquals", "SourceAccount">>, {Account})],
        QueueStatement(arns({ci, partner}), {Receive})}],
    [iamPolicyStatements |->
       {QueueStatement(arns({partner}), {Receive}),
        QueueStatement(arns({ci}), {Send}) ++ [effect |-> "Deny"]},
     iamPolicyLimitToCurrentAccount |-> FALSE] }

Queue(q) == [protocol |-> "sqs", endpoint |-> q]
MCSns ==
  { [allowedAwsServicesForPublish |-> {"events", "s3"}, allowedIamArnsForPublish |-> {ci, partner}],
    [snsTopicPolicyJson |-> {Allow({Service("events")}, {Publish}, {Anything})},
     allowedAwsServicesForPublish |-> {"s3"}] }
  \cup { [subscribers |-> {Queue(q)}, sqsDlqEnabled |-> TRUE] : q \in Queues }

\* Readers, with the conditions of two tests and two variables.
Condition(test, variable, value) == [test |-> test, variable |-> variable, values |-> {value}]
reader(ids, conditions) == [type |-> "AWS", identifiers |-> ids, conditions |-> conditions]
MCSecret ==
  { [secretReadPrincipals |-> <<reader(<<ci, partner>>, << >>)>>, createKmsKey |-> FALSE],
    [secretReadPrincipals |->
       <<reader(<<ci>>, <<Condition("StringEquals", "VpcId", "v"), Condition("StringEquals", "Stage", "x")>>),
         [type |-> "Service", identifiers |-> <<"rds", "lambda">>]>>],
    [secretReadPrincipals |->
       <<reader(<<ci>>, <<Condition("StringEquals", "VpcId", "v")>>),
         reader(<<partner>>, <<Condition("StringEquals", "VpcId", "w"),
                               Condition("StringNotEquals", "Stage", "x")>>)>>,
     createSns |-> TRUE,
     snsPubPrincipals |-> <<[type |-> "Service", identifiers |-> <<"events">>]>>,
     snsSubPrincipals |-> <<reader(<<ci>>, << >>)>>] }

Everywhere(principals, actions) == Allow(principals, actions, {Anything})
LetAllIn == {Everywhere({AnyPrincipal}, {<<"s3", "*">>})}
TrailDocument == {Everywhere({Service("cloudtrail")}, {Put})}
MCS3Bucket ==
  { [sourcePolicyDocuments |-> {TrailDocument, LetAllIn}, allowSslRequestsOnly |-> TRUE],
    [sourcePolicyDocuments |-> {TrailDocument}, allowEncryptedUploadsOnly |-> TRUE] }
MCS3LogStorage ==
  { [notificationsEnabled |-> TRUE],
    [sourcePolicyDocuments |-> {LetAllIn}, notificationsEnabled |-> TRUE, notificationsType |-> "SNS"],
    [sourcePolicyDocuments |-> {TrailDocument}, allowSslRequestsOnly |-> FALSE] }

Buckets == Of("Bucket") \cup {<<x, "Bucket", "Bucket">> : x \in {A, B, C}}
MCCloudTrail == {[s3BucketName |-> b, kmsKeyArn |-> k] : b \in Buckets, k \in BOOLEAN}

\* Statements of one sid, of another, and of none.
s3Read(on)  == [actions |-> {Get}, resources |-> {on}]
Sid(sid, s) == s ++ [sid |-> sid]
MCIamPolicy ==
  { [policyStatements |->
       [Read    |-> s3Read(outside),
        NoWrite |-> [effect |-> "Deny", actions |-> {Put}, resources |-> {outside}]]],
    [policyStatements |->
       [Read |-> [effect |-> "Deny", actions |-> {Get}, resources |-> {outside}],
        Rest |-> [notActions |-> {Put}, notResources |-> {}]],
     overridePolicyDocuments |->
       {{Statement(Sid("NoWrite", [actions |-> {Put}, resources |-> {outside}]))}}],
    [sourcePolicyDocuments |-> {{Statement(s3Read(outside))},
                                {Statement(Sid("Read", s3Read(Anything)))}},
     overridePolicyDocuments |->
       {{Statement(Sid("Read", s3Read(outside))), Statement([actions |-> {Put}, resources |-> {outside}])}}] }

MCIamRole ==
  { [principals |-> services({"lambda"}), inlinePolicies |-> {{Allow({}, {Get, Put}, {Anything})}}],
    [principals |-> arns({ci}),
     assumeRoleConditions |-> <<Condition("StringEquals", "ExternalId", "e")>>],
    [inlinePolicies |-> {{Allow({}, {Receive}, {Anything}),
                         [Allow({}, {Send}, {Anything}) EXCEPT !.effect = "Deny"]}}],
    [assumeRolePolicyDocumentOverride |-> {Allow({Service("pipes")}, {Assume}, {Anything})}] }

MCStepFunctions ==
  { [type |-> "STANDARD"],
    [existingLogGroupArn |-> outside, policyDocuments |-> {{Allow({}, {Get}, {Anything})}}],
    [principals |-> arns({ci})],
    [principals |-> [Service |-> {"states"}, AWS |-> {partner}]],
    [principals |-> services({})] }

MCLambdaFunction ==
  { [ssmParameterNames |-> {<<"parameter">>}],
    [roleSourcePolicyDocuments |-> {{Allow({}, {Send}, {Anything})}}] }
  \cup { [roleName |-> r] : r \in Of("Role") }

MCSfnErrorNotification == {[stateMachineArn |-> m] : m \in Of("StateMachine") \cup {outside}}
MCLambdaErrorNotification ==
  { [lambdaArn |-> <<x, "Function">>, lambdaRoleName |-> <<x, "Role">>] : x \in {A, B, C} }
MCExpressSfnErrorNotification == {[stepFunctions |-> [x |-> m, y |-> outside]] : m \in Of("StateMachine")}

MCSlackbot ==
  { [slackTokenSecretArn |-> s, snsPubPrincipals |-> [Service |-> {"cloudwatch"}, AWS |-> {partner}]] :
      s \in Of("Secret") }
  \cup { [slackTokenSecretArn |-> <<x, "Secret">>, slackTokenSecretKmsKeyArn |-> <<x, "Key">>,
          snsSubPrincipals |-> arns({ci})] : x \in {A, B, C} }

MCSes == { [sesGroupEnabled |-> TRUE], [sesGroupEnabled |-> FALSE],
           [iamAllowedResources |-> {Anything}, sesUserEnabled |-> TRUE],
           [sesUserEnabled |-> FALSE] }

MCCloudwatchEvents ==
  {[targets |-> {[type |-> "sqs", arn |-> q], [type |-> "sns", arn |-> t]}] :
     q \in Queues, t \in Of("Topic")}

MCOptions ==
  [SqsQueue |-> MCSqsQueue, Sns |-> MCSns, Secret |-> MCSecret, S3Bucket |-> MCS3Bucket,
   S3LogStorage |-> MCS3LogStorage, S3Website |-> {[deploymentPrincipalArns |-> {ci}]},
   CloudTrail |-> MCCloudTrail, IamPolicy |-> MCIamPolicy, IamRole |-> MCIamRole,
   StepFunctions |-> MCStepFunctions, LambdaFunction |-> MCLambdaFunction,
   SfnErrorNotification |-> MCSfnErrorNotification,
   LambdaErrorNotification |-> MCLambdaErrorNotification,
   ExpressSfnErrorNotification |-> MCExpressSfnErrorNotification, Slackbot |-> MCSlackbot,
   CloudwatchFlowLogs |-> {[trafficType |-> "ALL"]}, Ses |-> MCSes,
   CloudwatchEvents |-> MCCloudwatchEvents,
   EventbridgeRule |-> {[targetArn |-> q] : q \in Queues}]

\* The constructs whose documents promise what their policies do not do.
MCPromising ==
  [class \in DOMAIN MCOptions |->
     IF class \in {"SqsQueue", "Sns", "Secret", "ExpressSfnErrorNotification"}
     THEN MCOptions[class] ELSE {}]

\* Callers of every kind, and request contexts with the keys conditions are about.
MCCallers ==
  {Service("sns"), Service("events"), Service("cloudtrail"), Arn(ci), Arn(partner)}
  \cup {Arn(r) : r \in Of("Role")}

MCRequestKeys ==
  {[SourceAccount |-> s, SecureTransport |-> t] : s \in {Account, "other"}, t \in {"true", "false"}}
  \cup {[SecureTransport |-> t] : t \in {"true", "false"}}
  \cup {[SecureTransport |-> "true"] ++ Only("x-amz-server-side-encryption", h) :
          h \in {"aws:kms", "AES256"}}
  \cup {[SecureTransport |-> "true", VpcId |-> v, Stage |-> s] : v \in {"v", "w"}, s \in {"x", "z"}}
=============================================================================
