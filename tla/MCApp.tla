------------------------------- MODULE MCApp --------------------------------
(* App with two roots, a few overrides, and for every class the options    *)
(* that make its constructor take a different path.                        *)
EXTENDS App

CONSTANTS A, B,              \* two construct ids
          a, b, dash         \* two letters and '-'

MCWord == [w \in WordName |-> [word |-> w]]
MCAtom == {a, b, dash} \cup {MCWord[w] : w \in WordName}
MCSpecial == {}
MCCase == [c \in MCAtom |-> c]           \* letters and words without case

\* An ideal hash: here names meet only if they are made to, not because five digits do.
MCHexDigit(s, i) == [digit |-> i, of |-> s]

\* Two contexts of one name; the DLQ, secret and key contexts of the second are cut to
\* 7 characters.
MCRootProps ==
  { [name |-> <<a>>],
    [namespace |-> <<b, a, b, a, b>>, name |-> <<a>>, idLengthLimit |-> 7,
     tags |-> [Owner |-> <<b>>]] }

MCOverrides ==
  { [attributes |-> << <<MCWord["dlq"]>> >>],
    [name |-> <<b>>, enabled |-> FALSE],
    [name |-> <<b>>, labelOrder |-> <<"attributes", "name">>] }

\* A construct id is compared, never read.
MCSymmetry == Permutations({A, B})

MCAppTags == { [Owner |-> <<a>>] }

https == [protocol |-> "https", endpoint |-> "https://x"]
sqs   == [protocol |-> "sqs", endpoint |-> "q"]
route(key, integration) == [key |-> key, integration |-> integration]
policy(document) == [name |-> "p", document |-> document]

MCOptions ==
  [SqsQueue |-> { [fifo |-> FALSE], [fifo |-> TRUE, dlqEnabled |-> TRUE] },
   Sns |-> { [subscribers |-> <<sqs, sqs, https>>, sqsDlqEnabled |-> TRUE],
             [subscribers |-> <<https, https>>],
             [fifoTopic |-> TRUE, subscribers |-> <<sqs>>, sqsDlqEnabled |-> TRUE,
              sqsDlqFifo |-> TRUE, redrivePolicy |-> "valid"],
             [subscribers |-> <<https>>, sqsDlqEnabled |-> TRUE, redrivePolicy |-> "malformed"],
             [snsTopicPolicyJson |-> "malformed"],
             [subscribers |-> <<sqs, [protocol |-> "carrier-pigeon", endpoint |-> "q"]>>] },
   SfnErrorNotification |-> { [alarmPeriodSeconds |-> 60] },
   LambdaErrorNotification |-> { [alarmPeriodSeconds |-> 60] },
   ExpressSfnErrorNotification |->
     { [stepFunctions |-> << [key |-> "x", text |-> <<a>>], [key |-> "y", text |-> <<b>>] >>] },
   LambdaFunction |-> { [filename |-> "dist", publish |-> TRUE], [filename |-> "missing"],
                        [s3Bucket |-> "code", s3Key |-> "k", roleName |-> "r"],
                        [imageUri |-> "malformed"] },
   StepFunctions |-> { [policyDocuments |-> "valid"],
                       [existingLogGroupArn |-> "arn", policyDocuments |-> "malformed"] },
   HttpApiGateway |-> { [integrations |-> <<"x">>, routes |-> <<route("r", "x"), route("s", "y")>>,
                         vpcLinks |-> <<"v">>, dnsName |-> TRUE, acmCertificateArn |-> TRUE,
                         route53ZoneIds |-> <<"z">>],
                        [openApiBody |-> TRUE, accessLoggingEnabled |-> FALSE],
                        [stages |-> <<"dev", "dev">>] },
   Slackbot |-> { [slackChannels |-> "c"] },
   S3Bucket |-> { [bucketKeyEnabled |-> TRUE] },
   S3LogStorage |-> { [notificationsEnabled |-> TRUE],
                      [sourcePolicyDocuments |-> "malformed", notificationsEnabled |-> TRUE],
                      [notificationsEnabled |-> TRUE, notificationsType |-> "SNS"] },
   Secret |-> { [createSns |-> TRUE], [createKmsKey |-> FALSE, createSns |-> FALSE] },
   KmsKey |-> { [policy |-> "valid"], [policy |-> "malformed"] },
   S3Website |-> { [wafEnabled |-> TRUE, dnsAliasEnabled |-> TRUE, parentZoneId |-> TRUE] },
   Ses |-> { [verifyDomain |-> TRUE, verifyDkim |-> TRUE, zoneId |-> TRUE, zoneName |-> TRUE],
             [sesGroupEnabled |-> FALSE, inlinePolicies |-> "malformed"] },
   IamRole |-> { [policyDocuments |-> "valid", inlinePolicies |-> <<policy("malformed")>>],
                 [useFullname |-> FALSE, inlinePolicies |-> <<policy("valid")>>,
                  instanceProfileEnabled |-> TRUE, tagsEnabled |-> FALSE] },
   IamPolicy |-> { [iamPolicyEnabled |-> TRUE], [iamPolicyEnabled |-> FALSE],
                   [iamPolicyEnabled |-> TRUE, overridePolicyDocuments |-> "malformed"] },
   IamUser |-> { [userName |-> "u"] },
   Dynamodb |-> { [hashKey |-> "id", enableAutoscaler |-> TRUE,
                   globalSecondaryIndexes |-> << [name |-> "x", keys |-> {"id"}] >>],
                  [hashKey |-> "id", hashKeyType |-> "N",
                   globalSecondaryIndexes |-> << [name |-> "x", keys |-> {"id"}] >>] },
   KinesisStream |-> { [consumerCount |-> 2] },
   RedshiftCluster |-> { [port |-> 5439] },
   AuroraDsql |-> { [deleteProtection |-> TRUE] },
   Eventbridge |-> { [policyDocument |-> "valid"], [policyDocument |-> "malformed"] },
   EventbridgeRule |-> { [targetEventBusArn |-> "arn"] },
   CloudwatchEvents |->
     { [rules |-> << [name |-> "x", text |-> <<a>>, targets |-> <<"sqs", "lambda">>],
                     [name |-> "y", text |-> <<b>>, targets |-> <<"pigeon">>] >>],
       [rules |-> << >>] },
   CloudTrail |-> { [cloudWatchLogsEnabled |-> TRUE] },
   CloudtrailCloudwatchAlarms |-> { [enabledAlarms |-> {"root-usage", "no-such-alarm"}] },
   CloudwatchFlowLogs |-> { [trafficType |-> "ALL"] }]
=============================================================================
