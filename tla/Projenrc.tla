------------------------------ MODULE Projenrc ------------------------------
(***************************************************************************)
(* The packages of the workspace and what each is compiled against, as     *)
(* .projenrc.ts registers them: package |-> its peerDeps and deps among    *)
(* the packages.                                                           *)
(***************************************************************************)
EXTENDS TLC

ctx == {"cdk-context"}

\* Packages that need nothing but cdk-context.
OnContext ==
  {"cdk-bridge", "kms-key", "s3-bucket", "s3-website", "secret", "iam-role", "iam-policy", "iam-user",
   "lambda-function", "sqs-queue", "sns", "kinesis-stream", "eventbridge", "eventbridge-rule",
   "dynamodb", "redshift-cluster", "ses", "http-api-gateway", "cloudtrail",
   "cloudtrail-cloudwatch-alarms", "cloudwatch-events", "cloudwatch-flow-logs"}

pkg == ("cdk-context" :> {})
       @@ [p \in OnContext |-> ctx]
       @@ ("s3-log-storage" :> ctx \cup {"s3-bucket"})
       @@ ("step-functions" :> ctx \cup {"iam-role"})
       @@ ("slackbot" :> ctx \cup {"sns", "lambda-function"})
       @@ [p \in {"lambda-error-notification", "sfn-error-notification", "express-sfn-error-notification"}
             |-> ctx \cup {"sqs-queue"}]

\* In packages/ with sources and a lib of its own, and not registered.
Unregistered == {"aurora-dsql"}
=============================================================================
