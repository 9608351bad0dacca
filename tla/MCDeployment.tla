---------------------------- MODULE MCDeployment -----------------------------
(***************************************************************************)
(* Deployment for a project of each class, whose apps give one construct   *)
(* its options, disable it or drop it, and for two whose constructs move,  *)
(* change class or take each other's names.                                *)
(***************************************************************************)
EXTENDS Deployment, TLC

Make(class) == [class |-> class, id |-> "x"]

\* Tables that differ in one key, its type or an index.
Table == [hashKey |-> "k1"]
TableOptions ==
  {Table, [hashKey |-> "k2"], [hashKeyType |-> "N"] @@ Table, [rangeKey |-> "k2"] @@ Table,
   [rangeKey |-> "k2", localSecondaryIndexes |-> {"i"}] @@ Table}

\* The options that make a difference to the resources of a class.
Options(class) ==
  CASE class = "S3Bucket" -> {[forceDestroy |-> TRUE], [bucketName |-> <<"y">>]}
    [] class = "S3LogStorage" -> {[notificationsEnabled |-> TRUE, forceDestroy |-> f] : f \in BOOLEAN}
    [] class = "Dynamodb" -> TableOptions
    [] class = "Secret" -> {[createKmsKey |-> FALSE]}
    [] class = "SqsQueue" -> {[dlqEnabled |-> TRUE, fifo |-> f] : f \in BOOLEAN}
    [] class = "KmsKey" -> {[id |-> "y"], [alias |-> <<"y">>]}
    [] class = "KinesisStream" -> {[consumerCount |-> 2],
                                   [id |-> "y", consumerCount |-> 1, enforceConsumerDeletion |-> FALSE]}
    [] class = "AuroraDsql" -> {[deleteProtection |-> FALSE]}
    [] class = "CloudTrail" -> {[cloudWatchLogsEnabled |-> TRUE]}
    [] class = "Sns" -> {[sqsDlqEnabled |-> TRUE]}
    [] class = "ExpressSfnErrorNotification" -> {[stepFunctions |-> ks] : ks \in {{"k1"}, {"k1", "k2"}}}
    [] OTHER -> {[id |-> "y"]}

Of(class) ==
  {Make(class)} \cup {o @@ Make(class) : o \in Options(class) \cup {[enabled |-> FALSE] @@ Table}}

\* A construct that moves or changes class, and two that are named alike.
Movers == {Make(class) : class \in {"S3Bucket", "S3LogStorage"}} \cup {[Make("S3Bucket") EXCEPT !.id = "y"]}
Queues == {[Make("SqsQueue") EXCEPT !.id = i] : i \in {"x", "y"}} \cup {[dlqEnabled |-> TRUE] @@ Make("SqsQueue")}

MCProjects ==
  {{[A |-> c] : c \in {d \in Of(class) : class = "Dynamodb" => "hashKey" \in DOMAIN d}} \cup {<< >>} :
     class \in Class}
  \cup {{[s \in ids |-> c] : ids \in {{"A"}, {"B"}}, c \in cs} \cup {[A |-> c, B |-> d] : c, d \in cs} :
          cs \in {Movers, Queues}}
=============================================================================
