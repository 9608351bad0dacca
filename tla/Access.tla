------------------------------- MODULE Access -------------------------------
(***************************************************************************)
(* The policies the constructs of one stack write, and the requests the    *)
(* parts they deploy will make.  Constructs are made one after the other,  *)
(* in enabled contexts (App has the others); what each adds is in          *)
(* Statements and Roles.  A construct may be given what another made: the  *)
(* name of a role, the arn of a queue, the json of an IamPolicy.           *)
(***************************************************************************)
EXTENDS Roles, FiniteSets

CONSTANTS
  Ids,            \* the ids of constructs
  Options,        \* class |-> the props it may be given
  MaxConstructs,  \* bound: how many constructs the stack has
  Callers,        \* principals the properties try
  RequestKeys     \* request contexts the properties try

Class == {"SqsQueue", "Sns", "Secret", "S3Bucket", "S3LogStorage", "S3Website", "CloudTrail",
          "IamPolicy", "IamRole", "StepFunctions", "LambdaFunction", "SfnErrorNotification",
          "LambdaErrorNotification", "ExpressSfnErrorNotification", "Slackbot",
          "CloudwatchFlowLogs", "Ses", "CloudwatchEvents", "EventbridgeRule"}

ASSUME AccessAssumption == MaxConstructs \in Nat /\ DOMAIN Options = Class

\* The readers of a secret are a list, each with a list of conditions or none.
SecretPrincipalCondition == [test : STRING, variable : STRING, values : SUBSET STRING]
ASSUME SecretAssumption ==
  \A props \in Options.Secret :
    LET readers == Given(props, "secretReadPrincipals", << >>)
    IN  /\ readers \in Seq(ToSet(readers))
        /\ \A r \in ToSet(readers) : Given(r, "conditions", << >>) \in Seq(SecretPrincipalCondition)

VARIABLES
  made,       \* construct |-> [class, props]
  policy,     \* resource |-> the statements of its resource or trust policy
  identity,   \* role or user |-> the statements of its identity policies
  documents,  \* IamPolicy |-> its document
  wired       \* the requests the deployed parts make, each with the construct it is from

vars == <<made, policy, identity, documents, wired>>

Init ==
  /\ made = EmptyMap
  /\ policy = EmptyMap
  /\ identity = EmptyMap
  /\ documents = EmptyMap
  /\ wired = {}

-----------------------------------------------------------------------------
\* Statements are added to a policy; nothing a construct does removes one.  (Of one stack:
\* what a role imported by name is granted goes into a policy that CDK names after the path
\* of the importing construct in its stack.  The paths of one stack are all different; two
\* stacks may have one path, and the later of them overwrites the policy of the other.)
Merged_Replaces(f, g) == g ++ f
Merged(f, g) ==
  [x \in DOMAIN f \cup DOMAIN g |-> Given(f, x, {}) \cup Given(g, x, {})]

Constructed(self, class, props) ==
  /\ self \notin DOMAIN made
  /\ Cardinality(DOMAIN made) < MaxConstructs
  /\ made' = made ++ Only(self, [class |-> class, props |-> props])

New(self, class, props, adds) ==
  /\ Constructed(self, class, props)
  /\ policy' = Merged(policy, adds.policy)
  /\ identity' = Merged(identity, adds.identity)
  /\ wired' = wired \cup {[from |-> self] ++ r : r \in adds.wired}
  /\ UNCHANGED documents

NewSqsQueue(self, props)     == New(self, "SqsQueue", props, SqsQueue(self, props))
NewSns(self, props)          == New(self, "Sns", props, Sns(self, props))
NewSecret(self, props)       == New(self, "Secret", props, Secret(self, props))
NewS3Bucket(self, props)     == New(self, "S3Bucket", props, S3Bucket(self, props))
NewS3LogStorage(self, props) == New(self, "S3LogStorage", props, S3LogStorage(self, props))
NewS3Website(self, props)    == New(self, "S3Website", props, S3Website(self, props))
NewCloudTrail(self, props)   == New(self, "CloudTrail", props, CloudTrail(self, props))
NewSlackbot(self, props)     == New(self, "Slackbot", props, Slackbot(self, props))
NewSes(self, props)          == New(self, "Ses", props, Ses(self, props))
NewStepFunctions(self, props)  == New(self, "StepFunctions", props, StepFunctions(self, props))
NewLambdaFunction(self, props) == New(self, "LambdaFunction", props, LambdaFunction(self, props))
NewSfnErrorNotification(self, props) ==
  New(self, "SfnErrorNotification", props, SfnErrorNotification(self, props))
NewLambdaErrorNotification(self, props) ==
  New(self, "LambdaErrorNotification", props, LambdaErrorNotification(self, props))
NewExpressSfnErrorNotification(self, props) ==
  New(self, "ExpressSfnErrorNotification", props, ExpressSfnErrorNotification(self, props))
NewCloudwatchFlowLogs(self, props) ==
  New(self, "CloudwatchFlowLogs", props, CloudwatchFlowLogs(self, props))
NewCloudwatchEvents(self, props) == New(self, "CloudwatchEvents", props, CloudwatchEvents(self, props))
NewEventbridgeRule(self, props)  == New(self, "EventbridgeRule", props, EventbridgeRule(self, props))

\* Roles and policies may be given the json of policies made before.
Jsons == {{}} \cup {{documents[c]} : c \in DOMAIN documents}

NewIamRole(self, props, docs) ==
  New(self, "IamRole", [policyDocuments |-> docs] ++ props, IamRole(self, props, docs))

\* The json is there even if no managed policy is made.
NewIamPolicy(self, props, docs) ==
  LET all == [sourcePolicyDocuments |-> docs \cup Given(props, "sourcePolicyDocuments", {})] ++ props
  IN  /\ Constructed(self, "IamPolicy", all)
      /\ documents' = documents ++ Only(self, buildPolicyDocument(all))
      /\ UNCHANGED <<policy, identity, wired>>

Next ==
  \E self \in Ids :
    \/ \E props \in Options.SqsQueue : NewSqsQueue(self, props)
    \/ \E props \in Options.Sns : NewSns(self, props)
    \/ \E props \in Options.Secret : NewSecret(self, props)
    \/ \E props \in Options.S3Bucket : NewS3Bucket(self, props)
    \/ \E props \in Options.S3LogStorage : NewS3LogStorage(self, props)
    \/ \E props \in Options.S3Website : NewS3Website(self, props)
    \/ \E props \in Options.CloudTrail : NewCloudTrail(self, props)
    \/ \E props \in Options.Slackbot : NewSlackbot(self, props)
    \/ \E props \in Options.Ses : NewSes(self, props)
    \/ \E props \in Options.StepFunctions : NewStepFunctions(self, props)
    \/ \E props \in Options.LambdaFunction : NewLambdaFunction(self, props)
    \/ \E props \in Options.SfnErrorNotification : NewSfnErrorNotification(self, props)
    \/ \E props \in Options.LambdaErrorNotification : NewLambdaErrorNotification(self, props)
    \/ \E props \in Options.ExpressSfnErrorNotification : NewExpressSfnErrorNotification(self, props)
    \/ \E props \in Options.CloudwatchFlowLogs : NewCloudwatchFlowLogs(self, props)
    \/ \E props \in Options.CloudwatchEvents : NewCloudwatchEvents(self, props)
    \/ \E props \in Options.EventbridgeRule : NewEventbridgeRule(self, props)
    \/ \E props \in Options.IamRole, docs \in Jsons : NewIamRole(self, props, docs)
    \/ \E props \in Options.IamPolicy, docs \in Jsons : NewIamPolicy(self, props, docs)

Spec == Init /\ [][Next]_vars

-----------------------------------------------------------------------------
\* The resource whose policy decides about on.
Holder(on) == IF Last(on) = "*" THEN Front(on) ELSE on
IsMade(on) == Holder(on) \in DOMAIN policy
Permitted(r) == Permits(policy[Holder(r.on)], Given(identity, r.by.id, {}), r)

Made(class)   == {c \in DOMAIN made : made[c].class = class}
Props(c)      == made[c].props
Maker(on)     == on[1]

TypeOK ==
  /\ DOMAIN made \subseteq Ids
  /\ DOMAIN documents = Made("IamPolicy")
  /\ \A on \in DOMAIN policy : Maker(on) \in DOMAIN made
  /\ \A w \in wired : w.from \in DOMAIN made
  /\ \A c \in DOMAIN made : made[c].class \in Class

(***************************************************************************)
(* Whatever the constructs wire together is permitted to work: a service   *)
(* reaches the queue, topic, function or role it was pointed at, and a     *)
(* role what its part has to do.  Into a resource of another construct a   *)
(* service gets only if the policy its owner gave allows it, and then it   *)
(* does: the limit of a queue to its account does not stand in the way.    *)
(* What the props ask to be refused is one of these: a state machine whose *)
(* principals leave the service out (step-functions-fns.ts:40); a mail     *)
(* user that is not in the group (ses.ts:97); a trail without a key of KMS *)
(* into a bucket that takes nothing else (s3-bucket.ts:48); a role whose   *)
(* own documents deny it.  Of two kinds of requests the documents say that *)
(* they work, and they never do: they are at the end of this module.       *)
(***************************************************************************)
AllowedByOwner(w) ==
  \E s \in policy[Holder(w.on)] : s.effect = "Allow" /\ Applies(s, w) /\ Names(s, w.by)

Refused(w) ==
  \/ Maker(w.on) # w.from /\ ~Local(w.by) /\ ~AllowedByOwner(w)
  \/ LET trusted == PrincipalsOf(Given(Props(w.from), "principals", EmptyMap))
     IN  made[w.from].class = "StepFunctions" /\ trusted # {} /\ w.by \notin trusted
  \/ made[w.from].class = "Ses" /\ ~Given(Props(w.from), "sesGroupEnabled", TRUE)
  \/ made[w.from].class = "CloudTrail" /\ ~Is(Props(w.from), "kmsKeyArn")
     /\ Is(Props(Maker(w.on)), "allowEncryptedUploadsOnly")
  \/ Local(w.by) /\ \E s \in Given(identity, w.by.id, {}) : s.effect = "Deny" /\ Applies(s, w)

FailedDelivery(w)   == made[w.from].class = "Sns" /\ w.on = <<w.from, "Dlq">>
SecretDecryption(w) == made[w.from].class = "Secret" /\ w.on = <<w.from, "Key">>

WiredPathsPermitted ==
  \A w \in wired : IsMade(w.on) /\ ~FailedDelivery(w) /\ ~SecretDecryption(w)
                  => Permitted(w) \/ Refused(w)

(***************************************************************************)
(* A denial holds against every allowance, of whatever document: a queue   *)
(* limited to its account lets nobody in without that account as the       *)
(* source; a bucket for SSL requests only, which log storage is unless     *)
(* told otherwise, serves no other request; a bucket for encrypted uploads *)
(* only takes no object without the header for KMS (sqs-queue.ts:46,       *)
(* s3-bucket.ts:35-59, s3-log-storage-fns.ts:18).                          *)
(***************************************************************************)
Refuses(on, actions, Unwanted(_)) ==
  \A by \in Callers, action \in actions, keys \in {k \in RequestKeys : Unwanted(k)} :
    ~Permitted(Request(by, action, on, keys))

BucketsFor(prop) == {<<c, "Bucket">> : c \in {d \in Made("S3Bucket") : Is(Props(d), prop)}}
LogBucketsForSsl ==
  {<<c, "Bucket", "Bucket">> :
     c \in {d \in Made("S3LogStorage") : Given(Props(d), "allowSslRequestsOnly", TRUE)}}

DenialsHold ==
  /\ \A c \in Made("SqsQueue") :
       Given(Props(c), "iamPolicyLimitToCurrentAccount", TRUE)
       => Refuses(<<c, "Queue">>, {Send, Receive},
                  LAMBDA k : Given(k, "SourceAccount", "none") # Account)
  /\ \A b \in BucketsFor("allowSslRequestsOnly") \cup LogBucketsForSsl :
       Refuses(Objects(b), {Get, Put}, LAMBDA k : Given(k, "SecureTransport", "true") = "false")
  /\ \A b \in BucketsFor("allowEncryptedUploadsOnly") :
       Refuses(Objects(b), {Put},
               LAMBDA k : Given(k, "x-amz-server-side-encryption", "none") # "aws:kms")

(***************************************************************************)
(* The conditions of the readers of a secret, of all of them, bind each of *)
(* them, and nothing else does: a reader gets the secret exactly when      *)
(* every condition holds that no later one of the same test and variable   *)
(* replaced, whichever reader it came with (secret-fns.ts:60-71).          *)
(***************************************************************************)
ReadersOf(c) == Given(Props(c), "secretReadPrincipals", << >>)

ConditionsBind ==
  \A c \in Made("Secret") :
    LET given == GivenConditions(ReadersOf(c))
        binding == {i \in DOMAIN given : \A j \in DOMAIN given :
                      j > i => <<given[j].test, given[j].variable>> # <<given[i].test, given[i].variable>>}
    IN  \A by \in AnyOf(ReadersOf(c)), keys \in RequestKeys :
          Permits(policy[<<c, "Secret">>], {}, Request(by, GetSecret, <<c, "Secret">>, keys))
          <=> \A i \in binding : Holds(given[i].test, given[i].variable, given[i].values, keys)

(***************************************************************************)
(* Merging documents loses nothing but what is overridden: an override is  *)
(* in the document; a statement of a source is, unless an override has its *)
(* sid, and statements without a sid override nothing and are overridden   *)
(* by nothing (iam-policy-fns.ts:53-62; cdk-construct-iam-policy/README.md *)
(* line 63).                                                               *)
(***************************************************************************)
OverridesWin ==
  \A c \in DOMAIN documents :
    LET given(f)  == UNION Given(Props(c), f, {})
        overrides == given("overridePolicyDocuments")
        named     == {s.sid : s \in overrides} \ {""}
    IN  /\ overrides \subseteq documents[c]
        /\ \A s \in given("sourcePolicyDocuments") : s.sid \notin named => s \in documents[c]
        /\ \A s \in documents[c] : s.sid \in named => s \in overrides

(***************************************************************************)
(* A role obeys every unconditional denial of a document it was given: a   *)
(* policy may deny what the role's other documents allow, unless an        *)
(* override replaced the denying statement                                 *)
(* (iam-policy-fns.ts:8, iam-role-fns.ts:38-48).                           *)
(***************************************************************************)
DenialsTravel ==
  \A c \in Made("IamRole") : \A p \in DOMAIN documents :
    documents[p] \in Props(c).policyDocuments =>
      \A sid \in DOMAIN Given(Props(p), "policyStatements", EmptyMap) :
        LET stmt == Props(p).policyStatements[sid]
        IN  /\ Given(stmt, "effect", "Allow") = "Deny"
            /\ {"actions", "resources"} \subseteq DOMAIN stmt
            /\ DOMAIN stmt \cap {"notActions", "notResources", "conditions"} = {}
            /\ \A d \in Given(Props(p), "overridePolicyDocuments", {}) : \A o \in d : o.sid # sid
            => \A on \in stmt.resources, action \in stmt.actions :
                 ~Permits({}, identity[<<c, "Role">>], Calling(Arn(<<c, "Role">>), action, on))

(***************************************************************************)
(* Making a construct takes nothing from another: what a part could do of  *)
(* what others made it still can, also a role that a second construct      *)
(* imports by name and grants more (lambda-error-notification.ts:42-43).   *)
(* A role may be named before it is made: what it will then be denied was  *)
(* nobody's yet.                                                           *)
(***************************************************************************)
IsThere(by) == by.type = "AWS" /\ Len(by.id) > 1 => Maker(by.id) \in DOMAIN made

NothingRevoked ==
  [][\A w \in wired : IsMade(w.on) /\ IsThere(w.by) /\ Permitted(w) => Permitted(w)']_vars

-----------------------------------------------------------------------------
(* What the documents say, and the policies do not do.                     *)

(***************************************************************************)
(* cdk-construct-sqs-queue/README.md:61: "Limit queue policy to current    *)
(* AWS account": the limit leaves those of the account their permissions,  *)
(* in particular consumers the statements of the queue name.               *)
(***************************************************************************)
AccountConsumersAreServed ==
  \A c \in Made("SqsQueue") :
    LET queue == <<c, "Queue">>
    IN  \A s \in policy[queue], by \in Callers :
          s.effect = "Allow" /\ Local(by) /\ by \in s.principals /\ Receive \in s.actions
          => Permitted(Calling(by, Receive, queue))

(***************************************************************************)
(* cdk-construct-sns/README.md:25: "captures messages that fail delivery   *)
(* after retries": the DLQ of an Sns, made without a policy (sns.ts:62),   *)
(* takes what SNS redrives to it.                                          *)
(***************************************************************************)
FailedDeliveriesAreKept == \A w \in wired : FailedDelivery(w) => Permitted(w)

(***************************************************************************)
(* cdk-construct-secret/README.md:78: "Read principals receive [...] plus  *)
(* `kms:Decrypt` and `kms:DescribeKey` on the KMS key": what a reader of   *)
(* a secret is allowed of its key lets the reader decrypt, though it is    *)
(* written into the policy of the secret (secret.ts:71).                   *)
(***************************************************************************)
SecretReadersCanDecrypt == \A w \in wired : SecretDecryption(w) => Permitted(w)

(***************************************************************************)
(* cdk-construct-express-sfn-error-notification/README.md:21: "Each state  *)
(* machine in the map gets a dedicated SQS dead-letter queue for capturing *)
(* failures": something sends to the DLQ of every entry, as a rule does in *)
(* sfn-error-notification.ts:66.  Here there is no rule                    *)
(* (express-sfn-error-notification.ts:37-101).                             *)
(***************************************************************************)
FailuresAreCaptured ==
  \A c \in Made("ExpressSfnErrorNotification") : \A k \in DOMAIN Props(c).stepFunctions :
    \E w \in wired : w.on = <<c, "Dlq", k>> /\ w.action = Send

(***************************************************************************)
(* Less than the documents promise: one of the four is kept.  A stack in   *)
(* which not even this is so shows all four broken.                        *)
(***************************************************************************)
SomePathPromiseIsKept ==
  \/ AccountConsumersAreServed
  \/ FailedDeliveriesAreKept
  \/ SecretReadersCanDecrypt
  \/ FailuresAreCaptured
=============================================================================
