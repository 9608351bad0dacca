-------------------------------- MODULE App ---------------------------------
(***************************************************************************)
(* One CDK app at synthesis time.  The app makes and extends contexts      *)
(* (ContextChain) and constructs, in any order, under the app itself or    *)
(* under a construct made before; it may tag everything with               *)
(* Tags.of(app).add; and it may catch what a constructor throws and go on, *)
(* as the tests do.                                                        *)
(***************************************************************************)
EXTENDS Messaging, Compute, Storage, Platform, Monitoring

CONSTANTS
  RootProps, Configs, Overrides, MaxNodes,     \* of ContextChain
  Ids,                                \* the ids given to constructs
  AppTags,                            \* the tags the app may be given
  Options,                            \* class |-> the props it may be given
  MaxConstructs                       \* bound: how many constructs one app makes

Class == {"SqsQueue", "Sns", "SfnErrorNotification", "LambdaErrorNotification",
          "ExpressSfnErrorNotification", "LambdaFunction", "StepFunctions", "HttpApiGateway",
          "Slackbot", "S3Bucket", "S3LogStorage", "Secret", "KmsKey", "S3Website", "Ses",
          "IamRole", "IamPolicy", "IamUser", "Dynamodb", "KinesisStream", "RedshiftCluster",
          "AuroraDsql", "Eventbridge", "EventbridgeRule", "CloudwatchEvents", "CloudTrail",
          "CloudtrailCloudwatchAlarms", "CloudwatchFlowLogs"}

\* Options that are arrays: the props give a list, or nothing.
Listed(props, option) ==
  LET list == Given(props, option, << >>)
  IN  list \in Seq(ToSet(list))

ASSUME AppAssumption ==
  /\ MaxConstructs \in Nat /\ DOMAIN Options = Class
  /\ \A props \in Options.Sns : Listed(props, "subscribers")
  /\ \A props \in Options.ExpressSfnErrorNotification :
       "stepFunctions" \in DOMAIN props /\ Listed(props, "stepFunctions")
  /\ \A props \in Options.HttpApiGateway :
       \A option \in {"stages", "vpcLinks", "integrations", "routes", "route53ZoneIds"} :
         Listed(props, option)
  /\ \A props \in Options.IamRole : Listed(props, "inlinePolicies")
  /\ \A props \in Options.KinesisStream : Given(props, "consumerCount", 0) \in Nat
  /\ \A props \in Options.CloudwatchEvents : "rules" \in DOMAIN props /\ Listed(props, "rules")

VARIABLES
  nodes,     \* the contexts made so far
  tree,      \* path |-> node
  given,     \* path of each construct the app made |-> its class, the index ctx of the
             \* context it was given, and its props
  failed     \* the constructs whose constructor threw

appVars == <<nodes, tree, given, failed>>

Chain == INSTANCE ContextChain

App == << >>

-----------------------------------------------------------------------------
Init ==
  /\ Chain!Init
  /\ tree = [p \in {App} |-> Construct]
  /\ given = EmptyMap
  /\ failed = {}

UseContexts == Chain!Next /\ UNCHANGED <<tree, given, failed>>

\* `new class(scope, id, props)` ran the statements
Built(self, class, i, props, statements) ==
  LET s == Run(tree, statements)
  IN  /\ tree' = s.tree
      /\ given' = Spread(given, [p \in {self} |-> [class |-> class, ctx |-> i, props |-> props]])
      /\ failed' = failed \cup IF s.threw THEN {self} ELSE {}
      /\ UNCHANGED nodes

NewSqsQueue(self, i, props) ==
  Built(self, "SqsQueue", i, props, SqsQueue(self, nodes[i].ctx, props))
NewSns(self, i, props) ==
  Built(self, "Sns", i, props, Sns(self, nodes[i].ctx, props))
NewSfnErrorNotification(self, i, props) ==
  Built(self, "SfnErrorNotification", i, props, SfnErrorNotification(self, nodes[i].ctx, props))
NewLambdaErrorNotification(self, i, props) ==
  Built(self, "LambdaErrorNotification", i, props, LambdaErrorNotification(self, nodes[i].ctx, props))
NewExpressSfnErrorNotification(self, i, props) ==
  Built(self, "ExpressSfnErrorNotification", i, props, ExpressSfnErrorNotification(self, nodes[i].ctx, props))
NewLambdaFunction(self, i, props) ==
  Built(self, "LambdaFunction", i, props, LambdaFunction(self, nodes[i].ctx, props))
NewStepFunctions(self, i, props) ==
  Built(self, "StepFunctions", i, props, StepFunctions(self, nodes[i].ctx, props))
NewHttpApiGateway(self, i, props) ==
  Built(self, "HttpApiGateway", i, props, HttpApiGateway(self, nodes[i].ctx, props))
NewSlackbot(self, i, props) ==
  Built(self, "Slackbot", i, props, Slackbot(self, nodes[i].ctx, props))
NewS3Bucket(self, i, props) ==
  Built(self, "S3Bucket", i, props, S3Bucket(self, nodes[i].ctx, props))
NewS3LogStorage(self, i, props) ==
  Built(self, "S3LogStorage", i, props, S3LogStorage(self, nodes[i].ctx, props))
NewSecret(self, i, props) ==
  Built(self, "Secret", i, props, Secret(self, nodes[i].ctx, props))
NewKmsKey(self, i, props) ==
  Built(self, "KmsKey", i, props, KmsKey(self, nodes[i].ctx, props))
NewS3Website(self, i, props) ==
  Built(self, "S3Website", i, props, S3Website(self, nodes[i].ctx, props))
NewSes(self, i, props) ==
  Built(self, "Ses", i, props, Ses(self, nodes[i].ctx, props))
NewIamRole(self, i, props) ==
  Built(self, "IamRole", i, props, IamRole(self, nodes[i].ctx, props))
NewIamPolicy(self, i, props) ==
  Built(self, "IamPolicy", i, props, IamPolicy(self, nodes[i].ctx, props))
NewIamUser(self, i, props) ==
  Built(self, "IamUser", i, props, IamUser(self, nodes[i].ctx, props))
NewDynamodb(self, i, props) ==
  Built(self, "Dynamodb", i, props, Dynamodb(self, nodes[i].ctx, props))
NewKinesisStream(self, i, props) ==
  Built(self, "KinesisStream", i, props, KinesisStream(self, nodes[i].ctx, props))
NewRedshiftCluster(self, i, props) ==
  Built(self, "RedshiftCluster", i, props, RedshiftCluster(self, nodes[i].ctx, props))
NewAuroraDsql(self, i, props) ==
  Built(self, "AuroraDsql", i, props, AuroraDsql(self, nodes[i].ctx, props))
NewEventbridge(self, i, props) ==
  Built(self, "Eventbridge", i, props, Eventbridge(self, nodes[i].ctx, props))
NewEventbridgeRule(self, i, props) ==
  Built(self, "EventbridgeRule", i, props, EventbridgeRule(self, nodes[i].ctx, props))
NewCloudwatchEvents(self, i, props) ==
  Built(self, "CloudwatchEvents", i, props, CloudwatchEvents(self, nodes[i].ctx, props))
NewCloudTrail(self, i, props) ==
  Built(self, "CloudTrail", i, props, CloudTrail(self, nodes[i].ctx, props))
NewCloudtrailCloudwatchAlarms(self, i, props) ==
  Built(self, "CloudtrailCloudwatchAlarms", i, props, CloudtrailCloudwatchAlarms(self, nodes[i].ctx, props))
NewCloudwatchFlowLogs(self, i, props) ==
  Built(self, "CloudwatchFlowLogs", i, props, CloudwatchFlowLogs(self, nodes[i].ctx, props))

\* A construct that threw out of its constructor is not there to be a scope.
Scopes == {App} \cup (DOMAIN given \ failed)

\* An id already taken makes the constructor throw at once, and changes nothing.
Free == {Append(scope, id) : scope \in Scopes, id \in Ids} \ DOMAIN tree

NewConstruct ==
  /\ Cardinality(DOMAIN given) < MaxConstructs
  /\ \E self \in Free, i \in DOMAIN nodes :
       \/ \E props \in Options.SqsQueue : NewSqsQueue(self, i, props)
       \/ \E props \in Options.Sns : NewSns(self, i, props)
       \/ \E props \in Options.SfnErrorNotification : NewSfnErrorNotification(self, i, props)
       \/ \E props \in Options.LambdaErrorNotification : NewLambdaErrorNotification(self, i, props)
       \/ \E props \in Options.ExpressSfnErrorNotification : NewExpressSfnErrorNotification(self, i, props)
       \/ \E props \in Options.LambdaFunction : NewLambdaFunction(self, i, props)
       \/ \E props \in Options.StepFunctions : NewStepFunctions(self, i, props)
       \/ \E props \in Options.HttpApiGateway : NewHttpApiGateway(self, i, props)
       \/ \E props \in Options.Slackbot : NewSlackbot(self, i, props)
       \/ \E props \in Options.S3Bucket : NewS3Bucket(self, i, props)
       \/ \E props \in Options.S3LogStorage : NewS3LogStorage(self, i, props)
       \/ \E props \in Options.Secret : NewSecret(self, i, props)
       \/ \E props \in Options.KmsKey : NewKmsKey(self, i, props)
       \/ \E props \in Options.S3Website : NewS3Website(self, i, props)
       \/ \E props \in Options.Ses : NewSes(self, i, props)
       \/ \E props \in Options.IamRole : NewIamRole(self, i, props)
       \/ \E props \in Options.IamPolicy : NewIamPolicy(self, i, props)
       \/ \E props \in Options.IamUser : NewIamUser(self, i, props)
       \/ \E props \in Options.Dynamodb : NewDynamodb(self, i, props)
       \/ \E props \in Options.KinesisStream : NewKinesisStream(self, i, props)
       \/ \E props \in Options.RedshiftCluster : NewRedshiftCluster(self, i, props)
       \/ \E props \in Options.AuroraDsql : NewAuroraDsql(self, i, props)
       \/ \E props \in Options.Eventbridge : NewEventbridge(self, i, props)
       \/ \E props \in Options.EventbridgeRule : NewEventbridgeRule(self, i, props)
       \/ \E props \in Options.CloudwatchEvents : NewCloudwatchEvents(self, i, props)
       \/ \E props \in Options.CloudTrail : NewCloudTrail(self, i, props)
       \/ \E props \in Options.CloudtrailCloudwatchAlarms : NewCloudtrailCloudwatchAlarms(self, i, props)
       \/ \E props \in Options.CloudwatchFlowLogs : NewCloudwatchFlowLogs(self, i, props)

TagApp ==
  /\ \E tags \in AppTags : tree' = Effect(tree, AddTags(App, tags))
  /\ UNCHANGED <<nodes, given, failed>>

Next == UseContexts \/ NewConstruct \/ TagApp

Spec == Init /\ [][Next]_appVars

-----------------------------------------------------------------------------
Ctx(c) == nodes[given[c].ctx].ctx       \* the context a construct was given
Props(c) == given[c].props
Resources == {p \in DOMAIN tree : tree[p].type # "Construct"}

\* The construct of the app whose constructor made p.
Owner(p) ==
  CHOOSE c \in DOMAIN given :
    /\ IsPrefix(c, p)
    /\ \A d \in DOMAIN given : IsPrefix(d, p) => Len(d) <= Len(c)

TypeOK ==
  /\ App \in DOMAIN tree
  /\ failed \subseteq DOMAIN given
  /\ DOMAIN given \subseteq DOMAIN tree
  /\ \A c \in DOMAIN given : given[c].ctx \in DOMAIN nodes
  /\ \A p \in DOMAIN tree \ {App} : Front(p) \in DOMAIN tree
  /\ \A p \in DOMAIN tree :
       /\ DOMAIN tree[p] = {"type", "name", "refs", "redrive", "adds", "removes"}
       /\ tree[p].type = "Construct" => tree[p].name = << >>
       /\ tree[p].type # "Api" => tree[p].removes = {}

(***************************************************************************)
(* context.enabled = false switches a whole branch off: a construct given  *)
(* a context that is disabled, or derived in any number of steps from a    *)
(* disabled one, makes no resource, even if its constructor throws (the    *)
(* isEnabled guard of every constructor, and the stickiness of             *)
(* context-fns.ts:157).                                                    *)
(***************************************************************************)
Disabled(c) == \E j \in Chain!GivenOn(given[c].ctx, "enabled") : ~nodes[j].args.enabled
Empty(c)    == \A p \in Resources : Owner(p) # c

DisabledBranchIsEmpty == \A c \in DOMAIN given : Disabled(c) => Empty(c)

(***************************************************************************)
(* Nothing else switches a construct off: one whose constructor returned   *)
(* has made some resource unless its branch is disabled, but for a policy  *)
(* that is not enabled (iam-policy.ts:18) and for a construct that makes   *)
(* one thing for each element of a list that is empty.                     *)
(***************************************************************************)
AsksForNothing(class, props) ==
  \/ class = "IamPolicy" /\ ~ Is(props, "iamPolicyEnabled")
  \/ class = "ExpressSfnErrorNotification" /\ props.stepFunctions = << >>
  \/ class = "CloudwatchEvents" /\ props.rules = << >>
  \/ /\ class = "CloudtrailCloudwatchAlarms"
     /\ ToSet(alarmDefinitions) \cap Given(props, "enabledAlarms", ToSet(alarmDefinitions)) = {}

EnabledBranchIsMade ==
  \A c \in DOMAIN given \ failed :
    Empty(c) => Disabled(c) \/ AsksForNothing(given[c].class, Props(c))

(***************************************************************************)
(* Every resource of a construct is synthesised with every tag of the      *)
(* context its construct was given, whatever the app or an enclosing       *)
(* construct tags it with, unless the construct was told not to tag        *)
(* (iam-role.ts:63); the one exception is an HTTP API defined by an        *)
(* OpenAPI body, which keeps none of them (http-api-gateway.ts:142-146).   *)
(***************************************************************************)
OwnTagsReachResources ==
  \A p \in Resources :
    LET c    == Owner(p)
        tags == TagsOf(tree, p)
        own  == contextTags(Ctx(c))
    IN  c \notin failed /\ Given(Props(c), "tagsEnabled", TRUE) =>
          IF tree[p].type = "Api" /\ Is(Props(c), "openApiBody")
          THEN DOMAIN tags \cap DOMAIN own = {}
          ELSE \A k \in DOMAIN own : k \in DOMAIN tags /\ tags[k] = own[k]

(***************************************************************************)
(* Names do not collide: of the resources AWS wants unique names for, two  *)
(* of one type have different names, unless their constructs were given    *)
(* contexts one of whose full ids begins with the other's, or a label      *)
(* order that does not end with the attributes, or were told to use the    *)
(* bare name of the context, which contexts may share (iam-role-fns.ts:6). *)
(* Neither the suffixes (-role, -notifications, -updates, .fifo), nor the  *)
(* derived contexts (dlq, secret, key) bring two names together, nor does  *)
(* the length limit, where the hash tells the names it cuts apart.         *)
(***************************************************************************)
UniqueType == {"Queue", "Topic", "LogGroup", "Role", "Function", "StateMachine", "Bucket",
               "Alias", "Secret", "Alarm", "Rule", "Pipe", "EmailIdentity", "Group", "User",
               "InstanceProfile", "ManagedPolicy", "Table", "Stream", "Cluster", "EventBus",
               "Trail"}

Unrelated(c, d) ==
  LET f == Ctx(c).idFull
      g == Ctx(d).idFull
  IN  ~IsPrefix(f, g) /\ ~IsPrefix(g, f)

AttributesLast(c) ==
  LET order == Ctx(c).labelOrder
  IN  order # << >> /\ Last(order) = "attributes"

NamesAreUnique ==
  \A p, q \in {r \in Resources : tree[r].type \in UniqueType /\ tree[r].name # << >>} :
    LET c == Owner(p)
        d == Owner(q)
    IN  /\ p # q /\ tree[p].type = tree[q].type
        /\ c = d \/ Unrelated(c, d)
        /\ \A e \in {c, d} : AttributesLast(e) /\ Given(Props(e), "useFullname", TRUE)
        => tree[p].name # tree[q].name

(***************************************************************************)
(* Once an Sns with a dead-letter queue is constructed, every subscription *)
(* it made has a redrive policy: the caller's if the caller gave one, and  *)
(* else one that names the queue of that very construct (sns.ts:57-77).    *)
(***************************************************************************)
SubscriptionsRedrive ==
  \A p \in Resources :
    LET c   == Owner(p)
        dlq == c \o <<"Dlq">>
    IN  /\ tree[p].type = "Subscription" /\ c \notin failed
        /\ dlq \in DOMAIN tree /\ tree[dlq].type = "Queue"
        => tree[p].redrive = {IF "redrivePolicy" \in DOMAIN Props(c) THEN External ELSE dlq}

(***************************************************************************)
(* No resource, not even one a thrown exception left behind, refers to a   *)
(* resource that is not there or that another construct made               *)
(* (http-api-gateway.ts:100-101, sqs-queue.ts:15-34).                      *)
(***************************************************************************)
ReferencesResolve ==
  \A p \in Resources : \A r \in (tree[p].refs \cup tree[p].redrive) \ {External} :
    r \in Resources /\ Owner(r) = Owner(p)

(***************************************************************************)
(* Constructing is local: a step that makes a construct changes no node    *)
(* that was there before, in particular not the redrive policy of another  *)
(* construct's subscriptions or the tags of the scope.                     *)
(***************************************************************************)
ConstructionIsLocal ==
  [][given' # given => \A p \in DOMAIN tree : p \in DOMAIN tree' /\ tree'[p] = tree[p]]_appVars
=============================================================================
