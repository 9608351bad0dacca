------------------------------- MODULE Compute -------------------------------
(***************************************************************************)
(* The constructors of functions, state machines and HTTP APIs.            *)
(***************************************************************************)
EXTENDS Constructs

-----------------------------------------------------------------------------
(* LambdaFunction *)

functionName(ctx, props) == Given(props, "functionName", contextId(ctx))

\* "none": resolveCodeSource throws.
resolveCodeSource(props) ==
  CASE "imageUri" \in DOMAIN props               -> "ecr"
    [] {"s3Bucket", "s3Key"} \subseteq DOMAIN props -> "s3"
    [] "entryPoint" \in DOMAIN props             -> "bundle"
    [] "filename" \in DOMAIN props               -> "asset"
    [] OTHER                                     -> "none"

\* Code that cannot be had: of no source, of an ECR URI that does not parse, or of a file
\* or entry point that is not there, for which CDK throws before it makes the function.
codeFails(props) ==
  LET source == resolveCodeSource(props)
  IN  \/ source = "none"
      \/ source = "ecr" /\ props.imageUri = "malformed"
      \/ source = "bundle" /\ props.entryPoint = "missing"
      \/ source = "asset" /\ props.filename = "missing"

LambdaFunction(self, ctx, props) ==
  LET logs    == self \o <<"LogGroup">>
      role    == self \o <<"Role">>
      fn      == self \o <<"Function">>
      ownRole == "roleName" \notin DOMAIN props
      name    == functionName(ctx, props)
  IN  Constructor(self, ctx,
        <<New(logs, Resource("LogGroup", Under("/aws/lambda/", name), {}))>>
        \o When(ownRole, <<New(role, Resource("Role", Dashed(contextId(ctx), "role"), {}))>>
                         \o Parse(Given(props, "roleSourcePolicyDocuments", "valid")))
        \o When(codeFails(props), <<Throw>>)
        \o <<New(fn, Resource("Function", name, {logs} \cup IF ownRole THEN {role} ELSE {}))>>
        \o When(Is(props, "publish"),
                <<New(fn \o <<"CurrentVersion">>, Resource("Version", << >>, {fn}))>>))

-----------------------------------------------------------------------------
(* StepFunctions *)

StepFunctions(self, ctx, props) ==
  LET logs    == self \o <<"LogGroup">>
      role    == self \o <<"Role">>
      ownLogs == "existingLogGroupArn" \notin DOMAIN props
      logGroupName == Given(props, "logGroupName", Under("/aws/states/", contextId(ctx)))
      roleName     == IF Given(props, "useFullname", TRUE) THEN contextId(ctx) ELSE ctx.name
  IN  Constructor(self, ctx,
        When(ownLogs, <<New(logs, Resource("LogGroup", logGroupName, {}))>>)
        \o <<New(role, Resource("Role", roleName, {}))>>
        \o When("policyDocuments" \in DOMAIN props,
                Parse(Given(props, "policyDocuments", "valid"))
                \o <<New(self \o <<"Policy">>, Resource("Policy", << >>, {role}))>>)
        \o <<New(self \o <<"StateMachine">>,
                 Resource("StateMachine", Given(props, "stateMachineName", contextId(ctx)),
                          {role} \cup IF ownLogs THEN {logs} ELSE {}))>>)

-----------------------------------------------------------------------------
(* HttpApiGateway; props.routes is the sequence of the [key, integration] of the routes *)

Route(self, route) ==
  New(self \o <<"Route-" \o route.key>>,
      Resource("Route", << >>, {self \o <<"Api">>, self \o <<"Integration-" \o route.integration>>}))

\* Routes whose integration is not configured are skipped.
Routes_Unchecked(self, routes, integrations) ==
  FlattenSeq([i \in DOMAIN routes |-> <<Route(self, routes[i])>>])
Routes(self, routes, integrations) ==
  FlattenSeq([i \in DOMAIN routes |->
                When(routes[i].integration \in ToSet(integrations), <<Route(self, routes[i])>>)])

CustomDomain(self, props) ==
  LET domain == self \o <<"Domain">>
      zones  == Given(props, "route53ZoneIds", << >>)
  IN  << New(domain, Resource("DomainName", << >>, {})),
         New(self \o <<"Mapping">>,
             Resource("ApiMapping", << >>, {self \o <<"Api">>, self \o <<"DefaultStage">>, domain})) >>
      \o [i \in DOMAIN zones |-> New(self \o <<"DnsAlias" \o ToString(i)>>,
                                     Resource("RecordSet", << >>, {domain}))]

\* AWS rejects tags on an API that has a body.
UntagApi_Construct(self, ctx) == <<RemoveTags(self, DOMAIN contextTags(ctx))>>
UntagApi(self, ctx) == <<RemoveTags(self \o <<"Api">>, DOMAIN contextTags(ctx))>>

HttpApiGateway(self, ctx, props) ==
  LET api     == self \o <<"Api">>
      logs    == self \o <<"AccessLogs">>
      body    == Is(props, "openApiBody")
      logging == Given(props, "accessLoggingEnabled", TRUE)
      stage   == Resource("Stage", << >>, {api} \cup IF logging THEN {logs} ELSE {})
      integrations == Given(props, "integrations", << >>)
  IN  Constructor(self, ctx,
        When(logging, <<New(logs, Resource("LogGroup", Under("/aws/apigateway/", contextId(ctx)), {}))>>)
        \o << New(api, Resource("Api", IF body THEN << >> ELSE contextId(ctx), {})),
              New(self \o <<"DefaultStage">>, stage) >>
        \o Keyed(self, "Stage-", Given(props, "stages", << >>), stage)
        \o Keyed(self, "VpcLink-", Given(props, "vpcLinks", << >>), Resource("VpcLink", << >>, {}))
        \o When(~body,
                Keyed(self, "Integration-", integrations, Resource("Integration", << >>, {api}))
                \o Routes(self, Given(props, "routes", << >>), integrations))
        \o When(Is(props, "dnsName") /\ Is(props, "acmCertificateArn"), CustomDomain(self, props))
        \o When(body, UntagApi(self, ctx)))

-----------------------------------------------------------------------------
(* Slackbot *)

Slackbot(self, ctx, props) ==
  LET topic == self \o <<"Topic">>
      role  == self \o <<"LambdaRole">>
      logs  == self \o <<"LogGroup">>
      fn    == self \o <<"Handler">>
      id    == contextId(Derived(ctx, "handler"))
  IN  Constructor(self, ctx,
        << New(topic, Resource("Topic", contextId(Derived(ctx, "notifications")), {})),
           New(role, Resource("Role", Dashed(id, "role"), {})),
           New(logs, Resource("LogGroup", Under("/aws/lambda/", id), {})),
           New(fn, Resource("Function", id, {role, logs})),
           New(fn \o <<"Sub">>, Resource("Subscription", << >>, {topic, fn})) >>)
=============================================================================
