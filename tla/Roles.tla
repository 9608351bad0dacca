------------------------------- MODULE Roles --------------------------------
(***************************************************************************)
(* The roles the constructs make, whom they trust and what they may do,    *)
(* and the IamPolicy documents they may be given.                          *)
(***************************************************************************)
EXTENDS Statements

-----------------------------------------------------------------------------
(* IamPolicy *)

\* sid is the key of the statement in policyStatements; conditions are added one by one,
\* and every given list of principals, actions and resources stays what it is.
buildPolicyStatement_AllowsDenied(sid, stmt) ==
  Statement([sid |-> sid, effect |-> "Allow"] ++ stmt)
buildPolicyStatement(sid, stmt) ==
  LET people == {"principals", "notPrincipals"}
  IN  Statement([sid    |-> sid,
                 effect |-> IF Given(stmt, "effect", "Allow") = "Deny" THEN "Deny" ELSE "Allow"]
                ++ [f \in DOMAIN stmt |->
                      IF f \in people THEN PrincipalsOf(stmt[f]) ELSE stmt[f]])

mergeStatements_AnySid(source, overrides) ==
  LET overrideSids == {o.sid : o \in overrides}
  IN  {s \in source : s.sid \notin overrideSids} \cup overrides
mergeStatements(source, overrides) ==
  LET overrideSids == {o.sid : o \in overrides} \ {""}
  IN  {s \in source : s.sid \notin overrideSids} \cup overrides

buildPolicyDocument(props) ==
  LET stmts == Given(props, "policyStatements", EmptyMap)
      built == {buildPolicyStatement(sid, stmts[sid]) : sid \in DOMAIN stmts}
  IN  mergeStatements(parseDocumentStatements(Given(props, "sourcePolicyDocuments", {})) \cup built,
                      parseDocumentStatements(Given(props, "overridePolicyDocuments", {})))

-----------------------------------------------------------------------------
(* IamRole.  The role is made trusting the account, and its trust policy   *)
(* then overwritten.                                                       *)

buildTrustPolicy(role, props) ==
  LET who == PrincipalsOf(Given(props, "principals", EmptyMap))
      statement == Allow(IF who = {} THEN {Root} ELSE who,
                         Given(props, "assumeRoleActions", {Assume, <<"sts", "TagSession">>}), {role})
      conditions == FoldLeft(AddCondition, EmptyMap, Given(props, "assumeRoleConditions", << >>))
  IN  IF "assumeRolePolicyDocumentOverride" \in DOMAIN props
      THEN props.assumeRolePolicyDocumentOverride
      ELSE {[statement EXCEPT !.conditions = conditions]}

mergePolicyDocuments(docs) == parseDocumentStatements(docs)

IamRole(self, props, docs) ==
  LET role == <<self, "Role">>
  IN  Adds(Only(role, buildTrustPolicy(role, props)),
           Only(role, mergePolicyDocuments(docs \cup Given(props, "inlinePolicies", {}))),
           {})

-----------------------------------------------------------------------------
(* StepFunctions.  Given principals take the place of the service.         *)

buildTrustDocument(role, props) ==
  LET given == Given(props, "principals", [Service |-> {"states"}])
      who   == PrincipalsOf(given)
  IN  Trusting(role, IF who = {} THEN {Service("states")} ELSE who)

StepFunctions(self, props) ==
  LET role == <<self, "Role">>
      logs == Given(props, "existingLogGroupArn", <<self, "LogGroup">>)
  IN  Adds(Only(role, buildTrustDocument(role, props))
           ++ [r \in {<<self, "StateMachine">>, <<self, "LogGroup">>} |-> {}],
           Only(role, mergePolicyDocuments(Given(props, "policyDocuments", {}))
                      \cup {Allow({}, LogActions, {logs})}),
           {Acting("states", Assume, role), Calling(Arn(role), PutLogs, logs)})

-----------------------------------------------------------------------------
(* LambdaFunction: a role of its own unless one is named.                  *)

LambdaFunction(self, props) ==
  LET roles == IF "roleName" \in DOMAIN props THEN {} ELSE {<<self, "Role">>}
      role  == Given(props, "roleName", <<self, "Role">>)
      logs  == <<self, "LogGroup">>
      names == Given(props, "ssmParameterNames", {})
      ssm   == IF names = {} THEN {}
               ELSE {Allow({}, ActionsOf("ssm", {"GetParameter", "GetParameters", "GetParametersByPath"}),
                           names)}
      documents == parseDocumentStatements(Given(props, "roleSourcePolicyDocuments", {}))
  IN  Adds([r \in roles |-> Trusting(r, {Service("lambda")})]
           ++ [r \in {<<self, "Function">>, logs} |-> {}],
           [r \in roles |-> {BasicExecution} \cup ssm \cup documents],
           {Acting("lambda", Assume, role)} \cup {Calling(Arn(r), PutLogs, logs) : r \in roles})

-----------------------------------------------------------------------------
(* The dead-letter pipelines.  CDK lets the rule send to its DLQ; the      *)
(* Lambda role is imported by name and given a policy of its own; the pipe *)
(* reads the DLQ and starts what failed.                                   *)

PipeGrants_NoConsume(dlq, action, target) == {Allow({}, {action}, {target})}
PipeGrants(dlq, action, target) ==
  {Allow({}, ConsumeActions, {dlq}), Allow({}, {action}, {target})}

PipeRequests(role, dlq, action, target) ==
  {Acting("pipes", Assume, role), Calling(Arn(role), Receive, dlq), Calling(Arn(role), action, target)}

SfnErrorNotification(self, props) ==
  LET dlq  == <<self, "Dlq">>
      role == <<self, "PipeRole">>
  IN  Adds(Only(dlq, {Allow({Service("events")}, SendActions, {dlq})})
           ++ Only(role, Trusting(role, {Service("pipes")})),
           Only(role, PipeGrants(dlq, Start, props.stateMachineArn)),
           {Acting("events", Send, dlq)} \cup PipeRequests(role, dlq, Start, props.stateMachineArn))

LambdaErrorNotification(self, props) ==
  LET dlq  == <<self, "Dlq">>
      role == <<self, "PipeRole">>
  IN  Adds(Only(dlq, {Allow({Service("events")}, {Send}, {dlq})})
           ++ Only(role, Trusting(role, {Service("pipes")})),
           Only(role, PipeGrants(dlq, Invoke, props.lambdaArn))
           ++ Only(props.lambdaRoleName, {Allow({}, SendActions, {dlq})}),
           {Calling(Arn(props.lambdaRoleName), Send, dlq), Acting("events", Send, dlq)}
           \cup PipeRequests(role, dlq, Invoke, props.lambdaArn))

\* One DLQ, role and pipe for each entry of stepFunctions.
ExpressSfnErrorNotification(self, props) ==
  LET keys == DOMAIN props.stepFunctions
      dlq(k)  == <<self, "Dlq", k>>
      role(k) == <<self, "PipeRole", k>>
      arn(k)  == props.stepFunctions[k]
  IN  Adds([q \in {dlq(k) : k \in keys} |-> {}]
           ++ [r \in {role(k) : k \in keys} |-> Trusting(r, {Service("pipes")})],
           [r \in {role(k) : k \in keys} |-> PipeGrants(dlq(r[3]), Start, arn(r[3]))],
           UNION {PipeRequests(role(k), dlq(k), Start, arn(k)) : k \in keys})

-----------------------------------------------------------------------------
(* Slackbot *)

secretsManagerPolicyStatements(secret, key) ==
  {Allow({}, {GetSecret}, {secret})}
  \cup {Allow({}, ActionsOf("kms", {"Decrypt", "DescribeKey"}), {k}) : k \in key}

\* CDK lets the topic invoke the function it subscribes.
Slackbot(self, props) ==
  LET topic   == <<self, "Topic">>
      handler == <<self, "Handler">>
      role    == <<self, "LambdaRole">>
      logs    == <<self, "LogGroup">>
      key     == IF "slackTokenSecretKmsKeyArn" \in DOMAIN props
                 THEN {props.slackTokenSecretKmsKeyArn} ELSE {}
      publishers  == PrincipalsOf(Given(props, "snsPubPrincipals", EmptyMap))
      subscribers == PrincipalsOf(Given(props, "snsSubPrincipals", EmptyMap))
  IN  Adds(Only(topic, {Allow({p}, {Publish}, {topic}) : p \in publishers}
                       \cup {Allow({p}, {<<"sns", "Subscribe">>}, {topic}) : p \in subscribers})
           ++ Only(role, Trusting(role, {Service("lambda")}))
           ++ Only(handler, {Allow({Service("sns")}, {Invoke}, {handler})})
           ++ Only(logs, {}),
           Only(role, {BasicExecution}
                      \cup secretsManagerPolicyStatements(props.slackTokenSecretArn, key)),
           {PublishBy(p, topic) : p \in publishers}
           \cup {Acting("sns", Invoke, handler), Acting("lambda", Assume, role),
                 Calling(Arn(role), PutLogs, logs),
                 Calling(Arn(role), GetSecret, props.slackTokenSecretArn)}
           \cup {Calling(Arn(role), Decrypt, k) : k \in key})

-----------------------------------------------------------------------------
(* CloudwatchFlowLogs, Ses, CloudwatchEvents, EventbridgeRule.             *)

flowLogsPolicyStatement ==
  Allow({}, ActionsOf("logs", {"CreateLogGroup", "CreateLogStream", "PutLogEvents",
                               "DescribeLogGroups", "DescribeLogStreams"}), {Anything})

CloudwatchFlowLogs(self, props) ==
  LET role == <<self, "Role">>
      logs == <<self, "LogGroup">>
  IN  Adds(Only(role, Trusting(role, {Service("vpc-flow-logs")})) ++ Only(logs, {}),
           Only(role, {flowLogsPolicyStatement}),
           {Acting("vpc-flow-logs", Assume, role), Calling(Arn(role), PutLogs, logs)})

sesPolicyStatement(props, identityArn) ==
  LET given == Given(props, "iamAllowedResources", {})
  IN  Allow({}, Given(props, "iamPermissions", {<<"ses", "SendRawEmail">>}),
            IF given = {} THEN {identityArn} ELSE given)

\* The user is allowed what the group is, if both are made.
Ses(self, props) ==
  LET mail  == <<self, "Identity">>
      group == IF Given(props, "sesGroupEnabled", TRUE) THEN {sesPolicyStatement(props, mail)} ELSE {}
      user  == IF Given(props, "sesUserEnabled", TRUE) THEN {<<self, "User">>} ELSE {}
      inline == parseDocumentStatements(Given(props, "inlinePolicies", {}))
  IN  Adds(Only(mail, {}),
           [u \in user |-> group \cup inline],
           {Calling(Arn(u), <<"ses", "SendRawEmail">>, mail) : u \in user})

\* The targets are imported: their owners have to let EventBridge in.
CloudwatchEvents(self, props) ==
  LET to(type, action) == {Acting("events", action, t.arn) : t \in {u \in props.targets : u.type = type}}
  IN  Adds(EmptyMap, EmptyMap, to("sqs", Send) \cup to("sns", Publish))

EventbridgeRule(self, props) == Adds(EmptyMap, EmptyMap, {Acting("events", Send, props.targetArn)})
=============================================================================
