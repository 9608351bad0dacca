----------------------------- MODULE Monitoring -----------------------------
(***************************************************************************)
(* The constructors of event buses and rules, trails, audit alarms and     *)
(* flow logs.                                                              *)
(***************************************************************************)
EXTENDS Constructs

-----------------------------------------------------------------------------
(* Eventbridge, EventbridgeRule, CloudwatchEvents *)

eventBusName(ctx, props) == Given(props, "eventBusName", contextId(ctx))

Eventbridge(self, ctx, props) ==
  LET bus == self \o <<"EventBus">>
  IN  Constructor(self, ctx,
        <<New(bus, Resource("EventBus", eventBusName(ctx, props), {}))>>
        \o When("policyDocument" \in DOMAIN props,
                Parse(props.policyDocument)
                \o <<New(self \o <<"Policy">>, Resource("EventBusPolicy", << >>, {bus}))>>))

\* CDK makes a role for a rule that targets another bus.
EventbridgeRule(self, ctx, props) ==
  LET rule == self \o <<"Rule">>
      role == rule \o <<"EventsRole">>
  IN  Constructor(self, ctx,
        <<New(rule, Resource("Rule", contextId(ctx), {}))>>
        \o When("targetEventBusArn" \in DOMAIN props,
                <<New(role, Resource("Role", << >>, {})), Refer(rule, {role})>>))

\* One rule [name, text, eventPattern, targets]: text is its name as a label, targets
\* the sequence of the types of its targets.
TargetType == {"sns", "lambda", "sqs"}

EventsRule(self, ctx, rule) ==
  Parse(Given(rule, "eventPattern", "valid"))
  \o <<New(self \o <<"Rule-" \o rule.name>>,
           Resource("Rule", contextId(ctx) \o <<Dash>> \o rule.text, {}))>>
  \o When(~ ToSet(rule.targets) \subseteq TargetType, <<Throw>>)

CloudwatchEvents(self, ctx, props) ==
  Constructor(self, ctx,
    FlattenSeq([i \in DOMAIN props.rules |-> EventsRule(self, ctx, props.rules[i])]))

-----------------------------------------------------------------------------
(* CloudTrail, CloudtrailCloudwatchAlarms, CloudwatchFlowLogs *)

\* CDK makes the role a trail writes to its log group with.
CloudTrail(self, ctx, props) ==
  LET logs    == self \o <<"LogGroup">>
      trail   == self \o <<"Trail">>
      role    == trail \o <<"LogsRole">>
      logging == Is(props, "cloudWatchLogsEnabled")
  IN  Constructor(self, ctx,
        When(logging, <<New(logs, Resource("LogGroup", Under("/aws/cloudtrail/", contextId(ctx)), {}))>>)
        \o <<New(trail, Resource("Trail", contextId(ctx), {}))>>
        \o When(logging, <<New(role, Resource("Role", << >>, {})), Refer(trail, {logs, role})>>))

AuditAlarm(self, ctx, id) ==
  << New(self \o <<"Filter-" \o id>>, Resource("MetricFilter", << >>, {})),
     New(self \o <<"Alarm-" \o id>>, Resource("Alarm", Dashed(contextId(ctx), id), {})) >>

\* An id of enabledAlarms that is no definition's is ignored.
CloudtrailCloudwatchAlarms(self, ctx, props) ==
  LET enabled == Given(props, "enabledAlarms", ToSet(alarmDefinitions))
  IN  Constructor(self, ctx,
        FlattenSeq([i \in DOMAIN alarmDefinitions |->
                      When(alarmDefinitions[i] \in enabled,
                           AuditAlarm(self, ctx, alarmDefinitions[i]))]))

CloudwatchFlowLogs(self, ctx, props) ==
  LET logs == self \o <<"LogGroup">>
      role == self \o <<"Role">>
      name == Dashed(Dashed(Dashed(contextId(ctx), "flow"), "logs"), "role")
  IN  Constructor(self, ctx,
        << New(logs, Resource("LogGroup", Under("/aws/vpc/flowlogs/", contextId(ctx)), {})),
           New(role, Resource("Role", name, {})),
           New(self \o <<"FlowLog">>, Resource("FlowLog", << >>, {logs, role})) >>)
=============================================================================
