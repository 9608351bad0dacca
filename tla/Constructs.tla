----------------------------- MODULE Constructs -----------------------------
(***************************************************************************)
(* What the constructors of packages/*/src have in common.  Each of them   *)
(* is an operator of Messaging, Compute, Storage, Platform or Monitoring:  *)
(* the statements that change the tree, in the code's order.  Left out:    *)
(* settings no other node depends on (sizes, retentions, encryption),      *)
(* policy statements and grants, overrides of the names of alarms, rules,  *)
(* pipes and log groups that no default depends on, and the imports        *)
(* (fromKeyArn, fromRoleName, ...), which make no resource, but for those  *)
(* with a resource below them.  props is the function from the options     *)
(* given to their values, as in ContextFns; JSON text is "valid" or        *)
(* "malformed".                                                            *)
(***************************************************************************)
EXTENDS ConstructTree, TLC

CONSTANT Word    \* the words names are completed with, each a character of its own

\* The ids of the alarms of CloudtrailCloudwatchAlarms, which stand for their names too.
alarmDefinitions ==
  <<"unauthorized-api", "no-mfa-console", "root-usage", "iam-policy-changes",
    "cloudtrail-changes", "console-failures", "kms-key-deletion", "s3-bucket-policy",
    "vpc-changes", "security-group-changes", "nacl-changes", "network-gateway-changes",
    "route-table-changes", "organization-changes">>

WordName == ToSet(alarmDefinitions) \cup
  {"dlq", "fifo", "role", "notifications", "updates", "secret", "key", "pipe", "failed",
   "rate", "volume", "origin", "handler", "ses", "user",
   "policy", "flow", "logs", "/aws/cloudtrail/", "/aws/vpc/flowlogs/",
   "/aws/lambda/", "/aws/apigateway/", "/aws/states/", "/aws/pipes/"}

ASSUME WordAssumption ==
  /\ DOMAIN Word = WordName
  /\ \A w \in WordName : Word[w] \in Atom \ {Dash}
  /\ \A v, w \in WordName : Word[v] = Word[w] => v = w

Dashed(name, w) == name \o <<Dash, Word[w]>>        \* `${name}-w`
Under(w, name)  == <<Word[w]>> \o name               \* `w${name}`
Fifo(name, fifo) == IF fifo THEN Append(name, Word["fifo"]) ELSE name
Derived(ctx, w) == extendContext(ctx, [attributes |-> << <<Word[w]>> >>])

Is(props, option) == Given(props, option, FALSE)
Parse(json)       == When(json = "malformed", <<Throw>>)

\* super(scope, id); if (!isEnabled) return; the body; then the tags of the context.
Constructor(self, ctx, body) ==
  <<New(self, Construct)>>
  \o When(isEnabled(ctx), body \o <<AddTags(self, contextTags(ctx))>>)

\* One child per key; keys of a JavaScript object are distinct, names of stages may not be.
Keyed(self, prefix, keys, node) ==
  [i \in DOMAIN keys |-> New(self \o <<prefix \o keys[i]>>, node)]
=============================================================================
