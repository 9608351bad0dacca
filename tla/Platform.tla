------------------------------ MODULE Platform ------------------------------
(***************************************************************************)
(* The constructors of roles, policies, users, tables, streams and         *)
(* clusters.                                                               *)
(***************************************************************************)
EXTENDS Constructs

-----------------------------------------------------------------------------
(* IamRole, IamPolicy, IamUser *)

roleName(ctx, props) == IF Given(props, "useFullname", TRUE) THEN contextId(ctx) ELSE ctx.name

\* One of props.inlinePolicies, the sequence of their [name, document].
InlinePolicy(self, policy) ==
  Parse(policy.document)
  \o <<New(self \o <<"InlinePolicy-" \o policy.name>>,
           Resource("Policy", << >>, {self \o <<"Role">>}))>>

\* The role, one policy of all policyDocuments, one for each of inlinePolicies.
RoleBody(self, ctx, props) ==
  LET role   == self \o <<"Role">>
      inline == Given(props, "inlinePolicies", << >>)
  IN  Parse(Given(props, "assumeRolePolicyDocumentOverride", "valid"))
      \o <<New(role, Resource("Role", roleName(ctx, props), {}))>>
      \o When("policyDocuments" \in DOMAIN props,
              Parse(props.policyDocuments)
              \o <<New(self \o <<"Policy">>,
                       Resource("Policy", Dashed(contextId(ctx), "policy"), {role}))>>)
      \o FlattenSeq([i \in DOMAIN inline |-> InlinePolicy(self, inline[i])])
      \o When(Is(props, "instanceProfileEnabled"),
              <<New(self \o <<"InstanceProfile">>,
                    Resource("InstanceProfile", contextId(ctx), {role}))>>)

IamRole(self, ctx, props) ==
  <<New(self, Construct)>>
  \o When(isEnabled(ctx),
          RoleBody(self, ctx, props)
          \o When(Given(props, "tagsEnabled", TRUE), <<AddTags(self, contextTags(ctx))>>))

\* The document is built, and may fail to parse, before anything asks whether the
\* context is enabled.
IamPolicy(self, ctx, props) ==
  <<New(self, Construct)>>
  \o Parse(Given(props, "sourcePolicyDocuments", "valid"))
  \o Parse(Given(props, "overridePolicyDocuments", "valid"))
  \o When(isEnabled(ctx) /\ Is(props, "iamPolicyEnabled"),
          << New(self \o <<"Policy">>, Resource("ManagedPolicy", contextId(ctx), {})),
             AddTags(self, contextTags(ctx)) >>)

IamUser(self, ctx, props) ==
  Constructor(self, ctx, <<New(self \o <<"User">>, Resource("User", << >>, {}))>>)

-----------------------------------------------------------------------------
(* Dynamodb *)

\* The keys of every index are strings: CDK throws for one that the table has with
\* another type, and for two indexes of one name.
Indexes(props) == Given(props, "globalSecondaryIndexes", << >>)
                  \o Given(props, "localSecondaryIndexes", << >>)

AddIndexes(props) ==
  LET ixs == Indexes(props)
      typed == (IF Given(props, "hashKeyType", "S") \in {"N", "B"} THEN {props.hashKey} ELSE {})
               \cup (IF Given(props, "rangeKeyType", "S") \in {"N", "B"} THEN {props.rangeKey} ELSE {})
      retyped(i) == ixs[i].keys \cap typed # {}
  IN  When(\E i, j \in DOMAIN ixs : retyped(i) \/ (i # j /\ ixs[i].name = ixs[j].name), <<Throw>>)

Dynamodb(self, ctx, props) ==
  LET table   == self \o <<"Table">>
      scaling == Resource("ScalableTarget", << >>, {table})
  IN  Constructor(self, ctx,
        <<New(table, Resource("Table", contextId(ctx), {}))>>
        \o AddIndexes(props)
        \o When(Is(props, "enableAutoscaler") /\ Given(props, "billingMode", "") # "PAY_PER_REQUEST",
                << New(table \o <<"ReadScaling">>, scaling),
                   New(table \o <<"WriteScaling">>, scaling) >>))

-----------------------------------------------------------------------------
(* KinesisStream *)

KinesisStream(self, ctx, props) ==
  LET stream == self \o <<"Stream">>
  IN  Constructor(self, ctx,
        <<New(stream, Resource("Stream", contextId(ctx), {}))>>
        \o [i \in 1..Given(props, "consumerCount", 0) |->
              New(self \o <<"Consumer" \o ToString(i - 1)>>,
                  Resource("StreamConsumer", << >>, {stream}))])

-----------------------------------------------------------------------------
(* RedshiftCluster, AuroraDsql *)

clusterIdentifier(ctx, props) == Given(props, "clusterIdentifier", contextId(ctx))

RedshiftCluster(self, ctx, props) ==
  LET subnets == self \o <<"SubnetGroup">>
      params  == self \o <<"ParamGroup">>
  IN  Constructor(self, ctx,
        << New(subnets, Resource("ClusterSubnetGroup", << >>, {})),
           New(params, Resource("ClusterParameterGroup", << >>, {})),
           New(self \o <<"Cluster">>,
               Resource("Cluster", clusterIdentifier(ctx, props), {subnets, params})) >>)

AuroraDsql(self, ctx, props) ==
  Constructor(self, ctx, <<New(self \o <<"Cluster">>, Resource("DsqlCluster", << >>, {}))>>)
=============================================================================
