----------------------------- MODULE BridgeFns ------------------------------
(***************************************************************************)
(* packages/cdk-bridge: the Context of a deployment, read from the values  *)
(* of cdk.json.  The values are a function from the top-level keys that    *)
(* are there; the platform outputs among them (vpcId, ..) are read one by  *)
(* one with bridgeValue and bridgeString and make no context.              *)
(***************************************************************************)
EXTENDS ContextFns

BRIDGE_CONFIG_KEYS ==
  (Label \ {"name"}) \cup {"delimiter", "labelOrder", "labelKeyCase", "labelValueCase",
                           "idLengthLimit", "enabled", "tags", "additionalTagMap", "labelsAsTags"}

\* Otherwise readBridgeConfig throws: '' counts as missing.
HasRequiredKeys(values) ==
  \A key \in {"namespace", "environment", "stage"} : Given(values, key, << >>) # << >>

readBridgeConfig(values) == Restrict(values, BRIDGE_CONFIG_KEYS \cap DOMAIN values)

bridgeConfigToContextProps(config) ==
  Restrict(config, DOMAIN config \cap
                   {"namespace", "environment", "stage", "delimiter", "enabled", "tags"})

bridgedProps(values) == bridgeConfigToContextProps(readBridgeConfig(values))
=============================================================================
