------------------------ MODULE ContextChain_proofs ------------------------
(***************************************************************************)
(* What a chain of makeContext and extendContext calls guarantees, for any *)
(* characters, props, overrides and number of contexts.                    *)
(***************************************************************************)
EXTENDS ContextChain, SequenceFacts

-----------------------------------------------------------------------------
(* The labels are none of the other fields.                                *)
LEMMA FieldsDisjoint ==
  /\ Label \cap ReplacedField = {}
  /\ (Label \cup ReplacedField) \cap {"enabled", "attributes", "tags", "additionalTagMap"} = {}
  /\ Field \cap {"id", "idFull"} = {}
  /\ "enabled" # "attributes" /\ "enabled" # "tags" /\ "attributes" # "tags"
  /\ Label \subseteq Field /\ ReplacedField \subseteq Field
  /\ {"enabled", "attributes", "tags", "additionalTagMap"} \subseteq Field
BY DEF Label, ReplacedField, Field

(* The defaults give every field a value; no label, no attribute, enabled. *)
LEMMA DefaultFields ==
  /\ DOMAIN CONTEXT_DEFAULTS = Field
  /\ CONTEXT_DEFAULTS.enabled = TRUE
  /\ CONTEXT_DEFAULTS.attributes = << >>
  /\ \A l \in Label : CONTEXT_DEFAULTS[l] = << >>
<1> DEFINE ls == [l \in Label |-> << >>]
<1>1. DOMAIN ls = Label /\ \A l \in Label : ls[l] = << >>
  OBVIOUS
<1>2. DOMAIN OptionDefaults = ReplacedField \cup {"enabled", "attributes", "tags", "additionalTagMap"}
  BY DEF ReplacedField, OptionDefaults
<1>3. OptionDefaults.enabled = TRUE /\ OptionDefaults.attributes = << >>
  BY DEF OptionDefaults
<1>4. CONTEXT_DEFAULTS = Spread(ls, OptionDefaults)
  BY DEF CONTEXT_DEFAULTS
<1> HIDE DEF ls
<1>5. /\ DOMAIN CONTEXT_DEFAULTS = DOMAIN ls \cup DOMAIN OptionDefaults
      /\ \A x \in DOMAIN OptionDefaults : CONTEXT_DEFAULTS[x] = OptionDefaults[x]
      /\ \A x \in DOMAIN ls \ DOMAIN OptionDefaults : CONTEXT_DEFAULTS[x] = ls[x]
  BY <1>4 DEF Spread
<1>6. DOMAIN CONTEXT_DEFAULTS = Field
  BY <1>1, <1>2, <1>5 DEF Field
<1>7. \A l \in Label : l \in DOMAIN ls \ DOMAIN OptionDefaults
  BY <1>1, <1>2, FieldsDisjoint
<1>8. "enabled" \in DOMAIN OptionDefaults /\ "attributes" \in DOMAIN OptionDefaults
  BY <1>2
<1>9. QED
  BY <1>1, <1>3, <1>5, <1>6, <1>7, <1>8

(***************************************************************************)
(* makeContext gives every field: as the caller gave it, or by default;    *)
(* only the tags are computed anew.                                        *)
(***************************************************************************)
LEMMA MakeFields ==
  ASSUME NEW props, DOMAIN props \subseteq Field
  PROVE  /\ DOMAIN makeContext(props) = Field \cup {"id", "idFull"}
         /\ \A f \in Field \ {"tags"} :
              makeContext(props)[f] = IF f \in DOMAIN props THEN props[f]
                                      ELSE CONTEXT_DEFAULTS[f]
<1> DEFINE normalized == Spread(CONTEXT_DEFAULTS, props)
           idFull     == computeIdFull(normalized)
           id         == applyLengthLimit(idFull, normalized.idLengthLimit)
           outputs    == [id |-> id, idFull |-> idFull, tags |-> computeTags(normalized, id)]
<1>1. makeContext(props) = Spread(normalized, outputs)
  BY DEF makeContext
<1>2. DOMAIN outputs = {"id", "idFull", "tags"}
  OBVIOUS
<1>3. /\ DOMAIN normalized = Field
      /\ \A f \in Field : normalized[f] = IF f \in DOMAIN props THEN props[f]
                                          ELSE CONTEXT_DEFAULTS[f]
  BY DefaultFields DEF Spread
<1> HIDE DEF normalized, outputs
<1>4. QED
  BY <1>1, <1>2, <1>3, FieldsDisjoint DEF Spread

(***************************************************************************)
(* What extendContext makes of the fields that gate and name a subtree.    *)
(***************************************************************************)
LEMMA ExtendFields ==
  ASSUME NEW base, DOMAIN base = Field \cup {"id", "idFull"},
         NEW overrides, DOMAIN overrides \subseteq Field
  PROVE  /\ DOMAIN extendContext(base, overrides) = Field \cup {"id", "idFull"}
         /\ extendContext(base, overrides).enabled
              = (base.enabled /\ Given(overrides, "enabled", TRUE))
         /\ extendContext(base, overrides).attributes
              = base.attributes \o Given(overrides, "attributes", << >>)
         /\ \A l \in Label :
              extendContext(base, overrides)[l]
                = IF Given(overrides, l, << >>) # << >> THEN overrides[l] ELSE base[l]
<1> DEFINE replaced == [f \in ReplacedField |-> Given(overrides, f, base[f])]
           labels   == [l \in Label |-> IF Given(overrides, l, << >>) # << >>
                                        THEN overrides[l] ELSE base[l]]
           merged   == [enabled    |-> base.enabled /\ Given(overrides, "enabled", TRUE),
                        attributes |-> base.attributes \o Given(overrides, "attributes", << >>),
                        tags       |-> Spread(base.tags, Given(overrides, "tags", EmptyMap)),
                        additionalTagMap |->
                          Spread(base.additionalTagMap,
                                 Given(overrides, "additionalTagMap", EmptyMap))]
           props    == mergeOverrides(base, overrides)
<1>1. props = Spread(Spread(replaced, labels), merged)
  BY DEF mergeOverrides
<1>2. /\ DOMAIN replaced = ReplacedField
      /\ DOMAIN labels = Label
      /\ DOMAIN merged = {"enabled", "attributes", "tags", "additionalTagMap"}
  OBVIOUS
<1>3. /\ merged.enabled = (base.enabled /\ Given(overrides, "enabled", TRUE))
      /\ merged.attributes = base.attributes \o Given(overrides, "attributes", << >>)
  OBVIOUS
<1>4. \A l \in Label : labels[l] = IF Given(overrides, l, << >>) # << >>
                                   THEN overrides[l] ELSE base[l]
  OBVIOUS
<1> HIDE DEF replaced, labels, merged, props
<1>5. /\ DOMAIN props = Field
      /\ props.enabled = merged.enabled
      /\ props.attributes = merged.attributes
      /\ \A l \in Label : props[l] = labels[l]
  BY <1>1, <1>2, FieldsDisjoint DEF Spread, Field
<1>6. extendContext(base, overrides) = makeContext(props)
  BY DEF extendContext, props
<1>7. /\ DOMAIN makeContext(props) = Field \cup {"id", "idFull"}
      /\ \A f \in Field \ {"tags"} : makeContext(props)[f] = props[f]
  BY <1>5, MakeFields
<1>8. "tags" \notin Label /\ "enabled" \in Field \ {"tags"} /\ "attributes" \in Field \ {"tags"}
  BY FieldsDisjoint
<1>9. QED
  BY <1>3, <1>4, <1>5, <1>6, <1>7, <1>8, FieldsDisjoint

-----------------------------------------------------------------------------
(* The type of a context, and of the arguments it is computed from.        *)
ContextOK(c) ==
  /\ DOMAIN c = Field \cup {"id", "idFull"}
  /\ c.enabled \in BOOLEAN
  /\ c.attributes \in Seq(Seq(Atom))
  /\ \A l \in Label : c[l] \in Seq(Atom)

(***************************************************************************)
(* What makeContext and extendContext are given is of the right types,     *)
(* also when the bridge picked it out of the values of cdk.json.           *)
(***************************************************************************)
LEMMA ArgsTyped ==
  ASSUME NEW p \in RootArgs \cup Overrides
  PROVE  DOMAIN p \subseteq Field /\ PropsOK(p)
<1>1. CASE p \in RootProps \cup Overrides
  BY <1>1, ChainAssumption
<1>2. ASSUME NEW values \in Configs, p = bridgedProps(values)
      PROVE  DOMAIN p \subseteq Field /\ PropsOK(p)
  <2>1. PropsOK(values)
    BY ChainAssumption
  <2>2. /\ DOMAIN p \subseteq DOMAIN values /\ DOMAIN p \subseteq BRIDGE_CONFIG_KEYS
        /\ \A k \in DOMAIN p : p[k] = values[k]
    BY <1>2 DEF bridgedProps, bridgeConfigToContextProps, readBridgeConfig, Restrict
  <2>3. DOMAIN p \subseteq Field
    BY <2>2 DEF BRIDGE_CONFIG_KEYS, Field, ReplacedField
  <2>4. PropsOK(p)
    BY <2>1, <2>2 DEF PropsOK
  <2>5. QED
    BY <2>3, <2>4
<1>3. QED
  BY <1>1, <1>2 DEF RootArgs

LEMMA MakeTyped ==
  ASSUME NEW props \in RootArgs
  PROVE  ContextOK(makeContext(props))
<1>1. /\ DOMAIN props \subseteq Field
      /\ \A l \in Label \cap DOMAIN props : props[l] \in Seq(Atom)
      /\ "enabled" \in DOMAIN props => props.enabled \in BOOLEAN
      /\ "attributes" \in DOMAIN props => props.attributes \in Seq(Seq(Atom))
  BY ArgsTyped DEF PropsOK
<1>2. /\ DOMAIN makeContext(props) = Field \cup {"id", "idFull"}
      /\ \A f \in Field \ {"tags"} :
           makeContext(props)[f] = IF f \in DOMAIN props THEN props[f]
                                   ELSE CONTEXT_DEFAULTS[f]
  BY <1>1, MakeFields
<1>3. "tags" \notin Label /\ Label \subseteq Field
      /\ "enabled" \in Field \ {"tags"} /\ "attributes" \in Field \ {"tags"}
  BY FieldsDisjoint
<1>4. << >> \in Seq(Atom) /\ << >> \in Seq(Seq(Atom))
  OBVIOUS
<1>5. QED
  BY <1>1, <1>2, <1>3, <1>4, DefaultFields DEF ContextOK

(***************************************************************************)
(* One extension yields a context again, and keeps what the base had.      *)
(***************************************************************************)
LEMMA ExtendKeeps ==
  ASSUME NEW base, ContextOK(base), NEW o \in Overrides
  PROVE  ContextOK(extendContext(base, o)) /\ Keeps(extendContext(base, o), base)
<1> DEFINE c == extendContext(base, o)
<1>1. /\ DOMAIN o \subseteq Field
      /\ \A l \in Label \cap DOMAIN o : o[l] \in Seq(Atom)
      /\ "enabled" \in DOMAIN o => o.enabled \in BOOLEAN
      /\ "attributes" \in DOMAIN o => o.attributes \in Seq(Seq(Atom))
  BY ArgsTyped DEF PropsOK
<1>2. /\ Given(o, "enabled", TRUE) \in BOOLEAN
      /\ Given(o, "attributes", << >>) \in Seq(Seq(Atom))
      /\ \A l \in Label : Given(o, l, << >>) # << >> => o[l] \in Seq(Atom) /\ o[l] # << >>
  <2>1. Given(o, "enabled", TRUE) \in BOOLEAN
    BY <1>1 DEF Given
  <2>2. Given(o, "attributes", << >>) \in Seq(Seq(Atom))
    BY <1>1 DEF Given
  <2>3. ASSUME NEW l \in Label, Given(o, l, << >>) # << >>
        PROVE  o[l] \in Seq(Atom) /\ o[l] # << >>
    <3>1. l \in DOMAIN o /\ Given(o, l, << >>) = o[l]
      BY <2>3 DEF Given
    <3>2. QED
      BY <1>1, <2>3, <3>1
  <2>4. QED
    BY <2>1, <2>2, <2>3
<1>3. /\ DOMAIN c = Field \cup {"id", "idFull"}
      /\ c.enabled = (base.enabled /\ Given(o, "enabled", TRUE))
      /\ c.attributes = base.attributes \o Given(o, "attributes", << >>)
      /\ \A l \in Label : c[l] = IF Given(o, l, << >>) # << >> THEN o[l] ELSE base[l]
  BY <1>1, ExtendFields DEF ContextOK
<1> HIDE DEF c
<1>4. c.attributes \in Seq(Seq(Atom)) /\ IsPrefix(base.attributes, c.attributes)
  BY <1>2, <1>3, PrefixOfConcat DEF ContextOK
<1>5. ContextOK(c)
  BY <1>2, <1>3, <1>4 DEF ContextOK
<1>6. Keeps(c, base)
  BY <1>2, <1>3, <1>4 DEF Keeps, ContextOK
<1>7. QED
  BY <1>5, <1>6 DEF c

LEMMA KeepsTransitive ==
  ASSUME NEW c, NEW d, NEW e, ContextOK(c), ContextOK(d), ContextOK(e),
         Keeps(c, d), Keeps(d, e)
  PROVE  Keeps(c, e)
<1>1. IsPrefix(e.attributes, c.attributes)
  BY PrefixTransitive DEF Keeps, ContextOK
<1>2. QED
  BY <1>1 DEF Keeps

-----------------------------------------------------------------------------
(* Appending a context keeps the nodes well-typed.                         *)
LEMMA AppendTyped ==
  ASSUME TypeOK, Len(nodes) < MaxNodes,
         NEW n, DOMAIN n = {"up", "args", "ctx"},
         n.up \subseteq 1..Len(nodes), n.args \in RootArgs \cup Overrides, ContextOK(n.ctx),
         nodes' = Append(nodes, n)
  PROVE  TypeOK'
<1>1. nodes \in Seq(ToSet(nodes) \cup {n})
  BY DEF TypeOK, ToSet
<1>2. /\ Len(nodes') = Len(nodes) + 1
      /\ DOMAIN nodes' = 1..(Len(nodes) + 1)
      /\ \A i \in 1..Len(nodes) : nodes'[i] = nodes[i]
      /\ nodes'[Len(nodes) + 1] = n
  BY <1>1
<1>3. Len(nodes) \in Nat /\ DOMAIN nodes = 1..Len(nodes)
  BY <1>1
<1>4. nodes' \in Seq(ToSet(nodes'))
  <2>1. nodes' \in Seq(ToSet(nodes) \cup {n})
    BY <1>1
  <2>2. \A i \in 1..Len(nodes') : nodes'[i] \in ToSet(nodes')
    BY <1>2 DEF ToSet
  <2>3. QED
    BY <2>1, <2>2
<1>5. Len(nodes') <= MaxNodes
  BY <1>2, <1>3, ChainAssumption
<1>6. ASSUME NEW i \in DOMAIN nodes'
      PROVE  /\ DOMAIN nodes'[i] = {"up", "args", "ctx"}
             /\ nodes'[i].up \subseteq 1 .. (i - 1)
             /\ nodes'[i].args \in RootArgs \cup Overrides
             /\ ContextOK(nodes'[i].ctx)
  <2>1. CASE i \in 1..Len(nodes)
    BY <1>2, <1>3, <2>1 DEF TypeOK, Node, Ctx, ContextOK
  <2>2. CASE i = Len(nodes) + 1
    BY <1>2, <1>3, <2>2
  <2>3. QED
    BY <1>2, <1>3, <2>1, <2>2
<1>7. QED
  BY <1>4, <1>5, <1>6 DEF TypeOK, Node, Ctx, ContextOK

-----------------------------------------------------------------------------
(***************************************************************************)
(* Every context ever made is a complete, well-typed Context, whose        *)
(* ancestors were made before it (makeContext, extendContext).             *)
(***************************************************************************)
THEOREM TypeCorrect == Spec => []TypeOK
<1>1. Init => TypeOK
  <2>1. SUFFICES ASSUME Init PROVE TypeOK
    OBVIOUS
  <2>2. nodes = << >> /\ DOMAIN nodes = {} /\ Len(nodes) = 0
    BY <2>1 DEF Init
  <2>3. nodes \in Seq(ToSet(nodes))
    BY <2>2
  <2>4. QED
    BY <2>2, <2>3, ChainAssumption DEF TypeOK, Node
<1>2. TypeOK /\ [Next]_vars => TypeOK'
  <2>1. SUFFICES ASSUME TypeOK, [Next]_vars PROVE TypeOK'
    OBVIOUS
  <2>2. ASSUME NEW props \in RootArgs, Make(props) PROVE TypeOK'
    <3>1. ContextOK(makeContext(props))
      BY MakeTyped
    <3> DEFINE n == [up |-> {}, args |-> props, ctx |-> makeContext(props)]
    <3>2. /\ DOMAIN n = {"up", "args", "ctx"}
          /\ n.up \subseteq 1..Len(nodes) /\ n.args \in RootArgs \cup Overrides
          /\ n.ctx = makeContext(props)
      OBVIOUS
    <3>3. Len(nodes) < MaxNodes /\ nodes' = Append(nodes, n)
      BY <2>2 DEF Make
    <3> HIDE DEF n
    <3>4. QED
      BY <2>1, <3>1, <3>2, <3>3, AppendTyped
  <2>3. ASSUME NEW values \in Configs, Bridge(values) PROVE TypeOK'
    <3>1. bridgedProps(values) \in RootArgs /\ Make(bridgedProps(values))
      BY <2>3 DEF RootArgs, Bridge
    <3>2. QED
      BY <2>2, <3>1
  <2>4. ASSUME NEW i \in DOMAIN nodes, NEW o \in Overrides, Extend(i, o) PROVE TypeOK'
    <3>1. ContextOK(nodes[i].ctx) /\ nodes[i].up \subseteq 1..(i - 1) /\ i \in 1..Len(nodes)
      BY <2>1 DEF TypeOK, Node, Ctx, ContextOK
    <3>2. ContextOK(extendContext(nodes[i].ctx, o))
      BY <3>1, ExtendKeeps
    <3> DEFINE n == [up   |-> nodes[i].up \cup {i},
                     args |-> o,
                     ctx  |-> extendContext(nodes[i].ctx, o)]
    <3>3. /\ DOMAIN n = {"up", "args", "ctx"}
          /\ n.up = nodes[i].up \cup {i}
          /\ n.args \in RootArgs \cup Overrides
          /\ n.ctx = extendContext(nodes[i].ctx, o)
      OBVIOUS
    <3>4. Len(nodes) < MaxNodes /\ nodes' = Append(nodes, n)
      BY <2>4 DEF Extend
    <3> HIDE DEF n
    <3>5. n.up \subseteq 1..Len(nodes)
      BY <3>1, <3>3
    <3>6. QED
      BY <2>1, <3>2, <3>3, <3>4, <3>5, AppendTyped
  <2>5. CASE UNCHANGED vars
    BY <2>1, <2>5 DEF vars, TypeOK, Node, Ctx
  <2>6. QED
    BY <2>1, <2>2, <2>3, <2>4, <2>5 DEF Next, RootArgs
<1>3. QED
  BY <1>1, <1>2, PTL DEF Spec

(* A step appends one node, made from props or extended from a node.       *)
LEMMA StepAppends ==
  ASSUME TypeOK, Next
  PROVE  /\ DOMAIN nodes = 1..Len(nodes) /\ Len(nodes) \in Nat
         /\ DOMAIN nodes' = 1..(Len(nodes) + 1)
         /\ \A i \in 1..Len(nodes) : nodes'[i] = nodes[i]
         /\ \/ \E props \in RootArgs :
                 nodes'[Len(nodes) + 1]
                   = [up |-> {}, args |-> props, ctx |-> makeContext(props)]
            \/ \E i \in 1..Len(nodes), o \in Overrides :
                 nodes'[Len(nodes) + 1]
                   = [up |-> nodes[i].up \cup {i}, args |-> o,
                      ctx |-> extendContext(nodes[i].ctx, o)]
<1>1. nodes \in Seq(ToSet(nodes)) /\ Len(nodes) \in Nat /\ DOMAIN nodes = 1..Len(nodes)
  BY DEF TypeOK
<1>2. ASSUME NEW n, nodes' = Append(nodes, n)
      PROVE  /\ DOMAIN nodes' = 1..(Len(nodes) + 1)
             /\ \A i \in 1..Len(nodes) : nodes'[i] = nodes[i]
             /\ nodes'[Len(nodes) + 1] = n
  <2>1. nodes \in Seq(ToSet(nodes) \cup {n})
    BY <1>1
  <2>2. QED
    BY <1>1, <1>2, <2>1
<1>3. ASSUME NEW props \in RootArgs, Make(props)
      PROVE  nodes' = Append(nodes, [up |-> {}, args |-> props, ctx |-> makeContext(props)])
  BY <1>3 DEF Make
<1>4. ASSUME NEW i \in DOMAIN nodes, NEW o \in Overrides, Extend(i, o)
      PROVE  nodes' = Append(nodes, [up |-> nodes[i].up \cup {i}, args |-> o,
                                     ctx |-> extendContext(nodes[i].ctx, o)])
  BY <1>4 DEF Extend
<1>5. CASE \E props \in RootArgs : Make(props)
  BY <1>1, <1>2, <1>3, <1>5
<1>6. (\E values \in Configs : Bridge(values)) => \E props \in RootArgs : Make(props)
  BY DEF Bridge, RootArgs
<1>7. (\E props \in RootProps : Make(props)) => \E props \in RootArgs : Make(props)
  BY DEF RootArgs
<1>8. CASE \E i \in DOMAIN nodes, o \in Overrides : Extend(i, o)
  BY <1>1, <1>2, <1>4, <1>8
<1>9. QED
  BY <1>5, <1>6, <1>7, <1>8 DEF Next

(***************************************************************************)
(* A descendant is never enabled below a disabled ancestor, its attributes *)
(* always extend the ancestor's, and it never loses a label: by induction  *)
(* on the creation of contexts, one extension keeping what its base had    *)
(* and the base what its own ancestors had.                                *)
(***************************************************************************)
THEOREM DescendantsKeepAll == Spec => []DescendantsKeep
<1>1. Init => DescendantsKeep
  BY DEF Init, DescendantsKeep, Node
<1>2. TypeOK /\ DescendantsKeep /\ [Next]_vars => DescendantsKeep'
  <2>1. SUFFICES ASSUME TypeOK, DescendantsKeep, Next PROVE DescendantsKeep'
    BY DEF vars, DescendantsKeep, Node, Ctx
  <2>2. /\ DOMAIN nodes = 1..Len(nodes) /\ Len(nodes) \in Nat
        /\ DOMAIN nodes' = 1..(Len(nodes) + 1)
        /\ \A i \in 1..Len(nodes) : nodes'[i] = nodes[i]
    BY <2>1, StepAppends
  <2>3. \A i \in 1..Len(nodes) : ContextOK(nodes[i].ctx) /\ nodes[i].up \subseteq 1..(i - 1)
    BY <2>1, <2>2 DEF TypeOK, Node, Ctx, ContextOK
  <2>4. \A i \in 1..Len(nodes) : \A j \in nodes[i].up : Keeps(nodes[i].ctx, nodes[j].ctx)
    BY <2>1, <2>2 DEF DescendantsKeep, Node, Ctx
  <2>5. SUFFICES ASSUME NEW k \in 1..(Len(nodes) + 1), NEW j \in nodes'[k].up
                 PROVE  Keeps(nodes'[k].ctx, nodes'[j].ctx)
    BY <2>2 DEF DescendantsKeep, Node, Ctx
  <2>6. CASE k \in 1..Len(nodes)
    <3>1. nodes'[k] = nodes[k] /\ j \in 1..Len(nodes) /\ nodes'[j] = nodes[j]
      BY <2>2, <2>3, <2>5, <2>6
    <3>2. QED
      BY <2>4, <2>5, <2>6, <3>1
  <2>7. CASE k = Len(nodes) + 1
    <3>1. PICK i \in 1..Len(nodes), o \in Overrides :
            nodes'[k] = [up |-> nodes[i].up \cup {i}, args |-> o,
                         ctx |-> extendContext(nodes[i].ctx, o)]
      <4>1. ASSUME NEW props \in RootArgs,
                   nodes'[k] = [up |-> {}, args |-> props, ctx |-> makeContext(props)]
            PROVE  FALSE
        <5>1. nodes'[k].up = {}
          BY <4>1
        <5>2. QED
          BY <2>5, <5>1
      <4>2. \/ \E props \in RootArgs :
                 nodes'[k] = [up |-> {}, args |-> props, ctx |-> makeContext(props)]
            \/ \E i \in 1..Len(nodes), o \in Overrides :
                 nodes'[k] = [up |-> nodes[i].up \cup {i}, args |-> o,
                              ctx |-> extendContext(nodes[i].ctx, o)]
        BY <2>1, <2>7, StepAppends
      <4>3. QED
        BY <4>1, <4>2
    <3>2. ContextOK(nodes'[k].ctx) /\ Keeps(nodes'[k].ctx, nodes[i].ctx)
      BY <2>3, <3>1, ExtendKeeps
    <3>3. j \in 1..Len(nodes) /\ (j = i \/ j \in nodes[i].up)
      BY <2>2, <2>3, <2>5, <3>1
    <3>4. CASE j = i
      BY <2>2, <3>2, <3>4
    <3>5. CASE j \in nodes[i].up
      <4>1. Keeps(nodes[i].ctx, nodes[j].ctx)
        BY <2>4, <3>5
      <4>2. QED
        BY <2>2, <2>3, <3>2, <3>3, <4>1, KeepsTransitive
    <3>6. QED
      BY <3>3, <3>4, <3>5
  <2>8. QED
    BY <2>2, <2>5, <2>6, <2>7
<1>3. QED
  BY <1>1, <1>2, TypeCorrect, PTL DEF Spec

(***************************************************************************)
(* enabled is exactly the conjunction of the enabled flags given on the    *)
(* path: the flag of a whole subtree can be switched off at any ancestor   *)
(* and cannot be switched on again below.                                  *)
(***************************************************************************)
THEOREM EnabledIsStickyAlways == Spec => []EnabledIsSticky
<1>1. Init => EnabledIsSticky
  BY DEF Init, EnabledIsSticky, Node
<1>2. TypeOK /\ EnabledIsSticky /\ [Next]_vars => EnabledIsSticky'
  <2>1. SUFFICES ASSUME TypeOK, EnabledIsSticky, Next PROVE EnabledIsSticky'
    BY DEF vars, EnabledIsSticky, Node, Ctx, GivenOn, Path
  <2>2. /\ DOMAIN nodes = 1..Len(nodes) /\ Len(nodes) \in Nat
        /\ DOMAIN nodes' = 1..(Len(nodes) + 1)
        /\ \A i \in 1..Len(nodes) : nodes'[i] = nodes[i]
    BY <2>1, StepAppends
  <2>3. \A i \in 1..Len(nodes) : ContextOK(nodes[i].ctx) /\ nodes[i].up \subseteq 1..(i - 1)
    BY <2>1, <2>2 DEF TypeOK, Node, Ctx, ContextOK
  <2>4. \A i \in 1..Len(nodes) :
          nodes[i].ctx.enabled
            <=> \A j \in nodes[i].up \cup {i} :
                  "enabled" \in DOMAIN nodes[j].args => nodes[j].args.enabled
    BY <2>1, <2>2 DEF EnabledIsSticky, Node, Ctx, GivenOn, Path
  <2>5. SUFFICES ASSUME NEW k \in 1..(Len(nodes) + 1)
                 PROVE  nodes'[k].ctx.enabled
                          <=> \A j \in nodes'[k].up \cup {k} :
                                "enabled" \in DOMAIN nodes'[j].args => nodes'[j].args.enabled
    BY <2>2 DEF EnabledIsSticky, Node, Ctx, GivenOn, Path
  <2>6. CASE k \in 1..Len(nodes)
    <3>1. \A j \in nodes[k].up \cup {k} : j \in 1..Len(nodes) /\ nodes'[j] = nodes[j]
      BY <2>2, <2>3, <2>6
    <3>2. QED
      BY <2>2, <2>4, <2>6, <3>1
  <2>7. ASSUME k = Len(nodes) + 1,
               NEW props \in RootArgs,
               nodes'[k] = [up |-> {}, args |-> props, ctx |-> makeContext(props)]
        PROVE  nodes'[k].ctx.enabled
                 <=> \A j \in nodes'[k].up \cup {k} :
                       "enabled" \in DOMAIN nodes'[j].args => nodes'[j].args.enabled
    <3>1. /\ DOMAIN props \subseteq Field
          /\ "enabled" \in DOMAIN props => props.enabled \in BOOLEAN
      BY ArgsTyped DEF PropsOK
    <3>2. makeContext(props).enabled = IF "enabled" \in DOMAIN props THEN props.enabled ELSE TRUE
      BY <3>1, MakeFields, DefaultFields, FieldsDisjoint
    <3>3. nodes'[k].up \cup {k} = {k} /\ nodes'[k].args = props /\ nodes'[k].ctx = makeContext(props)
      BY <2>7
    <3>4. QED
      BY <3>1, <3>2, <3>3
  <2>8. ASSUME k = Len(nodes) + 1,
               NEW i \in 1..Len(nodes), NEW o \in Overrides,
               nodes'[k] = [up |-> nodes[i].up \cup {i}, args |-> o,
                            ctx |-> extendContext(nodes[i].ctx, o)]
        PROVE  nodes'[k].ctx.enabled
                 <=> \A j \in nodes'[k].up \cup {k} :
                       "enabled" \in DOMAIN nodes'[j].args => nodes'[j].args.enabled
    <3>1. /\ DOMAIN o \subseteq Field
          /\ "enabled" \in DOMAIN o => o.enabled \in BOOLEAN
      BY ArgsTyped DEF PropsOK
    <3>2. extendContext(nodes[i].ctx, o).enabled
            = (nodes[i].ctx.enabled /\ Given(o, "enabled", TRUE))
      BY <2>3, <3>1, ExtendFields DEF ContextOK
    <3>3. /\ nodes'[k].up = nodes[i].up \cup {i}
          /\ nodes'[k].args = o
          /\ nodes'[k].ctx.enabled = (nodes[i].ctx.enabled /\ Given(o, "enabled", TRUE))
      <4>1. /\ nodes'[k].up = nodes[i].up \cup {i}
            /\ nodes'[k].args = o
            /\ nodes'[k].ctx = extendContext(nodes[i].ctx, o)
        BY <2>8
      <4>2. QED
        BY <3>2, <4>1
    <3>4. \A j \in nodes[i].up \cup {i} : nodes'[j] = nodes[j]
      BY <2>2, <2>3
    <3>5. (\A j \in nodes[i].up \cup {i} :
             "enabled" \in DOMAIN nodes'[j].args => nodes'[j].args.enabled)
          <=> nodes[i].ctx.enabled
      BY <2>4, <3>4
    <3>6. ("enabled" \in DOMAIN nodes'[k].args => nodes'[k].args.enabled)
          <=> Given(o, "enabled", TRUE)
      BY <3>1, <3>3 DEF Given
    <3>7. nodes[i].ctx.enabled \in BOOLEAN /\ Given(o, "enabled", TRUE) \in BOOLEAN
      BY <2>3, <3>1 DEF ContextOK, Given
    <3>8. QED
      BY <3>3, <3>5, <3>6, <3>7
  <2>9. k = Len(nodes) + 1 =>
          \/ \E props \in RootArgs :
               nodes'[k] = [up |-> {}, args |-> props, ctx |-> makeContext(props)]
          \/ \E i \in 1..Len(nodes), o \in Overrides :
               nodes'[k] = [up |-> nodes[i].up \cup {i}, args |-> o,
                            ctx |-> extendContext(nodes[i].ctx, o)]
    BY <2>1, StepAppends
  <2>10. k \in 1..Len(nodes) \/ k = Len(nodes) + 1
    BY <2>2, <2>5
  <2>11. QED
    BY <2>6, <2>7, <2>8, <2>9, <2>10
<1>3. QED
  BY <1>1, <1>2, TypeCorrect, PTL DEF Spec

-----------------------------------------------------------------------------
(***************************************************************************)
(* What becomes of the single fields and tags along a chain.               *)
(***************************************************************************)

(* Of a set of numbers and one above all of them, the one is the last.     *)
LEMMA LastIsNewest ==
  ASSUME NEW k \in Nat, NEW S \in SUBSET (1 .. (k - 1))
  PROVE  LastOf(S \cup {k}) = k
<1>1. \A j \in S \cup {k} : j \in Nat /\ j <= k
  OBVIOUS
<1>2. \A j \in S \cup {k} : (\A i \in S \cup {k} : i <= j) <=> j = k
  BY <1>1
<1>3. QED
  BY <1>2 DEF LastOf

(* A set of numbers with a bound has a last one: the least distance from   *)
(* the bound is reached, the natural numbers being well-founded.           *)
LEMMA LastIsMember ==
  ASSUME NEW n \in Nat, NEW S \in SUBSET (1 .. n), S # {}
  PROVE  LastOf(S) \in S /\ \A k \in S : k <= LastOf(S)
<1> DEFINE R == OpToRel(<, Nat)
           T == {d \in Nat : n - d \in S}
<1>1. IsWellFoundedOn(R, Nat)
  BY NatLessThanWellFounded
<1>2. \A x, y \in Nat : x < y => <<x, y>> \in R
  BY DEF OpToRel
<1>3. T \subseteq Nat /\ T # {}
  <2>1. PICK s \in S : TRUE
    OBVIOUS
  <2>2. n - s \in Nat /\ n - (n - s) = s
    OBVIOUS
  <2>3. QED
    BY <2>1, <2>2
<1> HIDE DEF R
<1>4. PICK d \in T : \A e \in T : ~ (<<e, d>> \in R)
  BY <1>1, <1>3, WFMin
<1>5. ASSUME NEW s \in S PROVE s <= n - d
  <2>1. n - s \in T /\ d \in Nat /\ n - s \in Nat
    OBVIOUS
  <2>2. ~ (n - s < d)
    BY <1>2, <1>4, <2>1
  <2>3. QED
    BY <2>1, <2>2
<1>6. n - d \in S
  BY <1>4
<1> HIDE DEF T
<1>7. QED
  BY <1>5, <1>6 DEF LastOf

(* An option an extension does not give is that of its base.               *)
LEMMA ExtendReplaced ==
  ASSUME NEW base, DOMAIN base = Field \cup {"id", "idFull"},
         NEW o, DOMAIN o \subseteq Field,
         NEW option \in ReplacedField
  PROVE  extendContext(base, o)[option] = IF option \in DOMAIN o THEN o[option] ELSE base[option]
<1> DEFINE replaced == [f \in ReplacedField |-> Given(o, f, base[f])]
           labels   == [l \in Label |-> IF Given(o, l, << >>) # << >> THEN o[l] ELSE base[l]]
           merged   == [enabled    |-> base.enabled /\ Given(o, "enabled", TRUE),
                        attributes |-> base.attributes \o Given(o, "attributes", << >>),
                        tags       |-> Spread(base.tags, Given(o, "tags", EmptyMap)),
                        additionalTagMap |->
                          Spread(base.additionalTagMap, Given(o, "additionalTagMap", EmptyMap))]
           props    == mergeOverrides(base, o)
<1>1. props = Spread(Spread(replaced, labels), merged)
  BY DEF mergeOverrides
<1>2. /\ DOMAIN replaced = ReplacedField /\ DOMAIN labels = Label
      /\ DOMAIN merged = {"enabled", "attributes", "tags", "additionalTagMap"}
      /\ \A f \in ReplacedField : replaced[f] = IF f \in DOMAIN o THEN o[f] ELSE base[f]
  BY DEF Given
<1> HIDE DEF replaced, labels, merged, props
<1>3. DOMAIN props = Field /\ \A f \in ReplacedField : props[f] = replaced[f]
  BY <1>1, <1>2, FieldsDisjoint DEF Spread, Field
<1>4. \A f \in Field \ {"tags"} : makeContext(props)[f] = props[f]
  BY <1>3, MakeFields
<1>5. extendContext(base, o) = makeContext(props)
  BY DEF extendContext, props
<1>6. ReplacedField \subseteq Field \ {"tags"}
  BY FieldsDisjoint
<1>7. QED
  BY <1>2, <1>3, <1>4, <1>5, <1>6

-----------------------------------------------------------------------------
(* Tags that are given are computed last, so they are tags of the context. *)
LEMMA MakeTags ==
  ASSUME NEW props, DOMAIN props \subseteq Field
  PROVE  "tags" \in DOMAIN props =>
           \A k \in DOMAIN props.tags :
             /\ k \in DOMAIN makeContext(props).tags
             /\ makeContext(props).tags[k] = props.tags[k]
<1> DEFINE normalized == Spread(CONTEXT_DEFAULTS, props)
           idFull     == computeIdFull(normalized)
           id         == applyLengthLimit(idFull, normalized.idLengthLimit)
           tags       == computeTags(normalized, id)
           outputs    == [id |-> id, idFull |-> idFull, tags |-> tags]
           before     == Spread(Spread(labelTags(normalized), [Name |-> id]), normalized.additionalTagMap)
<1> SUFFICES ASSUME "tags" \in DOMAIN props, NEW k \in DOMAIN props.tags
             PROVE  k \in DOMAIN makeContext(props).tags /\ makeContext(props).tags[k] = props.tags[k]
  OBVIOUS
<1>1. makeContext(props) = Spread(normalized, outputs)
  BY DEF makeContext
<1>2. "tags" \in DOMAIN outputs /\ outputs.tags = tags
  OBVIOUS
<1>3. tags = Spread(before, normalized.tags)
  BY DEF computeTags
<1>4. normalized.tags = props.tags
  BY DefaultFields, FieldsDisjoint DEF Spread
<1> HIDE DEF normalized, outputs, before, tags
<1>5. makeContext(props).tags = tags
  BY <1>1, <1>2 DEF Spread
<1>6. k \in DOMAIN tags /\ tags[k] = props.tags[k]
  BY <1>3, <1>4 DEF Spread
<1>7. QED
  BY <1>5, <1>6

(* An extension has the tags of its base and those it is given; the latter *)
(* win.                                                                    *)
LEMMA ExtendTags ==
  ASSUME NEW base, DOMAIN base = Field \cup {"id", "idFull"},
         NEW o, DOMAIN o \subseteq Field
  PROVE  /\ "tags" \in DOMAIN o =>
              \A k \in DOMAIN o.tags : /\ k \in DOMAIN extendContext(base, o).tags
                                       /\ extendContext(base, o).tags[k] = o.tags[k]
         /\ \A k \in DOMAIN base.tags :
              /\ k \in DOMAIN extendContext(base, o).tags
              /\ ("tags" \in DOMAIN o => k \notin DOMAIN o.tags)
                   => extendContext(base, o).tags[k] = base.tags[k]
<1> DEFINE front == Spread([f \in ReplacedField |-> Given(o, f, base[f])],
                           [l \in Label |-> IF Given(o, l, << >>) # << >> THEN o[l] ELSE base[l]])
           given  == Given(o, "tags", EmptyMap)
           merged == [enabled    |-> base.enabled /\ Given(o, "enabled", TRUE),
                      attributes |-> base.attributes \o Given(o, "attributes", << >>),
                      tags       |-> Spread(base.tags, given),
                      additionalTagMap |->
                        Spread(base.additionalTagMap, Given(o, "additionalTagMap", EmptyMap))]
           props  == mergeOverrides(base, o)
<1>1. props = Spread(front, merged)
  BY DEF mergeOverrides
<1>2. DOMAIN front = ReplacedField \cup Label
  BY DEF Spread
<1>3. /\ DOMAIN merged = {"enabled", "attributes", "tags", "additionalTagMap"}
      /\ merged.tags = Spread(base.tags, given)
  OBVIOUS
<1>4. IF "tags" \in DOMAIN o THEN given = o.tags ELSE DOMAIN given = {}
  <2>1. DOMAIN EmptyMap = {}
    BY DEF EmptyMap
  <2>2. QED
    BY <2>1 DEF Given
<1> HIDE DEF front, merged, given, props
<1>5. /\ DOMAIN props \subseteq Field /\ "tags" \in DOMAIN props
      /\ props.tags = Spread(base.tags, given)
  BY <1>1, <1>2, <1>3, FieldsDisjoint DEF Spread
<1>6. /\ DOMAIN props.tags = DOMAIN base.tags \cup DOMAIN given
      /\ \A k \in DOMAIN given : props.tags[k] = given[k]
      /\ \A k \in DOMAIN base.tags \ DOMAIN given : props.tags[k] = base.tags[k]
  BY <1>5 DEF Spread
<1>7. \A k \in DOMAIN props.tags : /\ k \in DOMAIN makeContext(props).tags
                                   /\ makeContext(props).tags[k] = props.tags[k]
  BY <1>5, MakeTags
<1>8. extendContext(base, o) = makeContext(props)
  BY DEF extendContext, props
<1>9. QED
  BY <1>4, <1>6, <1>7, <1>8

-----------------------------------------------------------------------------
\* GivenOn for nodes that may be those of the next state.
GivenIn(ns, i, f) == {j \in ns[i].up \cup {i} : f \in DOMAIN ns[j].args}
LabelsIn(ns, i, l) == {j \in GivenIn(ns, i, l) : ns[j].args[l] # << >>}
TagIn(ns, i, k) == {j \in GivenIn(ns, i, "tags") : k \in DOMAIN ns[j].args.tags}

\* The nodes ns have become mt by adding one that extends the i-th with o.
Extends(ns, mt, n, i, o) ==
  /\ n \in Nat /\ i \in 1 .. n
  /\ \A j \in 1 .. n : mt[j] = ns[j] /\ ns[j].up \subseteq 1 .. (j - 1)
  /\ mt[n + 1].up = ns[i].up \cup {i} /\ mt[n + 1].args = o

(* What is given on the path of a new node is what is given on its base's  *)
(* path, and what the extension gives.                                     *)
LEMMA PathGrows ==
  ASSUME NEW ns, NEW mt, NEW n, NEW i, NEW o, Extends(ns, mt, n, i, o)
  PROVE  /\ \A f : GivenIn(mt, n + 1, f) = GivenIn(ns, i, f) \cup (IF f \in DOMAIN o THEN {n + 1} ELSE {})
         /\ \A f : GivenIn(ns, i, f) \subseteq 1 .. n
         /\ \A j \in 1 .. n : mt[j] = ns[j]
<1>1. ns[i].up \cup {i} \subseteq 1 .. n
  BY DEF Extends
<1>2. \A f, j : j \in ns[i].up \cup {i} => j # n + 1 /\ mt[j] = ns[j]
  BY <1>1 DEF Extends
<1>3. QED
  BY <1>1, <1>2 DEF Extends, GivenIn

(* Older nodes have the paths they had.                                    *)
LEMMA PathStays ==
  ASSUME NEW ns, NEW mt, NEW n \in Nat, NEW i \in 1 .. n,
         \A j \in 1 .. n : mt[j] = ns[j] /\ ns[j].up \subseteq 1 .. (j - 1)
  PROVE  /\ mt[i] = ns[i] /\ ns[i].up \subseteq 1 .. n
         /\ \A f : GivenIn(mt, i, f) = GivenIn(ns, i, f) /\ GivenIn(ns, i, f) \subseteq 1 .. n
<1>1. ns[i].up \cup {i} \subseteq 1 .. n
  OBVIOUS
<1>2. QED
  BY <1>1 DEF GivenIn

(* A step adds a root, or a node that extends another.                     *)
LEMMA StepAdds ==
  ASSUME TypeOK, Next
  PROVE  \E n \in Nat :
           /\ DOMAIN nodes = 1 .. n /\ DOMAIN nodes' = 1 .. (n + 1)
           /\ \A j \in 1 .. n : /\ nodes'[j] = nodes[j] /\ nodes[j].up \subseteq 1 .. (j - 1)
                                /\ DOMAIN nodes[j].ctx = Field \cup {"id", "idFull"}
           /\ \/ \E props : /\ DOMAIN props \subseteq Field
                            /\ nodes'[n + 1].up = {} /\ nodes'[n + 1].args = props
                            /\ nodes'[n + 1].ctx = makeContext(props)
              \/ \E i \in 1 .. n : \E o : /\ DOMAIN o \subseteq Field
                                          /\ Extends(nodes, nodes', n, i, o)
                                          /\ nodes'[n + 1].ctx = extendContext(nodes[i].ctx, o)
<1> DEFINE n == Len(nodes)
<1>1. /\ DOMAIN nodes = 1 .. n /\ n \in Nat /\ DOMAIN nodes' = 1 .. (n + 1)
      /\ \A i \in 1 .. n : nodes'[i] = nodes[i]
  BY StepAppends
<1>2. \A j \in 1 .. n : /\ nodes[j].up \subseteq 1 .. (j - 1)
                        /\ DOMAIN nodes[j].ctx = Field \cup {"id", "idFull"}
  BY <1>1 DEF TypeOK, Node, Ctx
<1>3. ASSUME NEW props \in RootArgs,
             nodes'[n + 1] = [up |-> {}, args |-> props, ctx |-> makeContext(props)]
      PROVE  /\ DOMAIN props \subseteq Field
             /\ nodes'[n + 1].up = {} /\ nodes'[n + 1].args = props
             /\ nodes'[n + 1].ctx = makeContext(props)
  BY <1>3, ArgsTyped
<1>4. ASSUME NEW i \in 1 .. n, NEW o \in Overrides,
             nodes'[n + 1] = [up |-> nodes[i].up \cup {i}, args |-> o,
                              ctx |-> extendContext(nodes[i].ctx, o)]
      PROVE  /\ DOMAIN o \subseteq Field
             /\ Extends(nodes, nodes', n, i, o)
             /\ nodes'[n + 1].ctx = extendContext(nodes[i].ctx, o)
  <2>1. DOMAIN o \subseteq Field
    BY ArgsTyped
  <2>2. /\ nodes'[n + 1].up = nodes[i].up \cup {i} /\ nodes'[n + 1].args = o
        /\ nodes'[n + 1].ctx = extendContext(nodes[i].ctx, o)
    BY <1>4
  <2> HIDE DEF n
  <2>3. QED
    BY <1>1, <1>2, <2>1, <2>2 DEF Extends
<1>5. \/ \E props \in RootArgs :
           nodes'[n + 1] = [up |-> {}, args |-> props, ctx |-> makeContext(props)]
      \/ \E i \in 1 .. n, o \in Overrides :
           nodes'[n + 1] = [up |-> nodes[i].up \cup {i}, args |-> o,
                            ctx |-> extendContext(nodes[i].ctx, o)]
  BY StepAppends
<1> HIDE DEF n
<1>6. QED
  BY <1>1, <1>2, <1>3, <1>4, <1>5

-----------------------------------------------------------------------------
\* FieldsAreLastGiven of one node, which may be of the next state.
LabelIn(ns, i, l) ==
  ns[i].ctx[l] = IF LabelsIn(ns, i, l) = {} THEN << >> ELSE ns[LastOf(LabelsIn(ns, i, l))].args[l]
OptionIn(ns, i, f) ==
  ns[i].ctx[f] = IF GivenIn(ns, i, f) = {} THEN CONTEXT_DEFAULTS[f]
                 ELSE ns[LastOf(GivenIn(ns, i, f))].args[f]
FieldsIn(ns, i) == (\A l \in Label : LabelIn(ns, i, l)) /\ (\A f \in ReplacedField : OptionIn(ns, i, f))

(* Nothing changes for nodes that were there.                              *)
LEMMA FieldsStay ==
  ASSUME NEW ns, NEW mt, NEW n \in Nat, NEW i \in 1 .. n, FieldsIn(ns, i),
         \A j \in 1 .. n : mt[j] = ns[j] /\ ns[j].up \subseteq 1 .. (j - 1)
  PROVE  FieldsIn(mt, i)
<1>1. /\ mt[i] = ns[i]
      /\ \A f : GivenIn(mt, i, f) = GivenIn(ns, i, f) /\ GivenIn(ns, i, f) \in SUBSET (1 .. n)
  <2>1. /\ mt[i] = ns[i]
        /\ \A f : GivenIn(mt, i, f) = GivenIn(ns, i, f) /\ GivenIn(ns, i, f) \subseteq 1 .. n
    BY PathStays
  <2>2. QED
    BY <2>1
<1>2. \A l : LabelsIn(mt, i, l) = LabelsIn(ns, i, l) /\ LabelsIn(ns, i, l) \in SUBSET (1 .. n)
  BY <1>1 DEF LabelsIn
<1>3. \A S \in SUBSET (1 .. n) : S # {} => mt[LastOf(S)] = ns[LastOf(S)]
  BY LastIsMember
<1>4. ASSUME NEW l \in Label PROVE LabelIn(mt, i, l)
  <2>1. LabelIn(ns, i, l)
    BY DEF FieldsIn
  <2>2. QED
    BY <1>1, <1>2, <1>3, <2>1 DEF LabelIn
<1>5. ASSUME NEW f \in ReplacedField PROVE OptionIn(mt, i, f)
  <2>1. OptionIn(ns, i, f)
    BY DEF FieldsIn
  <2>2. QED
    BY <1>1, <1>3, <2>1 DEF OptionIn
<1>6. QED
  BY <1>4, <1>5 DEF FieldsIn

(* A root has what it is given, and the defaults.                          *)
LEMMA FieldsOfRoot ==
  ASSUME NEW ns, NEW k \in Nat, NEW props, DOMAIN props \subseteq Field,
         ns[k].up = {}, ns[k].args = props, ns[k].ctx = makeContext(props)
  PROVE  FieldsIn(ns, k)
<1>1. \A f : GivenIn(ns, k, f) = IF f \in DOMAIN props THEN {k} ELSE {}
  BY DEF GivenIn
<1>2. LastOf({k}) = k
  BY DEF LastOf
<1>3. \A f \in Field \ {"tags"} :
        ns[k].ctx[f] = IF f \in DOMAIN props THEN props[f] ELSE CONTEXT_DEFAULTS[f]
  BY MakeFields
<1>4. Label \subseteq Field \ {"tags"} /\ ReplacedField \subseteq Field \ {"tags"}
  BY FieldsDisjoint
<1>5. ASSUME NEW f \in ReplacedField PROVE OptionIn(ns, k, f)
  BY <1>1, <1>2, <1>3, <1>4 DEF OptionIn
<1>6. ASSUME NEW l \in Label PROVE LabelIn(ns, k, l)
  <2>1. LabelsIn(ns, k, l) = IF l \in DOMAIN props /\ props[l] # << >> THEN {k} ELSE {}
    BY <1>1 DEF LabelsIn
  <2>2. CONTEXT_DEFAULTS[l] = << >>
    BY DefaultFields
  <2>3. QED
    BY <1>2, <1>3, <1>4, <2>1, <2>2 DEF LabelIn
<1>7. QED
  BY <1>5, <1>6 DEF FieldsIn

(* An extension has what it is given, and what its base has.               *)
LEMMA FieldsOfExtension ==
  ASSUME NEW ns, NEW mt, NEW n, NEW i, NEW o, Extends(ns, mt, n, i, o), FieldsIn(ns, i),
         DOMAIN o \subseteq Field, DOMAIN ns[i].ctx = Field \cup {"id", "idFull"},
         mt[n + 1].ctx = extendContext(ns[i].ctx, o)
  PROVE  FieldsIn(mt, n + 1)
<1>1. /\ \A f : GivenIn(mt, n + 1, f) = GivenIn(ns, i, f) \cup (IF f \in DOMAIN o THEN {n + 1} ELSE {})
      /\ \A f : GivenIn(ns, i, f) \in SUBSET (1 .. n)
      /\ \A j \in 1 .. n : mt[j] = ns[j]
  BY PathGrows
<1>2. n \in Nat /\ mt[n + 1].args = o
  BY DEF Extends
<1>3. \A S \in SUBSET (1 .. n) : S # {} => mt[LastOf(S)] = ns[LastOf(S)]
  BY <1>1, <1>2, LastIsMember
<1>4. \A S \in SUBSET (1 .. n) : LastOf(S \cup {n + 1}) = n + 1
  <2>1. n + 1 \in Nat /\ (n + 1) - 1 = n
    BY <1>2
  <2>2. QED
    BY <2>1, LastIsNewest
<1>5. ASSUME NEW f \in ReplacedField PROVE OptionIn(mt, n + 1, f)
  <2>1. mt[n + 1].ctx[f] = IF f \in DOMAIN o THEN o[f] ELSE ns[i].ctx[f]
    <3>1. ASSUME NEW base, base = ns[i].ctx
          PROVE  extendContext(base, o)[f] = IF f \in DOMAIN o THEN o[f] ELSE base[f]
      <4>1. DOMAIN base = Field \cup {"id", "idFull"}
        BY <3>1
      <4>2. QED
        BY <4>1, ExtendReplaced
    <3>2. QED
      BY <3>1
  <2>2. OptionIn(ns, i, f)
    BY DEF FieldsIn
  <2>3. CASE f \in DOMAIN o
    <3>1. GivenIn(mt, n + 1, f) # {} /\ LastOf(GivenIn(mt, n + 1, f)) = n + 1
      BY <1>1, <1>4, <2>3
    <3>2. QED
      BY <1>2, <2>1, <2>3, <3>1 DEF OptionIn
  <2>4. CASE f \notin DOMAIN o
    <3>1. GivenIn(mt, n + 1, f) = GivenIn(ns, i, f)
      BY <1>1, <2>4
    <3>2. QED
      BY <1>1, <1>3, <2>1, <2>2, <2>4, <3>1 DEF OptionIn
  <2>5. QED
    BY <2>3, <2>4
<1>6. ASSUME NEW l \in Label PROVE LabelIn(mt, n + 1, l)
  <2> DEFINE gives == l \in DOMAIN o /\ o[l] # << >>
  <2>1. mt[n + 1].ctx[l] = IF gives THEN o[l] ELSE ns[i].ctx[l]
    <3>1. extendContext(ns[i].ctx, o)[l] = IF Given(o, l, << >>) # << >> THEN o[l] ELSE ns[i].ctx[l]
      BY ExtendFields
    <3>2. QED
      BY <3>1 DEF Given
  <2>2. LabelIn(ns, i, l)
    BY DEF FieldsIn
  <2>3. /\ LabelsIn(ns, i, l) \in SUBSET (1 .. n)
        /\ LabelsIn(mt, n + 1, l) = LabelsIn(ns, i, l) \cup (IF gives THEN {n + 1} ELSE {})
    BY <1>1, <1>2 DEF LabelsIn
  <2>4. CASE gives
    <3>1. LabelsIn(mt, n + 1, l) # {} /\ LastOf(LabelsIn(mt, n + 1, l)) = n + 1
      BY <1>4, <2>3, <2>4
    <3>2. QED
      BY <1>2, <2>1, <2>4, <3>1 DEF LabelIn
  <2>5. CASE ~gives
    <3>1. LabelsIn(mt, n + 1, l) = LabelsIn(ns, i, l)
      BY <2>3, <2>5
    <3>2. QED
      BY <1>3, <2>1, <2>2, <2>3, <2>5, <3>1 DEF LabelIn
  <2>6. QED
    BY <2>4, <2>5
<1>7. QED
  BY <1>5, <1>6 DEF FieldsIn

(***************************************************************************)
(* A chain of extensions of any length has, label by label and option by   *)
(* option, the last value given on its path: it is as good as one          *)
(* extension with the merged overrides (context-fns.ts:149-171).           *)
(***************************************************************************)
THEOREM FieldsAreLastGivenAlways == Spec => []FieldsAreLastGiven
<1>1. FieldsAreLastGiven <=> \A i \in DOMAIN nodes : FieldsIn(nodes, i)
  BY DEF FieldsAreLastGiven, FieldsIn, LabelIn, OptionIn, LabelsIn, GivenIn, GivenOn, Path, Node, Ctx
<1>2. FieldsAreLastGiven' <=> \A i \in DOMAIN nodes' : FieldsIn(nodes', i)
  BY DEF FieldsAreLastGiven, FieldsIn, LabelIn, OptionIn, LabelsIn, GivenIn, GivenOn, Path, Node, Ctx
<1>3. Init => FieldsAreLastGiven
  BY <1>1 DEF Init
<1>4. TypeOK /\ FieldsAreLastGiven /\ [Next]_vars => FieldsAreLastGiven'
  <2>1. CASE UNCHANGED vars
    BY <1>1, <1>2, <2>1 DEF vars
  <2>2. ASSUME TypeOK, FieldsAreLastGiven, Next PROVE FieldsAreLastGiven'
    <3>1. PICK n \in Nat :
            /\ DOMAIN nodes = 1 .. n /\ DOMAIN nodes' = 1 .. (n + 1)
            /\ \A j \in 1 .. n : /\ nodes'[j] = nodes[j] /\ nodes[j].up \subseteq 1 .. (j - 1)
                                 /\ DOMAIN nodes[j].ctx = Field \cup {"id", "idFull"}
            /\ \/ \E props : /\ DOMAIN props \subseteq Field
                             /\ nodes'[n + 1].up = {} /\ nodes'[n + 1].args = props
                             /\ nodes'[n + 1].ctx = makeContext(props)
               \/ \E i \in 1 .. n : \E o : /\ DOMAIN o \subseteq Field
                                           /\ Extends(nodes, nodes', n, i, o)
                                           /\ nodes'[n + 1].ctx = extendContext(nodes[i].ctx, o)
      BY <2>2, StepAdds
    <3>2. \A i \in 1 .. n : FieldsIn(nodes, i)
      BY <1>1, <2>2, <3>1
    <3>3. \A i \in 1 .. n : FieldsIn(nodes', i)
      BY <3>1, <3>2, FieldsStay
    <3>4. FieldsIn(nodes', n + 1)
      <4>1. n + 1 \in Nat
        OBVIOUS
      <4>2. ASSUME NEW props, DOMAIN props \subseteq Field,
                   nodes'[n + 1].up = {}, nodes'[n + 1].args = props,
                   nodes'[n + 1].ctx = makeContext(props)
            PROVE  FieldsIn(nodes', n + 1)
        BY <4>1, <4>2, FieldsOfRoot
      <4>3. ASSUME NEW i \in 1 .. n, NEW o, DOMAIN o \subseteq Field,
                   Extends(nodes, nodes', n, i, o),
                   nodes'[n + 1].ctx = extendContext(nodes[i].ctx, o)
            PROVE  FieldsIn(nodes', n + 1)
        BY <3>1, <3>2, <4>3, FieldsOfExtension
      <4>4. QED
        BY <3>1, <4>2, <4>3
    <3>5. QED
      BY <1>2, <3>1, <3>3, <3>4
  <2>3. QED
    BY <2>1, <2>2
<1>5. QED
  BY <1>3, <1>4, TypeCorrect, PTL DEF Spec

-----------------------------------------------------------------------------
\* GivenTagsWin of one node.
TagsWin(ns, i) ==
  \A k : TagIn(ns, i, k) # {} =>
    /\ k \in DOMAIN ns[i].ctx.tags
    /\ ns[i].ctx.tags[k] = ns[LastOf(TagIn(ns, i, k))].args.tags[k]

(* What an extension does to the tags, and to what is given on the path.   *)
LEMMA TagsOfExtension ==
  ASSUME NEW ns, NEW mt, NEW n, NEW i, NEW o, Extends(ns, mt, n, i, o),
         DOMAIN o \subseteq Field, DOMAIN ns[i].ctx = Field \cup {"id", "idFull"},
         mt[n + 1].ctx = extendContext(ns[i].ctx, o),
         NEW k
  PROVE  /\ TagIn(ns, i, k) \in SUBSET (1 .. n)
         /\ IF "tags" \in DOMAIN o /\ k \in DOMAIN o.tags
            THEN /\ TagIn(mt, n + 1, k) = TagIn(ns, i, k) \cup {n + 1}
                 /\ k \in DOMAIN mt[n + 1].ctx.tags /\ mt[n + 1].ctx.tags[k] = o.tags[k]
            ELSE /\ TagIn(mt, n + 1, k) = TagIn(ns, i, k)
                 /\ k \in DOMAIN ns[i].ctx.tags =>
                      k \in DOMAIN mt[n + 1].ctx.tags /\ mt[n + 1].ctx.tags[k] = ns[i].ctx.tags[k]
         /\ k \in DOMAIN ns[i].ctx.tags => k \in DOMAIN mt[n + 1].ctx.tags
<1>1. /\ GivenIn(mt, n + 1, "tags") = GivenIn(ns, i, "tags") \cup (IF "tags" \in DOMAIN o THEN {n + 1} ELSE {})
      /\ GivenIn(ns, i, "tags") \subseteq 1 .. n
      /\ \A j \in 1 .. n : mt[j] = ns[j]
  BY PathGrows
<1>2. n \in Nat /\ mt[n + 1].args = o
  BY DEF Extends
<1>3. /\ TagIn(ns, i, k) \in SUBSET (1 .. n)
      /\ TagIn(mt, n + 1, k)
           = TagIn(ns, i, k) \cup (IF "tags" \in DOMAIN o /\ k \in DOMAIN o.tags THEN {n + 1} ELSE {})
  BY <1>1, <1>2 DEF TagIn
<1>4. ASSUME NEW base, base = ns[i].ctx
      PROVE  /\ "tags" \in DOMAIN o /\ k \in DOMAIN o.tags =>
                  /\ k \in DOMAIN extendContext(base, o).tags
                  /\ extendContext(base, o).tags[k] = o.tags[k]
             /\ k \in DOMAIN base.tags =>
                  /\ k \in DOMAIN extendContext(base, o).tags
                  /\ ~ ("tags" \in DOMAIN o /\ k \in DOMAIN o.tags)
                       => extendContext(base, o).tags[k] = base.tags[k]
  <2>1. DOMAIN base = Field \cup {"id", "idFull"}
    BY <1>4
  <2>2. QED
    BY <2>1, ExtendTags
<1>5. QED
  BY <1>3, <1>4

(***************************************************************************)
(* A tag given by name is on its context and on every descendant with the  *)
(* value last given, and wins over labels, Name, additionalTagMap and what *)
(* is inherited, however many extensions lie between                       *)
(* (context-fns.ts:105-110 and 165).                                       *)
(***************************************************************************)
THEOREM GivenTagsAlwaysWin == Spec => []GivenTagsWin
<1>1. GivenTagsWin <=> \A i \in DOMAIN nodes : TagsWin(nodes, i)
  BY DEF GivenTagsWin, TagsWin, TagIn, GivenIn, GivenOn, Path, Node, Ctx
<1>2. GivenTagsWin' <=> \A i \in DOMAIN nodes' : TagsWin(nodes', i)
  BY DEF GivenTagsWin, TagsWin, TagIn, GivenIn, GivenOn, Path, Node, Ctx
<1>3. Init => GivenTagsWin
  BY <1>1 DEF Init
<1>4. TypeOK /\ GivenTagsWin /\ [Next]_vars => GivenTagsWin'
  <2>1. CASE UNCHANGED vars
    BY <1>1, <1>2, <2>1 DEF vars
  <2>2. ASSUME TypeOK, GivenTagsWin, Next PROVE GivenTagsWin'
    <3>1. PICK n \in Nat :
            /\ DOMAIN nodes = 1 .. n /\ DOMAIN nodes' = 1 .. (n + 1)
            /\ \A j \in 1 .. n : /\ nodes'[j] = nodes[j] /\ nodes[j].up \subseteq 1 .. (j - 1)
                                 /\ DOMAIN nodes[j].ctx = Field \cup {"id", "idFull"}
            /\ \/ \E props : /\ DOMAIN props \subseteq Field
                             /\ nodes'[n + 1].up = {} /\ nodes'[n + 1].args = props
                             /\ nodes'[n + 1].ctx = makeContext(props)
               \/ \E i \in 1 .. n : \E o : /\ DOMAIN o \subseteq Field
                                           /\ Extends(nodes, nodes', n, i, o)
                                           /\ nodes'[n + 1].ctx = extendContext(nodes[i].ctx, o)
      BY <2>2, StepAdds
    <3>2. \A i \in 1 .. n : TagsWin(nodes, i)
      BY <1>1, <2>2, <3>1
    <3>3. \A S \in SUBSET (1 .. n) : S # {} => nodes'[LastOf(S)] = nodes[LastOf(S)]
      BY <3>1, LastIsMember
    <3>4. ASSUME NEW i \in 1 .. n PROVE TagsWin(nodes', i)
      <4>1. /\ nodes'[i] = nodes[i]
            /\ GivenIn(nodes', i, "tags") = GivenIn(nodes, i, "tags")
            /\ GivenIn(nodes, i, "tags") \subseteq 1 .. n
        <5>1. /\ nodes'[i] = nodes[i] /\ nodes[i].up \subseteq 1 .. (i - 1)
              /\ \A h \in 1 .. n : nodes'[h] = nodes[h]
          BY <3>1
        <5>2. nodes[i].up \cup {i} \subseteq 1 .. n
          BY <5>1
        <5>3. QED
          BY <5>1, <5>2 DEF GivenIn
      <4>2. \A k : TagIn(nodes', i, k) = TagIn(nodes, i, k) /\ TagIn(nodes, i, k) \in SUBSET (1 .. n)
        BY <3>1, <4>1 DEF TagIn
      <4>3. TagsWin(nodes, i)
        BY <3>2
      <4>4. QED
        BY <3>3, <4>1, <4>2, <4>3 DEF TagsWin
    <3>5. ASSUME NEW props, DOMAIN props \subseteq Field,
                 nodes'[n + 1].up = {}, nodes'[n + 1].args = props,
                 nodes'[n + 1].ctx = makeContext(props)
          PROVE  TagsWin(nodes', n + 1)
      <4>1. \A k : TagIn(nodes', n + 1, k)
                     = IF "tags" \in DOMAIN props /\ k \in DOMAIN props.tags THEN {n + 1} ELSE {}
        BY <3>5 DEF TagIn, GivenIn
      <4>2. LastOf({n + 1}) = n + 1
        BY DEF LastOf
      <4>3. "tags" \in DOMAIN props =>
              \A k \in DOMAIN props.tags : /\ k \in DOMAIN nodes'[n + 1].ctx.tags
                                           /\ nodes'[n + 1].ctx.tags[k] = props.tags[k]
        BY <3>5, MakeTags
      <4>4. QED
        BY <3>5, <4>1, <4>2, <4>3 DEF TagsWin
    <3>6. ASSUME NEW i \in 1 .. n, NEW o, DOMAIN o \subseteq Field,
                 Extends(nodes, nodes', n, i, o),
                 nodes'[n + 1].ctx = extendContext(nodes[i].ctx, o)
          PROVE  TagsWin(nodes', n + 1)
      <4>1. SUFFICES ASSUME NEW k, TagIn(nodes', n + 1, k) # {}
                     PROVE  /\ k \in DOMAIN nodes'[n + 1].ctx.tags
                            /\ nodes'[n + 1].ctx.tags[k]
                                 = nodes'[LastOf(TagIn(nodes', n + 1, k))].args.tags[k]
        BY DEF TagsWin
      <4>2. DOMAIN nodes[i].ctx = Field \cup {"id", "idFull"} /\ nodes'[n + 1].args = o
        BY <3>1, <3>6 DEF Extends
      <4>3. TagIn(nodes, i, k) \in SUBSET (1 .. n)
        BY <3>6, <4>2, TagsOfExtension
      <4>4. CASE "tags" \in DOMAIN o /\ k \in DOMAIN o.tags
        <5>1. /\ TagIn(nodes', n + 1, k) = TagIn(nodes, i, k) \cup {n + 1}
              /\ k \in DOMAIN nodes'[n + 1].ctx.tags /\ nodes'[n + 1].ctx.tags[k] = o.tags[k]
          BY <3>6, <4>2, <4>4, TagsOfExtension
        <5>2. LastOf(TagIn(nodes, i, k) \cup {n + 1}) = n + 1
          <6>1. n + 1 \in Nat /\ (n + 1) - 1 = n
            OBVIOUS
          <6>2. QED
            BY <4>3, <6>1, LastIsNewest
        <5>3. QED
          BY <4>2, <5>1, <5>2
      <4>5. CASE ~ ("tags" \in DOMAIN o /\ k \in DOMAIN o.tags)
        <5>1. /\ TagIn(nodes', n + 1, k) = TagIn(nodes, i, k)
              /\ k \in DOMAIN nodes[i].ctx.tags =>
                   k \in DOMAIN nodes'[n + 1].ctx.tags /\ nodes'[n + 1].ctx.tags[k] = nodes[i].ctx.tags[k]
          BY <3>6, <4>2, <4>5, TagsOfExtension
        <5>2. /\ k \in DOMAIN nodes[i].ctx.tags
              /\ nodes[i].ctx.tags[k] = nodes[LastOf(TagIn(nodes, i, k))].args.tags[k]
          BY <3>2, <4>1, <5>1 DEF TagsWin
        <5>3. QED
          BY <3>3, <4>1, <4>3, <5>1, <5>2
      <4>6. QED
        BY <4>4, <4>5
    <3>7. TagsWin(nodes', n + 1)
      BY <3>1, <3>5, <3>6
    <3>8. QED
      BY <1>2, <3>1, <3>4, <3>7
  <2>3. QED
    BY <2>1, <2>2
<1>5. QED
  BY <1>3, <1>4, TypeCorrect, PTL DEF Spec

-----------------------------------------------------------------------------
(***************************************************************************)
(* What ids are made of.                                                   *)
(***************************************************************************)
LEMMA CaseTyped ==
  ASSUME NEW v \in Seq(Atom), NEW mode
  PROVE  applyCase(v, mode) \in Seq(Atom)
<1>1. ASSUME NEW i \in DOMAIN v PROVE applyCase(v, mode)[i] \in Atom
  <2>1. v[i] \in Atom /\ Lower[v[i]] \in Atom /\ Upper[v[i]] \in Atom
    BY AtomAssumption
  <2>2. QED
    BY <2>1 DEF applyCase
<1>2. Len(v) \in Nat /\ DOMAIN v = 1 .. Len(v)
  OBVIOUS
<1>3. applyCase(v, mode) = [i \in 1 .. Len(v) |-> applyCase(v, mode)[i]]
  BY <1>2 DEF applyCase
<1> DEFINE f == applyCase(v, mode)
<1> HIDE DEF f
<1>4. \A i \in 1 .. Len(v) : f[i] \in Atom
  BY <1>1, <1>2 DEF f
<1>5. f = [i \in 1 .. Len(v) |-> f[i]]
  BY <1>3 DEF f
<1>6. f \in Seq(Atom)
  BY <1>2, <1>4, <1>5
<1>7. QED
  BY <1>6 DEF f

\* A list of what is kept of each element of s.
Kept(s, T) == [i \in DOMAIN s |-> IF s[i] \in T THEN << >> ELSE <<s[i]>>]

LEMMA KeptTyped ==
  ASSUME NEW S, NEW s \in Seq(S), NEW T
  PROVE  /\ Kept(s, T) \in Seq(Seq(S)) /\ Len(Kept(s, T)) = Len(s)
         /\ \A i \in 1 .. Len(s) : Kept(s, T)[i] = IF s[i] \in T THEN << >> ELSE <<s[i]>>
         /\ Without(s, T) = FlattenSeq(Kept(s, T))
<1>1. ASSUME NEW i \in DOMAIN s PROVE (IF s[i] \in T THEN << >> ELSE <<s[i]>>) \in Seq(S)
  <2>1. s[i] \in S
    OBVIOUS
  <2>2. << >> \in Seq(S) /\ <<s[i]>> \in Seq(S)
    BY <2>1
  <2>3. QED
    BY <2>2
<1>2. Len(s) \in Nat /\ DOMAIN s = 1 .. Len(s)
  OBVIOUS
<1>3. QED
  BY <1>1, <1>2 DEF Kept, Without

(* What is left of a list is a list of the same.                           *)
LEMMA WithoutTyped ==
  ASSUME NEW S, NEW s \in Seq(S), NEW T
  PROVE  Without(s, T) \in Seq(S)
BY KeptTyped, FlattenTyped

(* The last element of a list is kept last, or left out.                   *)
LEMMA WithoutLast ==
  ASSUME NEW S, NEW s \in Seq(S), s # << >>, NEW T
  PROVE  /\ SubSeq(s, 1, Len(s) - 1) \in Seq(S)
         /\ Without(s, T) = Without(SubSeq(s, 1, Len(s) - 1), T)
                              \o (IF s[Len(s)] \in T THEN << >> ELSE <<s[Len(s)]>>)
<1> DEFINE n == Len(s)
           front == SubSeq(s, 1, n - 1)
           kept == Kept(s, T)
<1>1. n \in Nat /\ n # 0 /\ n - 1 \in Nat
  OBVIOUS
<1>2. /\ front \in Seq(S) /\ Len(front) = n - 1
      /\ \A i \in 1 .. (n - 1) : front[i] = s[i]
  BY FrontElements
<1>3. /\ kept \in Seq(Seq(S)) /\ Len(kept) = n /\ Without(s, T) = FlattenSeq(kept)
      /\ \A i \in 1 .. n : kept[i] = IF s[i] \in T THEN << >> ELSE <<s[i]>>
  BY KeptTyped
<1> HIDE DEF n, front, kept
<1>4. /\ Kept(front, T) \in Seq(Seq(S)) /\ Len(Kept(front, T)) = n - 1
      /\ Without(front, T) = FlattenSeq(Kept(front, T))
      /\ \A i \in 1 .. (n - 1) : Kept(front, T)[i] = IF front[i] \in T THEN << >> ELSE <<front[i]>>
  BY <1>2, KeptTyped
<1>5. kept # << >>
  BY <1>1, <1>3
<1>6. /\ SubSeq(kept, 1, n - 1) \in Seq(Seq(S))
      /\ FlattenSeq(kept) = FlattenSeq(SubSeq(kept, 1, n - 1)) \o kept[n]
  BY <1>3, <1>5, FlattenAppend
<1>7. SubSeq(kept, 1, n - 1) = Kept(front, T)
  <2>1. /\ Len(SubSeq(kept, 1, n - 1)) = n - 1
        /\ \A i \in 1 .. (n - 1) : SubSeq(kept, 1, n - 1)[i] = kept[i]
    BY <1>1, <1>3
  <2>2. \A i \in 1 .. (n - 1) : kept[i] = Kept(front, T)[i]
    <3>1. \A i \in 1 .. (n - 1) : i \in 1 .. n
      BY <1>1
    <3>2. QED
      BY <1>2, <1>3, <1>4, <3>1
  <2>3. QED
    BY <1>1, <1>4, <1>6, <2>1, <2>2
<1>8. n \in 1 .. n
  BY <1>1
<1>9. QED
  BY <1>2, <1>3, <1>4, <1>6, <1>7, <1>8 DEF n, front

\* The parts a joined text consists of.
Parts(texts, d) == [i \in DOMAIN texts |-> IF i = 1 THEN texts[i] ELSE d \o texts[i]]

LEMMA PartsTyped ==
  ASSUME NEW S, NEW texts \in Seq(Seq(S)), NEW d \in Seq(S)
  PROVE  /\ Parts(texts, d) \in Seq(Seq(S)) /\ Len(Parts(texts, d)) = Len(texts)
         /\ \A i \in 1 .. Len(texts) :
              Parts(texts, d)[i] = IF i = 1 THEN texts[i] ELSE d \o texts[i]
         /\ Join(texts, d) = FlattenSeq(Parts(texts, d))
<1>1. \A i \in DOMAIN texts : (IF i = 1 THEN texts[i] ELSE d \o texts[i]) \in Seq(S)
  OBVIOUS
<1>2. Len(texts) \in Nat /\ DOMAIN texts = 1 .. Len(texts)
  OBVIOUS
<1>3. QED
  BY <1>1, <1>2 DEF Parts, Join

LEMMA JoinTyped ==
  ASSUME NEW S, NEW texts \in Seq(Seq(S)), NEW d \in Seq(S)
  PROVE  Join(texts, d) \in Seq(S)
BY PartsTyped, FlattenTyped

(* More texts, or a last one that goes on, join to a text that goes on.    *)
LEMMA JoinGrows ==
  ASSUME NEW S, NEW texts \in Seq(Seq(S)), NEW more \in Seq(Seq(S)), NEW d \in Seq(S),
         Len(texts) <= Len(more),
         \A i \in 1 .. (Len(texts) - 1) : texts[i] = more[i],
         Len(texts) # 0 => IsPrefix(texts[Len(texts)], more[Len(texts)])
  PROVE  IsPrefix(Join(texts, d), Join(more, d))
<1> DEFINE n == Len(texts)
           p == Parts(texts, d)
           q == Parts(more, d)
<1>1. n \in Nat /\ Len(more) \in Nat /\ n <= Len(more)
  OBVIOUS
<1>2. /\ p \in Seq(Seq(S)) /\ Len(p) = n /\ Join(texts, d) = FlattenSeq(p)
      /\ \A i \in 1 .. n : p[i] = IF i = 1 THEN texts[i] ELSE d \o texts[i]
  BY PartsTyped
<1>3. /\ q \in Seq(Seq(S)) /\ Len(q) = Len(more) /\ Join(more, d) = FlattenSeq(q)
      /\ \A i \in 1 .. Len(more) : q[i] = IF i = 1 THEN more[i] ELSE d \o more[i]
  BY PartsTyped
<1>4. \A i \in 1 .. (n - 1) : texts[i] = more[i]
  OBVIOUS
<1>5. n # 0 => texts[n] \in Seq(S) /\ more[n] \in Seq(S) /\ IsPrefix(texts[n], more[n])
  BY <1>1
<1> HIDE DEF n, p, q
<1>6. ASSUME NEW i \in 1 .. (n - 1) PROVE p[i] = q[i]
  <2>1. i \in 1 .. n /\ i \in 1 .. Len(more) /\ texts[i] = more[i]
    BY <1>1, <1>4
  <2>2. p[i] = IF i = 1 THEN texts[i] ELSE d \o texts[i]
    BY <1>2, <2>1
  <2>3. q[i] = IF i = 1 THEN more[i] ELSE d \o more[i]
    BY <1>3, <2>1
  <2>4. QED
    BY <2>1, <2>2, <2>3
<1>7. n # 0 => IsPrefix(p[n], q[n])
  <2>1. SUFFICES ASSUME n # 0 PROVE IsPrefix(p[n], q[n])
    OBVIOUS
  <2>2. n \in 1 .. n /\ n \in 1 .. Len(more)
    BY <1>1, <2>1
  <2>3. IsPrefix(d \o texts[n], d \o more[n])
    BY <1>5, <2>1, ConcatPrefix
  <2>4. QED
    BY <1>2, <1>3, <1>5, <2>1, <2>2, <2>3
<1>8. QED
  <2>1. /\ Len(p) <= Len(q)
        /\ \A i \in 1 .. (Len(p) - 1) : p[i] = q[i]
        /\ Len(p) # 0 => IsPrefix(p[Len(p)], q[Len(p)])
    BY <1>1, <1>2, <1>3, <1>6, <1>7
  <2>2. p \in Seq(Seq(S)) /\ q \in Seq(Seq(S))
    BY <1>2, <1>3
  <2>3. IsPrefix(FlattenSeq(p), FlattenSeq(q))
    BY <2>1, <2>2, FlattenGrows
  <2>4. QED
    BY <1>2, <1>3, <2>3

-----------------------------------------------------------------------------
(***************************************************************************)
(* The id of a context, in the steps computeId takes.                      *)
(***************************************************************************)
Clean(p, v) == applyCase(normalize(v, p.regexReplaceChars), p.labelValueCase)

Cleaned(p)   == [i \in DOMAIN p.attributes |-> Clean(p, p.attributes[i])]
LabelMap(p)  == Spread([l \in Label |-> Clean(p, p[l])],
                       [attributes |-> Join(Cleaned(p), p.delimiter)])
LabelTexts(p) == [i \in DOMAIN p.labelOrder |-> Given(LabelMap(p), p.labelOrder[i], << >>)]
IdLabels(p)  == Without(LabelTexts(p), {<< >>})

LEMMA IdFullIs ==
  ASSUME NEW p
  PROVE  computeIdFull(p) = Join(IdLabels(p), p.delimiter)
BY DEF computeIdFull, IdLabels, LabelTexts, LabelMap, Cleaned, Clean

\* What the id is computed from, of the right types.
IdProps(p) ==
  /\ \A l \in Label : p[l] \in Seq(Atom)
  /\ p.attributes \in Seq(Seq(Atom))
  /\ p.delimiter \in Seq(Atom)
  /\ \E S : p.labelOrder \in Seq(S)
  /\ p.idLengthLimit \in Nat

LEMMA CleanTyped ==
  ASSUME NEW p, NEW v \in Seq(Atom)
  PROVE  Clean(p, v) \in Seq(Atom)
BY WithoutTyped, CaseTyped DEF Clean, normalize

LEMMA CleanedTyped ==
  ASSUME NEW p, IdProps(p)
  PROVE  /\ Cleaned(p) \in Seq(Seq(Atom)) /\ Len(Cleaned(p)) = Len(p.attributes)
         /\ \A i \in 1 .. Len(p.attributes) : Cleaned(p)[i] = Clean(p, p.attributes[i])
<1>1. \A i \in DOMAIN p.attributes : Clean(p, p.attributes[i]) \in Seq(Atom)
  BY CleanTyped DEF IdProps
<1>2. Len(p.attributes) \in Nat /\ DOMAIN p.attributes = 1 .. Len(p.attributes)
  BY DEF IdProps
<1>3. QED
  BY <1>1, <1>2 DEF Cleaned

LEMMA LabelMapIs ==
  ASSUME NEW p, IdProps(p)
  PROVE  /\ DOMAIN LabelMap(p) = Label \cup {"attributes"}
         /\ \A l \in Label : LabelMap(p)[l] = Clean(p, p[l])
         /\ LabelMap(p)["attributes"] = Join(Cleaned(p), p.delimiter)
         /\ \A l : Given(LabelMap(p), l, << >>) \in Seq(Atom)
<1> DEFINE ls == [l \in Label |-> Clean(p, p[l])]
           as == [attributes |-> Join(Cleaned(p), p.delimiter)]
<1>1. /\ DOMAIN ls = Label /\ \A l \in Label : ls[l] = Clean(p, p[l])
      /\ DOMAIN as = {"attributes"} /\ as["attributes"] = Join(Cleaned(p), p.delimiter)
  OBVIOUS
<1>2. LabelMap(p) = Spread(ls, as)
  BY DEF LabelMap
<1>3. "attributes" \notin Label
  BY FieldsDisjoint
<1> HIDE DEF ls, as
<1>4. /\ DOMAIN LabelMap(p) = Label \cup {"attributes"}
      /\ \A l \in Label : LabelMap(p)[l] = Clean(p, p[l])
      /\ LabelMap(p)["attributes"] = Join(Cleaned(p), p.delimiter)
  BY <1>1, <1>2, <1>3 DEF Spread
<1>5. \A l \in Label : Clean(p, p[l]) \in Seq(Atom)
  BY CleanTyped DEF IdProps
<1>6. Join(Cleaned(p), p.delimiter) \in Seq(Atom)
  BY CleanedTyped, JoinTyped DEF IdProps
<1>7. << >> \in Seq(Atom)
  OBVIOUS
<1>8. \A l : Given(LabelMap(p), l, << >>) \in Seq(Atom)
  BY <1>4, <1>5, <1>6, <1>7 DEF Given
<1>9. QED
  BY <1>4, <1>8

LEMMA IdLabelsTyped ==
  ASSUME NEW p, IdProps(p)
  PROVE  /\ LabelTexts(p) \in Seq(Seq(Atom)) /\ Len(LabelTexts(p)) = Len(p.labelOrder)
         /\ \A i \in 1 .. Len(p.labelOrder) :
              LabelTexts(p)[i] = Given(LabelMap(p), p.labelOrder[i], << >>)
         /\ IdLabels(p) \in Seq(Seq(Atom))
<1>1. Len(p.labelOrder) \in Nat /\ DOMAIN p.labelOrder = 1 .. Len(p.labelOrder)
  BY DEF IdProps
<1>2. \A i \in 1 .. Len(p.labelOrder) : Given(LabelMap(p), p.labelOrder[i], << >>) \in Seq(Atom)
  BY LabelMapIs
<1>3. /\ LabelTexts(p) \in Seq(Seq(Atom)) /\ Len(LabelTexts(p)) = Len(p.labelOrder)
      /\ \A i \in 1 .. Len(p.labelOrder) :
           LabelTexts(p)[i] = Given(LabelMap(p), p.labelOrder[i], << >>)
  BY <1>1, <1>2 DEF LabelTexts
<1>4. IdLabels(p) \in Seq(Seq(Atom))
  BY <1>3, WithoutTyped DEF IdLabels
<1>5. QED
  BY <1>3, <1>4

(* A full id is a text over the characters there are.                      *)
LEMMA IdFullTyped ==
  ASSUME NEW p, IdProps(p)
  PROVE  computeIdFull(p) \in Seq(Atom)
<1>1. p.delimiter \in Seq(Atom)
  BY DEF IdProps
<1>2. QED
  BY <1>1, IdFullIs, IdLabelsTyped, JoinTyped

-----------------------------------------------------------------------------
(***************************************************************************)
(* Cutting to the limit.                                                   *)
(***************************************************************************)
\* The characters ids are made of.
IdAtom == Atom \cup {HexDigit(s, i) : s \in Seq(Atom), i \in 1 .. 5}

\* What a cut text ends in.
CutSuffix(s) == <<Dash>> \o md5(s)

LEMMA SuffixTyped ==
  ASSUME NEW s \in Seq(Atom)
  PROVE  CutSuffix(s) \in Seq(IdAtom) /\ md5(s) \in Seq(IdAtom) /\ Len(CutSuffix(s)) = 6
<1>1. \A i \in 1 .. 5 : HexDigit(s, i) \in IdAtom
  BY DEF IdAtom
<1>2. md5(s) \in Seq(IdAtom) /\ Len(md5(s)) = 5
  BY <1>1 DEF md5
<1>3. <<Dash>> \in Seq(IdAtom) /\ Len(<<Dash>>) = 1
  BY AtomAssumption DEF IdAtom
<1> DEFINE d == <<Dash>>
           h == md5(s)
<1>4. d \in Seq(IdAtom) /\ h \in Seq(IdAtom) /\ Len(d) = 1 /\ Len(h) = 5
  BY <1>2, <1>3
<1> HIDE DEF d, h
<1>5. d \o h \in Seq(IdAtom) /\ Len(d \o h) = 6
  <2>1. d \o h \in Seq(IdAtom) /\ Len(d \o h) = Len(d) + Len(h)
    BY <1>4, ConcatProperties
  <2>2. QED
    BY <1>4, <2>1
<1>6. QED
  BY <1>4, <1>5 DEF CutSuffix, d, h

(* Two texts with one suffix have one hash.                                *)
LEMMA SameSuffix ==
  ASSUME NEW s \in Seq(Atom), NEW t \in Seq(Atom), CutSuffix(s) = CutSuffix(t)
  PROVE  md5(s) = md5(t)
<1> DEFINE h == md5(s)
           k == md5(t)
<1>1. h \in Seq(IdAtom) /\ k \in Seq(IdAtom) /\ <<Dash>> \o h = <<Dash>> \o k
  BY SuffixTyped DEF CutSuffix
<1>2. Dash \in IdAtom
  BY AtomAssumption DEF IdAtom
<1> HIDE DEF h, k
<1>3. Len(h) = Len(k) /\ Len(h) \in Nat
  BY <1>1, <1>2
<1>4. ASSUME NEW i \in 1 .. Len(h) PROVE h[i] = k[i]
  <2>1. (<<Dash>> \o h)[i + 1] = h[i] /\ (<<Dash>> \o k)[i + 1] = k[i]
    BY <1>1, <1>2, <1>3
  <2>2. QED
    BY <1>1, <2>1
<1>5. h = k
  BY <1>1, <1>3, <1>4
<1>6. QED
  BY <1>5 DEF h, k

(* What is left of a text at a limit, and what it ends in when cut.        *)
LEMMA CutText ==
  ASSUME NEW s \in Seq(Atom), NEW limit \in Nat
  PROVE  IF limit = 0 \/ Len(s) <= limit
         THEN applyLengthLimit(s, limit) = s
         ELSE /\ applyLengthLimit(s, limit) \in Seq(IdAtom)
              /\ limit >= 6 => Len(applyLengthLimit(s, limit)) = limit
              /\ IsSuffix(CutSuffix(s), applyLengthLimit(s, limit))
<1>1. CASE limit = 0 \/ Len(s) <= limit
  BY <1>1 DEF applyLengthLimit
<1>2. CASE ~ (limit = 0 \/ Len(s) <= limit)
  <2> DEFINE head == SliceTo(s, limit - 6)
             tail == md5(s)
             end  == <<Dash>> \o tail
  <2>1. Len(s) \in Nat /\ limit < Len(s)
    BY <1>2
  <2>2. head \in Seq(Atom) /\ (limit >= 6 => Len(head) = limit - 6)
    <3> DEFINE n   == limit - 6
               stop == IF n < 0 THEN Len(s) + n ELSE n
               to  == IF stop < 0 THEN 0 ELSE IF stop > Len(s) THEN Len(s) ELSE stop
    <3>1. n \in Int /\ stop \in Int /\ to \in 0 .. Len(s) /\ (limit >= 6 => to = limit - 6)
      BY <2>1
    <3>2. head = SubSeq(s, 1, to)
      BY DEF SliceTo
    <3> HIDE DEF n, stop, to, head
    <3>3. \A i \in 1 .. to : s[i] \in Atom
      BY <3>1
    <3>4. /\ SubSeq(s, 1, to) \in Seq(Atom)
          /\ Len(SubSeq(s, 1, to)) = IF 1 <= to THEN to - 1 + 1 ELSE 0
      BY <3>1, <3>3, SubSeqProperties
    <3>5. QED
      BY <3>1, <3>2, <3>4
  <2>3. applyLengthLimit(s, limit) = (head \o <<Dash>>) \o tail
    <3>1. applyLengthLimit(s, limit) = head \o <<Dash>> \o tail
      BY <1>2 DEF applyLengthLimit
    <3>2. QED
      BY <3>1
  <2>4. end \in Seq(IdAtom) /\ tail \in Seq(IdAtom) /\ Len(end) = 6 /\ end = CutSuffix(s)
    BY SuffixTyped DEF CutSuffix
  <2> HIDE DEF head, tail
  <2>5. <<Dash>> \in Seq(IdAtom) /\ head \in Seq(IdAtom)
    <3>1. Dash \in IdAtom /\ Atom \subseteq IdAtom
      BY AtomAssumption DEF IdAtom
    <3>2. QED
      BY <2>2, <3>1
  <2>6. (head \o <<Dash>>) \o tail = head \o end
    BY <2>4, <2>5, ConcatAssociative
  <2> HIDE DEF end
  <2>7. head \o end \in Seq(IdAtom) /\ Len(head \o end) = Len(head) + 6 /\ IsSuffix(end, head \o end)
    <3>1. head \o end \in Seq(IdAtom) /\ Len(head \o end) = Len(head) + Len(end)
      BY <2>4, <2>5, ConcatProperties
    <3>2. IsSuffix(end, head \o end)
      BY <2>4, <2>5, SuffixOfConcat
    <3>3. QED
      BY <2>4, <3>1, <3>2
  <2>8. limit >= 6 => Len(head) + 6 = limit
    BY <2>2
  <2>9. QED
    BY <1>2, <2>3, <2>4, <2>6, <2>7, <2>8
<1>3. QED
  BY <1>1, <1>2

-----------------------------------------------------------------------------
\* The fields an id is computed from.
IdField == Label \cup {"attributes", "delimiter", "labelOrder", "labelValueCase", "regexReplaceChars"}

LEMMA SameId ==
  ASSUME NEW p, NEW q, \A f \in IdField : p[f] = q[f]
  PROVE  computeIdFull(p) = computeIdFull(q)
<1>1. /\ p.attributes = q.attributes /\ p.delimiter = q.delimiter /\ p.labelOrder = q.labelOrder
      /\ p.labelValueCase = q.labelValueCase /\ p.regexReplaceChars = q.regexReplaceChars
      /\ \A l \in Label : p[l] = q[l]
  BY DEF IdField
<1>2. \A v : Clean(p, v) = Clean(q, v)
  BY <1>1 DEF Clean
<1>3. Cleaned(p) = Cleaned(q)
  BY <1>1, <1>2 DEF Cleaned
<1>4. LabelMap(p) = LabelMap(q)
  <2>1. [l \in Label |-> Clean(p, p[l])] = [l \in Label |-> Clean(q, q[l])]
    BY <1>1, <1>2
  <2>2. QED
    BY <1>1, <1>3, <2>1 DEF LabelMap
<1>5. LabelTexts(p) = LabelTexts(q)
  BY <1>1, <1>4 DEF LabelTexts
<1>6. QED
  BY <1>1, <1>5, IdFullIs DEF IdLabels

(***************************************************************************)
(* A context whose id is the one of its own fields.                        *)
(***************************************************************************)
IdComputed(c) ==
  /\ c.idFull = computeIdFull(c)
  /\ c.id = applyLengthLimit(c.idFull, c.idLengthLimit)

(* makeContext computes the id last, from the fields as they end up.       *)
LEMMA MakeIds ==
  ASSUME NEW props, DOMAIN props \subseteq Field
  PROVE  IdComputed(makeContext(props))
<1> DEFINE normalized == Spread(CONTEXT_DEFAULTS, props)
           idFull     == computeIdFull(normalized)
           id         == applyLengthLimit(idFull, normalized.idLengthLimit)
           outputs    == [id |-> id, idFull |-> idFull, tags |-> computeTags(normalized, id)]
           c          == makeContext(props)
<1>1. c = Spread(normalized, outputs)
  BY DEF makeContext
<1>2. DOMAIN outputs = {"id", "idFull", "tags"} /\ outputs.id = id /\ outputs.idFull = idFull
  OBVIOUS
<1>3. DOMAIN normalized = Field
  BY DefaultFields DEF Spread
<1>4. IdField \subseteq Field \ {"tags", "id", "idFull"}
  BY FieldsDisjoint DEF IdField, Field, ReplacedField
<1>5. "idLengthLimit" \in Field \ {"tags", "id", "idFull"}
  BY DEF Field, ReplacedField
<1> HIDE DEF normalized, outputs, c, id, idFull
<1>6. /\ \A f \in Field \ {"tags", "id", "idFull"} : c[f] = normalized[f]
      /\ c.id = id /\ c.idFull = idFull
  BY <1>1, <1>2, <1>3 DEF Spread
<1>7. computeIdFull(c) = computeIdFull(normalized)
  BY <1>4, <1>6, SameId
<1>8. c.idLengthLimit = normalized.idLengthLimit
  BY <1>5, <1>6
<1>9. QED
  BY <1>6, <1>7, <1>8 DEF IdComputed, c, id, idFull

LEMMA ExtendIds ==
  ASSUME NEW base, NEW o
  PROVE  IdComputed(extendContext(base, o))
<1>1. DOMAIN mergeOverrides(base, o) \subseteq Field
  <2> DEFINE front == Spread([f \in ReplacedField |-> Given(o, f, base[f])],
                             [l \in Label |-> IF Given(o, l, << >>) # << >> THEN o[l] ELSE base[l]])
             merged == [enabled    |-> base.enabled /\ Given(o, "enabled", TRUE),
                        attributes |-> base.attributes \o Given(o, "attributes", << >>),
                        tags       |-> Spread(base.tags, Given(o, "tags", EmptyMap)),
                        additionalTagMap |->
                          Spread(base.additionalTagMap, Given(o, "additionalTagMap", EmptyMap))]
  <2>1. mergeOverrides(base, o) = Spread(front, merged)
    BY DEF mergeOverrides
  <2>2. DOMAIN front = ReplacedField \cup Label
    BY DEF Spread
  <2>3. DOMAIN merged = {"enabled", "attributes", "tags", "additionalTagMap"}
    OBVIOUS
  <2> HIDE DEF front, merged
  <2>4. QED
    BY <2>1, <2>2, <2>3 DEF Spread, Field
<1>2. QED
  BY <1>1, MakeIds DEF extendContext

LEMMA DefaultOptions ==
  /\ CONTEXT_DEFAULTS.delimiter \in Seq(Atom)
  /\ \E S : CONTEXT_DEFAULTS.labelOrder \in Seq(S)
  /\ CONTEXT_DEFAULTS.idLengthLimit \in Nat
<1>1. /\ {"delimiter", "labelOrder", "idLengthLimit"} \subseteq DOMAIN OptionDefaults
      /\ OptionDefaults.delimiter = <<Dash>>
      /\ OptionDefaults.labelOrder = <<"namespace", "environment", "stage", "name", "attributes">>
      /\ OptionDefaults.idLengthLimit = 0
  BY DEF OptionDefaults
<1>2. \A f \in DOMAIN OptionDefaults : CONTEXT_DEFAULTS[f] = OptionDefaults[f]
  BY DEF CONTEXT_DEFAULTS, Spread
<1>3. <<Dash>> \in Seq(Atom)
  BY AtomAssumption
<1>4. <<"namespace", "environment", "stage", "name", "attributes">>
        \in Seq({"namespace", "environment", "stage", "name", "attributes"})
  OBVIOUS
<1>5. /\ CONTEXT_DEFAULTS.delimiter = <<Dash>> /\ CONTEXT_DEFAULTS.idLengthLimit = 0
      /\ CONTEXT_DEFAULTS.labelOrder = <<"namespace", "environment", "stage", "name", "attributes">>
  BY <1>1, <1>2
<1>6. \E S : CONTEXT_DEFAULTS.labelOrder \in Seq(S)
  <2> WITNESS {"namespace", "environment", "stage", "name", "attributes"}
  <2>1. QED
    BY <1>4, <1>5
<1>7. QED
  BY <1>3, <1>5, <1>6

LEMMA MakeIdProps ==
  ASSUME NEW props \in RootArgs
  PROVE  IdProps(makeContext(props))
<1> DEFINE c == makeContext(props)
<1>1. DOMAIN props \subseteq Field /\ PropsOK(props)
  BY ArgsTyped
<1>2. \A f \in Field \ {"tags"} : c[f] = IF f \in DOMAIN props THEN props[f] ELSE CONTEXT_DEFAULTS[f]
  BY <1>1, MakeFields
<1>3. ContextOK(c)
  BY MakeTyped
<1>4. {"delimiter", "labelOrder", "idLengthLimit"} \subseteq Field \ {"tags"}
  BY DEF Field, ReplacedField
<1> HIDE DEF c
<1>5. c.delimiter \in Seq(Atom) /\ (\E S : c.labelOrder \in Seq(S)) /\ c.idLengthLimit \in Nat
  BY <1>1, <1>2, <1>4, DefaultOptions DEF PropsOK
<1>6. QED
  BY <1>3, <1>5 DEF IdProps, ContextOK, c

LEMMA ExtendIdProps ==
  ASSUME NEW base, ContextOK(base), IdProps(base), NEW o \in Overrides
  PROVE  IdProps(extendContext(base, o))
<1> DEFINE c == extendContext(base, o)
<1>1. DOMAIN o \subseteq Field /\ PropsOK(o)
  BY ArgsTyped
<1>2. DOMAIN base = Field \cup {"id", "idFull"}
  BY DEF ContextOK
<1>3. \A f \in ReplacedField : c[f] = IF f \in DOMAIN o THEN o[f] ELSE base[f]
  BY <1>1, <1>2, ExtendReplaced
<1>4. ContextOK(c)
  BY ExtendKeeps
<1>5. {"delimiter", "labelOrder", "idLengthLimit"} \subseteq ReplacedField
  BY DEF ReplacedField
<1> HIDE DEF c
<1>6. c.delimiter \in Seq(Atom) /\ (\E S : c.labelOrder \in Seq(S)) /\ c.idLengthLimit \in Nat
  BY <1>1, <1>3, <1>5 DEF PropsOK, IdProps
<1>7. QED
  BY <1>4, <1>6 DEF IdProps, ContextOK, c

-----------------------------------------------------------------------------
(***************************************************************************)
(* The invariants the theorems about ids rest on: the id of every context  *)
(* is that of its fields as they are, and a context with ancestors is what *)
(* extendContext made of the last of them.                                 *)
(***************************************************************************)
IdsComputed == \A i \in Node : IdProps(Ctx(i)) /\ IdComputed(Ctx(i))

IsExtension(ns, i) ==
  ns[i].up # {} => ns[i].ctx = extendContext(ns[LastOf(ns[i].up)].ctx, ns[i].args)
Extensions == \A i \in Node : IsExtension(nodes, i)

LEMMA IdsAreComputed == Spec => []IdsComputed
<1>1. Init => IdsComputed
  BY DEF Init, IdsComputed, Node
<1>2. TypeOK /\ IdsComputed /\ [Next]_vars => IdsComputed'
  <2>1. SUFFICES ASSUME TypeOK, IdsComputed, Next PROVE IdsComputed'
    BY DEF vars, IdsComputed, Node, Ctx
  <2> DEFINE n == Len(nodes)
  <2>2. /\ DOMAIN nodes = 1 .. n /\ n \in Nat /\ DOMAIN nodes' = 1 .. (n + 1)
        /\ \A i \in 1 .. n : nodes'[i] = nodes[i]
    BY <2>1, StepAppends
  <2>3. \A i \in 1 .. n : /\ ContextOK(nodes[i].ctx)
                          /\ IdProps(nodes[i].ctx) /\ IdComputed(nodes[i].ctx)
    BY <2>1, <2>2 DEF TypeOK, IdsComputed, Node, Ctx, ContextOK
  <2>4. ASSUME NEW props \in RootArgs,
               nodes'[n + 1] = [up |-> {}, args |-> props, ctx |-> makeContext(props)]
        PROVE  IdProps(nodes'[n + 1].ctx) /\ IdComputed(nodes'[n + 1].ctx)
    <3>1. nodes'[n + 1].ctx = makeContext(props)
      BY <2>4
    <3>2. IdProps(makeContext(props)) /\ IdComputed(makeContext(props))
      BY ArgsTyped, MakeIdProps, MakeIds
    <3>3. QED
      BY <3>1, <3>2
  <2>5. ASSUME NEW i \in 1 .. n, NEW o \in Overrides,
               nodes'[n + 1] = [up |-> nodes[i].up \cup {i}, args |-> o,
                                ctx |-> extendContext(nodes[i].ctx, o)]
        PROVE  IdProps(nodes'[n + 1].ctx) /\ IdComputed(nodes'[n + 1].ctx)
    <3>1. nodes'[n + 1].ctx = extendContext(nodes[i].ctx, o)
      BY <2>5
    <3>2. /\ IdProps(extendContext(nodes[i].ctx, o))
          /\ IdComputed(extendContext(nodes[i].ctx, o))
      BY <2>3, ExtendIdProps, ExtendIds
    <3>3. QED
      BY <3>1, <3>2
  <2>6. IdProps(nodes'[n + 1].ctx) /\ IdComputed(nodes'[n + 1].ctx)
    <3>1. \/ \E props \in RootArgs :
               nodes'[n + 1] = [up |-> {}, args |-> props, ctx |-> makeContext(props)]
          \/ \E i \in 1 .. n, o \in Overrides :
               nodes'[n + 1] = [up |-> nodes[i].up \cup {i}, args |-> o,
                                ctx |-> extendContext(nodes[i].ctx, o)]
      BY <2>1, StepAppends
    <3>2. QED
      BY <2>4, <2>5, <3>1
  <2>7. \A i \in 1 .. (n + 1) : i \in 1 .. n \/ i = n + 1
    BY <2>2
  <2> HIDE DEF n
  <2>8. \A i \in 1 .. (n + 1) : IdProps(nodes'[i].ctx) /\ IdComputed(nodes'[i].ctx)
    BY <2>2, <2>3, <2>6, <2>7
  <2>9. QED
    BY <2>2, <2>8 DEF IdsComputed, Node, Ctx
<1>3. QED
  BY <1>1, <1>2, TypeCorrect, PTL DEF Spec

LEMMA ExtensionsOfTheirBase == Spec => []Extensions
<1>1. Init => Extensions
  BY DEF Init, Extensions, Node
<1>2. TypeOK /\ Extensions /\ [Next]_vars => Extensions'
  <2>1. SUFFICES ASSUME TypeOK, Extensions, Next PROVE Extensions'
    BY DEF vars, Extensions, Node
  <2>2. PICK n \in Nat :
          /\ DOMAIN nodes = 1 .. n /\ DOMAIN nodes' = 1 .. (n + 1)
          /\ \A j \in 1 .. n : /\ nodes'[j] = nodes[j] /\ nodes[j].up \subseteq 1 .. (j - 1)
                               /\ DOMAIN nodes[j].ctx = Field \cup {"id", "idFull"}
          /\ \/ \E props : /\ DOMAIN props \subseteq Field
                           /\ nodes'[n + 1].up = {} /\ nodes'[n + 1].args = props
                           /\ nodes'[n + 1].ctx = makeContext(props)
             \/ \E i \in 1 .. n : \E o : /\ DOMAIN o \subseteq Field
                                         /\ Extends(nodes, nodes', n, i, o)
                                         /\ nodes'[n + 1].ctx = extendContext(nodes[i].ctx, o)
    BY <2>1, StepAdds
  <2>3. ASSUME NEW i \in 1 .. n PROVE IsExtension(nodes', i)
    <3>1. nodes'[i] = nodes[i] /\ nodes[i].up \subseteq 1 .. n /\ IsExtension(nodes, i)
      BY <2>1, <2>2 DEF Extensions, Node
    <3>2. nodes[i].up # {} => LastOf(nodes[i].up) \in 1 .. n
      BY <3>1, LastIsMember
    <3>3. QED
      BY <2>2, <3>1, <3>2 DEF IsExtension
  <2>4. IsExtension(nodes', n + 1)
    <3>1. CASE nodes'[n + 1].up = {}
      BY <3>1 DEF IsExtension
    <3>2. ASSUME NEW i \in 1 .. n, NEW o,
                 Extends(nodes, nodes', n, i, o),
                 nodes'[n + 1].ctx = extendContext(nodes[i].ctx, o)
          PROVE  IsExtension(nodes', n + 1)
      <4>1. /\ nodes[i].up \in SUBSET (1 .. (i - 1)) /\ i \in Nat /\ nodes'[i] = nodes[i]
            /\ nodes'[n + 1].up = nodes[i].up \cup {i} /\ nodes'[n + 1].args = o
        BY <3>2 DEF Extends
      <4>2. LastOf(nodes'[n + 1].up) = i
        BY <4>1, LastIsNewest
      <4>3. QED
        BY <3>2, <4>1, <4>2 DEF IsExtension
    <3>3. QED
      BY <2>2, <3>1, <3>2
  <2>5. \A i \in 1 .. (n + 1) : i \in 1 .. n \/ i = n + 1
    OBVIOUS
  <2>6. QED
    BY <2>2, <2>3, <2>4, <2>5 DEF Extensions, Node
<1>3. QED
  BY <1>1, <1>2, TypeCorrect, PTL DEF Spec

(***************************************************************************)
(* However a context came about, its id is no longer than its limit, if    *)
(* that leaves room for the suffix (context-fns.ts:28-33).                 *)
(***************************************************************************)
THEOREM IdsAreWithinLimit == Spec => []IdWithinLimit
<1>1. IdsComputed => IdWithinLimit
  <2>1. SUFFICES ASSUME IdsComputed, NEW i \in Node, Ctx(i).idLengthLimit >= 6
                 PROVE  Len(Ctx(i).id) <= Ctx(i).idLengthLimit
    BY DEF IdWithinLimit
  <2> DEFINE c == Ctx(i)
  <2>2. IdProps(c) /\ c.idFull = computeIdFull(c) /\ c.id = applyLengthLimit(c.idFull, c.idLengthLimit)
    BY <2>1 DEF IdsComputed, IdComputed
  <2>3. c.idFull \in Seq(Atom) /\ c.idLengthLimit \in Nat
    BY <2>2, IdFullTyped DEF IdProps
  <2> HIDE DEF c
  <2>4. CASE c.idLengthLimit = 0 \/ Len(c.idFull) <= c.idLengthLimit
    <3>1. c.id = c.idFull
      BY <2>2, <2>3, <2>4, CutText
    <3>2. QED
      BY <2>1, <2>3, <2>4, <3>1 DEF c
  <2>5. CASE ~ (c.idLengthLimit = 0 \/ Len(c.idFull) <= c.idLengthLimit)
    <3>1. IF c.idLengthLimit = 0 \/ Len(c.idFull) <= c.idLengthLimit
          THEN c.id = c.idFull
          ELSE c.idLengthLimit >= 6 => Len(c.id) = c.idLengthLimit
      <4> DEFINE s == c.idFull
                 limit == c.idLengthLimit
      <4>1. s \in Seq(Atom) /\ limit \in Nat /\ c.id = applyLengthLimit(s, limit)
        BY <2>2, <2>3
      <4> HIDE DEF s, limit
      <4>2. IF limit = 0 \/ Len(s) <= limit
            THEN applyLengthLimit(s, limit) = s
            ELSE limit >= 6 => Len(applyLengthLimit(s, limit)) = limit
        BY <4>1, CutText
      <4>3. QED
        BY <4>1, <4>2 DEF s, limit
    <3>2. QED
      BY <2>1, <2>3, <2>5, <3>1 DEF c
  <2>6. QED
    BY <2>4, <2>5
<1>2. QED
  BY <1>1, IdsAreComputed, PTL

(***************************************************************************)
(* Two contexts whose full ids differ have one id only where hashes meet,  *)
(* whatever the labels, the limits and the hash: both were cut and their   *)
(* hashes are the same five digits, or the full id of one, short enough to *)
(* be left alone, reads as the other cut off (context-fns.ts:26-33).       *)
(***************************************************************************)
THEOREM ApartUnlessHashesMeetAlways == Spec => []ApartUnlessHashesMeet
<1>1. IdsComputed => ApartUnlessHashesMeet
  <2>1. SUFFICES ASSUME IdsComputed, NEW i \in Node, NEW j \in Node,
                        Ctx(i).id = Ctx(j).id, Ctx(i).idFull # Ctx(j).idFull
                 PROVE  \/ md5(Ctx(i).idFull) = md5(Ctx(j).idFull)
                        \/ IsSuffix(CutSuffix(Ctx(i).idFull), Ctx(j).idFull)
                        \/ IsSuffix(CutSuffix(Ctx(j).idFull), Ctx(i).idFull)
    BY DEF ApartUnlessHashesMeet, Suffix, CutSuffix
  <2>2. ASSUME NEW k \in Node
        PROVE  /\ Ctx(k).idFull \in Seq(Atom)
               /\ \/ Ctx(k).id = Ctx(k).idFull
                  \/ Ctx(k).id \in Seq(IdAtom) /\ IsSuffix(CutSuffix(Ctx(k).idFull), Ctx(k).id)
    <3> DEFINE c == Ctx(k)
    <3>1. IdProps(c) /\ c.idFull = computeIdFull(c) /\ c.id = applyLengthLimit(c.idFull, c.idLengthLimit)
      BY <2>1 DEF IdsComputed, IdComputed
    <3>2. c.idFull \in Seq(Atom) /\ c.idLengthLimit \in Nat
      BY <3>1, IdFullTyped DEF IdProps
    <3> HIDE DEF c
    <3>3. IF c.idLengthLimit = 0 \/ Len(c.idFull) <= c.idLengthLimit
          THEN c.id = c.idFull
          ELSE c.id \in Seq(IdAtom) /\ IsSuffix(CutSuffix(c.idFull), c.id)
      BY <3>1, <3>2, CutText
    <3>4. QED
      BY <3>2, <3>3 DEF c
  <2> DEFINE s == Ctx(i).idFull
             t == Ctx(j).idFull
             u == Ctx(i).id
  <2>3. /\ s \in Seq(Atom) /\ t \in Seq(Atom) /\ s # t /\ u = Ctx(j).id
        /\ u = s \/ (u \in Seq(IdAtom) /\ IsSuffix(CutSuffix(s), u))
        /\ u = t \/ (u \in Seq(IdAtom) /\ IsSuffix(CutSuffix(t), u))
    BY <2>1, <2>2
  <2> HIDE DEF s, t, u
  <2>4. CASE u \in Seq(IdAtom) /\ IsSuffix(CutSuffix(s), u) /\ IsSuffix(CutSuffix(t), u)
    <3>1. /\ CutSuffix(s) \in Seq(IdAtom) /\ CutSuffix(t) \in Seq(IdAtom)
          /\ Len(CutSuffix(s)) = Len(CutSuffix(t))
      BY <2>3, SuffixTyped
    <3>2. CutSuffix(s) = CutSuffix(t)
      BY <2>4, <3>1, SuffixesAgree
    <3>3. md5(s) = md5(t)
      BY <2>3, <3>2, SameSuffix
    <3>4. QED
      BY <3>3 DEF s, t
  <2>5. CASE IsSuffix(CutSuffix(s), t) \/ IsSuffix(CutSuffix(t), s)
    BY <2>5 DEF s, t
  <2>6. QED
    BY <2>3, <2>4, <2>5
<1>2. QED
  BY <1>1, IdsAreComputed, PTL

-----------------------------------------------------------------------------
(***************************************************************************)
(* A child derived by attributes alone.                                    *)
(***************************************************************************)

\* c has the fields of b that ids are made of, but for more attributes.
GoesOn(b, c) ==
  /\ \A f \in IdField \ {"attributes"} : c[f] = b[f]
  /\ IsPrefix(b.attributes, c.attributes)

\* The attributes are the last label of the id, and no other one.
AttributesLast(order) ==
  /\ order # << >> /\ Last(order) = "attributes"
  /\ \A k \in 1 .. Len(order) - 1 : order[k] # "attributes"

(* The attributes of the child, joined, go on where those of the parent    *)
(* end.                                                                    *)
LEMMA AttributesGoOn ==
  ASSUME NEW b, NEW c, IdProps(b), IdProps(c), GoesOn(b, c)
  PROVE  /\ \A v : Clean(c, v) = Clean(b, v)
         /\ IsPrefix(Join(Cleaned(b), b.delimiter), Join(Cleaned(c), c.delimiter))
<1>1. /\ c.delimiter = b.delimiter /\ c.regexReplaceChars = b.regexReplaceChars
      /\ c.labelValueCase = b.labelValueCase
  BY FieldsDisjoint DEF GoesOn, IdField
<1>2. \A v : Clean(c, v) = Clean(b, v)
  BY <1>1 DEF Clean
<1>3. b.attributes \in Seq(Seq(Atom)) /\ c.attributes \in Seq(Seq(Atom)) /\ b.delimiter \in Seq(Atom)
  BY DEF IdProps
<1> DEFINE n == Len(b.attributes)
           m == Len(c.attributes)
           s == Cleaned(b)
           t == Cleaned(c)
<1>4. n \in Nat /\ m \in Nat /\ n <= m /\ \A i \in 1 .. n : b.attributes[i] = c.attributes[i]
  BY <1>3, PrefixElements DEF GoesOn
<1>5. /\ s \in Seq(Seq(Atom)) /\ Len(s) = n /\ \A i \in 1 .. n : s[i] = Clean(b, b.attributes[i])
  BY CleanedTyped
<1>6. /\ t \in Seq(Seq(Atom)) /\ Len(t) = m /\ \A i \in 1 .. m : t[i] = Clean(c, c.attributes[i])
  BY CleanedTyped
<1> HIDE DEF n, m, s, t
<1>7. ASSUME NEW i \in 1 .. n PROVE s[i] = t[i] /\ s[i] \in Seq(Atom)
  <2>1. i \in 1 .. m /\ b.attributes[i] = c.attributes[i]
    BY <1>4
  <2>2. s[i] = Clean(b, b.attributes[i]) /\ t[i] = Clean(c, c.attributes[i])
    BY <1>5, <1>6, <2>1
  <2>3. QED
    BY <1>2, <1>5, <2>1, <2>2
<1>8. \A x \in Seq(Atom) : IsPrefix(x, x)
  BY PrefixReflexive
<1>9. /\ Len(s) <= Len(t)
      /\ \A i \in 1 .. (Len(s) - 1) : s[i] = t[i]
      /\ Len(s) # 0 => IsPrefix(s[Len(s)], t[Len(s)])
  <2>1. n # 0 => n \in 1 .. n
    BY <1>4
  <2>2. n # 0 => s[n] \in Seq(Atom) /\ s[n] = t[n]
    BY <1>7, <2>1
  <2>3. \A i \in 1 .. (n - 1) : i \in 1 .. n
    BY <1>4
  <2>4. n # 0 => IsPrefix(s[n], t[n])
    BY <1>8, <2>2
  <2>5. QED
    BY <1>4, <1>5, <1>6, <1>7, <2>3, <2>4
<1>10. IsPrefix(Join(s, b.delimiter), Join(t, b.delimiter))
  BY <1>3, <1>5, <1>6, <1>9, JoinGrows
<1>11. QED
  BY <1>1, <1>2, <1>10 DEF s, t

(* And so does the whole id, when they come last in it.                    *)
LEMMA IdGoesOn ==
  ASSUME NEW b, NEW c, IdProps(b), IdProps(c), GoesOn(b, c), AttributesLast(b.labelOrder)
  PROVE  IsPrefix(computeIdFull(b), computeIdFull(c))
<1>1. c.delimiter = b.delimiter /\ c.labelOrder = b.labelOrder /\ \A l \in Label : c[l] = b[l]
  BY FieldsDisjoint DEF GoesOn, IdField
<1> DEFINE n == Len(b.labelOrder)
           s == LabelTexts(b)
           t == LabelTexts(c)
<1>2. n \in Nat /\ n # 0
  BY DEF IdProps, AttributesLast
<1>3. b.labelOrder[n] = "attributes" /\ \A k \in 1 .. (n - 1) : b.labelOrder[k] # "attributes"
  BY DEF AttributesLast, Last
<1>4. /\ s \in Seq(Seq(Atom)) /\ Len(s) = n
      /\ \A i \in 1 .. n : s[i] = Given(LabelMap(b), b.labelOrder[i], << >>)
  BY IdLabelsTyped
<1>5. /\ t \in Seq(Seq(Atom)) /\ Len(t) = n
      /\ \A i \in 1 .. n : t[i] = Given(LabelMap(c), b.labelOrder[i], << >>)
  BY <1>1, IdLabelsTyped
<1> HIDE DEF n, s, t
<1>6. n \in 1 .. n /\ (\A i \in 1 .. (n - 1) : i \in 1 .. n)
  BY <1>2
<1>7. \A v : Clean(c, v) = Clean(b, v)
  BY AttributesGoOn
<1>8. ASSUME NEW l, l # "attributes"
      PROVE  Given(LabelMap(b), l, << >>) = Given(LabelMap(c), l, << >>)
  <2>1. /\ DOMAIN LabelMap(b) = Label \cup {"attributes"}
        /\ \A k \in Label : LabelMap(b)[k] = Clean(b, b[k])
    BY LabelMapIs
  <2>2. /\ DOMAIN LabelMap(c) = Label \cup {"attributes"}
        /\ \A k \in Label : LabelMap(c)[k] = Clean(c, c[k])
    BY LabelMapIs
  <2>3. QED
    BY <1>1, <1>7, <1>8, <2>1, <2>2 DEF Given
<1>9. \A i \in 1 .. (n - 1) : s[i] = t[i]
  BY <1>3, <1>4, <1>5, <1>6, <1>8
<1>10. IsPrefix(s[n], t[n]) /\ s[n] \in Seq(Atom) /\ t[n] \in Seq(Atom)
  <2>1. /\ s[n] = Given(LabelMap(b), "attributes", << >>)
        /\ t[n] = Given(LabelMap(c), "attributes", << >>)
    BY <1>3, <1>4, <1>5, <1>6
  <2>2. /\ "attributes" \in DOMAIN LabelMap(b)
        /\ LabelMap(b)["attributes"] = Join(Cleaned(b), b.delimiter)
    BY LabelMapIs
  <2>3. /\ "attributes" \in DOMAIN LabelMap(c)
        /\ LabelMap(c)["attributes"] = Join(Cleaned(c), c.delimiter)
    BY LabelMapIs
  <2>4. IsPrefix(Join(Cleaned(b), b.delimiter), Join(Cleaned(c), c.delimiter))
    BY AttributesGoOn
  <2>5. s[n] = Join(Cleaned(b), b.delimiter) /\ t[n] = Join(Cleaned(c), c.delimiter)
    BY <2>1, <2>2, <2>3 DEF Given
  <2>6. QED
    BY <1>4, <1>5, <1>6, <2>4, <2>5
<1> DEFINE front == SubSeq(s, 1, n - 1)
           w == Without(front, {<< >>})
           tail(x) == IF x \in {<< >>} THEN << >> ELSE <<x>>
<1>11. /\ s # << >> /\ t # << >> /\ SubSeq(t, 1, n - 1) = front /\ front \in Seq(Seq(Atom))
  <2>1. s # << >> /\ t # << >>
    BY <1>2, <1>4, <1>5
  <2>2. /\ SubSeq(s, 1, n - 1) \in Seq(Seq(Atom)) /\ Len(SubSeq(s, 1, n - 1)) = n - 1
        /\ \A i \in 1 .. (n - 1) : SubSeq(s, 1, n - 1)[i] = s[i]
    BY <1>4, <2>1, FrontElements
  <2>3. /\ SubSeq(t, 1, n - 1) \in Seq(Seq(Atom)) /\ Len(SubSeq(t, 1, n - 1)) = n - 1
        /\ \A i \in 1 .. (n - 1) : SubSeq(t, 1, n - 1)[i] = t[i]
    BY <1>5, <2>1, FrontElements
  <2>4. SubSeq(t, 1, n - 1) = SubSeq(s, 1, n - 1)
    BY <1>2, <1>9, <2>2, <2>3
  <2>5. QED
    BY <2>1, <2>2, <2>4
<1>12. IdLabels(b) = w \o tail(s[n])
  BY <1>4, <1>11, WithoutLast DEF IdLabels, s
<1>13. IdLabels(c) = w \o tail(t[n])
  BY <1>5, <1>11, WithoutLast DEF IdLabels, t
<1>14. w \in Seq(Seq(Atom))
  BY <1>11, WithoutTyped
<1>15. b.delimiter \in Seq(Atom)
  BY DEF IdProps
<1> HIDE DEF front, w
<1> DEFINE x == s[n]
           y == t[n]
           m == Len(w)
           p == w \o tail(x)
           q == w \o tail(y)
<1>16. x \in Seq(Atom) /\ y \in Seq(Atom) /\ IsPrefix(x, y)
  BY <1>10
<1> HIDE DEF x, y
<1>17. x # << >> => y # << >>
  BY <1>16, PrefixElements
<1>18. tail(x) \in Seq(Seq(Atom)) /\ tail(y) \in Seq(Seq(Atom))
  BY <1>16
<1>19. /\ p \in Seq(Seq(Atom)) /\ q \in Seq(Seq(Atom)) /\ m \in Nat
       /\ Len(p) = m + Len(tail(x)) /\ Len(q) = m + Len(tail(y))
       /\ \A i \in 1 .. m : p[i] = w[i] /\ q[i] = w[i] /\ w[i] \in Seq(Atom)
       /\ x # << >> => Len(p) = m + 1 /\ Len(q) = m + 1 /\ p[m + 1] = x /\ q[m + 1] = y
       /\ x = << >> => Len(p) = m /\ m <= Len(q)
  BY <1>14, <1>16, <1>17, <1>18
<1> HIDE DEF p, q, m
<1>20. \A z \in Seq(Atom) : IsPrefix(z, z)
  BY PrefixReflexive
<1>21. /\ Len(p) <= Len(q)
       /\ \A i \in 1 .. (Len(p) - 1) : p[i] = q[i]
       /\ Len(p) # 0 => IsPrefix(p[Len(p)], q[Len(p)])
  <2>1. CASE x # << >>
    BY <1>16, <1>19, <2>1
  <2>2. CASE x = << >>
    <3>1. m # 0 => m \in 1 .. m
      BY <1>19
    <3>2. m # 0 => p[m] = q[m] /\ p[m] \in Seq(Atom)
      BY <1>19, <3>1
    <3>3. Len(p) = m /\ m <= Len(q) /\ m \in Nat
      BY <1>19, <2>2
    <3>4. \A i \in 1 .. (m - 1) : p[i] = q[i]
      BY <1>19
    <3>5. m # 0 => IsPrefix(p[m], q[m])
      BY <1>20, <3>2
    <3>6. QED
      BY <3>3, <3>4, <3>5
  <2>3. QED
    BY <2>1, <2>2
<1>22. IsPrefix(Join(p, b.delimiter), Join(q, b.delimiter))
  BY <1>15, <1>19, <1>21, JoinGrows
<1>23. computeIdFull(b) = Join(p, b.delimiter) /\ computeIdFull(c) = Join(q, b.delimiter)
  BY <1>1, <1>12, <1>13, IdFullIs DEF p, q, x, y
<1>24. QED
  BY <1>22, <1>23

(***************************************************************************)
(* The construct of a child context derived by attributes alone, a queue's *)
(* DLQ or a role or a log group, has a name that starts with its parent's, *)
(* whatever the labels, the delimiter and the parent's own attributes:     *)
(* also the empty ones, which computeId leaves out (context-fns.ts:63-83   *)
(* and 158).                                                               *)
(***************************************************************************)
THEOREM ChildAlwaysNamedAfterParent == Spec => []ChildNamedAfterParent
<1>1. TypeOK /\ IdsComputed /\ Extensions => ChildNamedAfterParent
  <2>1. SUFFICES ASSUME TypeOK, IdsComputed, Extensions,
                        NEW i \in Node, nodes[i].up # {}, DOMAIN nodes[i].args = {"attributes"},
                        AttributesLast(Ctx(LastOf(nodes[i].up)).labelOrder)
                 PROVE  IsPrefix(Ctx(LastOf(nodes[i].up)).idFull, Ctx(i).idFull)
    BY DEF ChildNamedAfterParent, AttributesLast
  <2> DEFINE j == LastOf(nodes[i].up)
             b == Ctx(j)
             c == Ctx(i)
             o == nodes[i].args
  <2>2. Len(nodes) \in Nat /\ Node = 1 .. Len(nodes)
    BY <2>1 DEF TypeOK, Node
  <2>3. nodes[i].up \in SUBSET (1 .. Len(nodes))
    BY <2>1, <2>2 DEF TypeOK
  <2>4. j \in Node
    BY <2>1, <2>2, <2>3, LastIsMember
  <2>5. ContextOK(b) /\ o \in RootArgs \cup Overrides
    BY <2>1, <2>4 DEF TypeOK, ContextOK
  <2>6. /\ IdProps(b) /\ b.idFull = computeIdFull(b)
        /\ IdProps(c) /\ c.idFull = computeIdFull(c)
    BY <2>1, <2>4 DEF IdsComputed, IdComputed
  <2>7. c = extendContext(b, o)
    BY <2>1 DEF Extensions, IsExtension, Ctx
  <2>8. DOMAIN o = {"attributes"} /\ AttributesLast(b.labelOrder)
    BY <2>1
  <2> HIDE DEF b, c, o
  <2>9. /\ DOMAIN b = Field \cup {"id", "idFull"} /\ DOMAIN o \subseteq Field
        /\ o.attributes \in Seq(Seq(Atom)) /\ b.attributes \in Seq(Seq(Atom))
    <3>1. DOMAIN o \subseteq Field /\ PropsOK(o)
      BY <2>5, ArgsTyped
    <3>2. QED
      BY <2>5, <2>8, <3>1 DEF ContextOK, PropsOK
  <2>10. /\ c.attributes = b.attributes \o Given(o, "attributes", << >>)
         /\ \A l \in Label : c[l] = IF Given(o, l, << >>) # << >> THEN o[l] ELSE b[l]
    BY <2>7, <2>9, ExtendFields
  <2>11. \A f \in ReplacedField : c[f] = IF f \in DOMAIN o THEN o[f] ELSE b[f]
    BY <2>7, <2>9, ExtendReplaced
  <2>12. IsPrefix(b.attributes, c.attributes)
    BY <2>8, <2>9, <2>10, PrefixOfConcat DEF Given
  <2>13. \A f \in Label \cup ReplacedField : f \notin DOMAIN o
    BY <2>8, FieldsDisjoint
  <2>14. \A f \in Label \cup ReplacedField : c[f] = b[f]
    BY <2>10, <2>11, <2>13 DEF Given
  <2>15. IdField \ {"attributes"} \subseteq Label \cup ReplacedField
    BY DEF IdField, ReplacedField
  <2>16. GoesOn(b, c)
    BY <2>12, <2>14, <2>15 DEF GoesOn
  <2>17. IsPrefix(computeIdFull(b), computeIdFull(c))
    BY <2>6, <2>8, <2>16, IdGoesOn
  <2>18. QED
    BY <2>6, <2>17 DEF b, c
<1>2. QED
  BY <1>1, TypeCorrect, IdsAreComputed, ExtensionsOfTheirBase, PTL
=============================================================================
