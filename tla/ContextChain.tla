---------------------------- MODULE ContextChain ----------------------------
(***************************************************************************)
(* The life of the contexts of one CDK app: roots are made with            *)
(* makeContext, or read from cdk.json by the bridge, and any context made  *)
(* so far may be extended, by the app or by a construct that derives the   *)
(* names of its children, any number of times and in any order.  Contexts  *)
(* are immutable values; what a node keeps besides its context is the      *)
(* history the properties refer to.                                        *)
(***************************************************************************)
EXTENDS BridgeFns, FiniteSets

CONSTANTS
  RootProps,   \* the ContextProps given to makeContext
  Configs,     \* the values of cdk.json given to the bridge
  Overrides,   \* the ContextProps given to extendContext
  MaxNodes     \* bound: how many contexts one app makes

PropsOK(p) ==
  /\ \A l \in Label \cap DOMAIN p : p[l] \in Seq(Atom)
  /\ "enabled" \in DOMAIN p => p.enabled \in BOOLEAN
  /\ "attributes" \in DOMAIN p => p.attributes \in Seq(Seq(Atom))
  /\ "idLengthLimit" \in DOMAIN p => p.idLengthLimit \in Nat
  /\ "delimiter" \in DOMAIN p => p.delimiter \in Seq(Atom)
  /\ "labelOrder" \in DOMAIN p => p.labelOrder \in Seq(STRING)
  /\ "labelsAsTags" \in DOMAIN p => p.labelsAsTags \in Seq(STRING)

ASSUME ChainAssumption ==
  /\ MaxNodes \in Nat
  /\ \A p \in RootProps \cup Overrides : DOMAIN p \subseteq Field /\ PropsOK(p)
  /\ \A values \in Configs : PropsOK(values)

VARIABLE
  nodes        \* sequence of [up, args, ctx]: the contexts in creation order
               \*   up   indices of the strict ancestors
               \*   args the ContextProps the context was made or extended with
               \*   ctx  the Context

vars == <<nodes>>

-----------------------------------------------------------------------------
Init == nodes = << >>

Make(props) ==
  /\ Len(nodes) < MaxNodes
  /\ nodes' = Append(nodes, [up |-> {}, args |-> props, ctx |-> makeContext(props)])

\* bridgeContext; without the required keys it throws, and no context is made.
Bridge(values) == HasRequiredKeys(values) /\ Make(bridgedProps(values))

Extend(i, overrides) ==
  /\ Len(nodes) < MaxNodes
  /\ nodes' = Append(nodes, [up   |-> nodes[i].up \cup {i},
                             args |-> overrides,
                             ctx  |-> extendContext(nodes[i].ctx, overrides)])

Next ==
  \/ \E props \in RootProps : Make(props)
  \/ \E values \in Configs : Bridge(values)
  \/ \E i \in DOMAIN nodes, overrides \in Overrides : Extend(i, overrides)

Spec == Init /\ [][Next]_vars

-----------------------------------------------------------------------------
Node    == DOMAIN nodes
Ctx(i)  == nodes[i].ctx
Path(i) == nodes[i].up \cup {i}          \* from the root to i, in creation order

\* The contexts of i's path whose arguments give field f; the last of them.
GivenOn(i, f) == {j \in Path(i) : f \in DOMAIN nodes[j].args}
LastOf(S)     == CHOOSE j \in S : \A k \in S : k <= j

\* What the roots of an app are made from.
RootArgs == RootProps \cup {bridgedProps(values) : values \in Configs}

TypeOK ==
  /\ nodes \in Seq(ToSet(nodes))
  /\ Len(nodes) <= MaxNodes
  /\ \A i \in Node :
       /\ DOMAIN nodes[i] = {"up", "args", "ctx"}
       /\ nodes[i].up \subseteq 1 .. (i - 1)
       /\ nodes[i].args \in RootArgs \cup Overrides
       /\ DOMAIN Ctx(i) = Field \cup {"id", "idFull"}
       /\ Ctx(i).enabled \in BOOLEAN
       /\ Ctx(i).attributes \in Seq(Seq(Atom))
       /\ \A l \in Label : Ctx(i)[l] \in Seq(Atom)

(***************************************************************************)
(* enabled is false exactly when some context on the path was given false: *)
(* no later override can re-enable a disabled branch, and nothing else     *)
(* disables one (context-fns.ts:157).                                      *)
(***************************************************************************)
EnabledIsSticky ==
  \A i \in Node :
    Ctx(i).enabled <=> \A j \in GivenOn(i, "enabled") : nodes[j].args.enabled

(***************************************************************************)
(* What a descendant keeps of every ancestor, however many steps lie       *)
(* between: it is enabled only if the ancestor is, its attributes extend   *)
(* the ancestor's, and no label the ancestor had becomes empty             *)
(* (context-fns.ts:150-159).                                               *)
(***************************************************************************)
Keeps(ctx, anc) ==
  /\ ctx.enabled => anc.enabled
  /\ IsPrefix(anc.attributes, ctx.attributes)
  /\ \A l \in Label : anc[l] # << >> => ctx[l] # << >>

DescendantsKeep == \A i \in Node : \A j \in nodes[i].up : Keeps(Ctx(i), Ctx(j))

(***************************************************************************)
(* Every label is the last non-empty value given on the path, and every    *)
(* replaced option the last one given: a chain of extensions has the same  *)
(* fields as one extension with the merged overrides                       *)
(* (context-fns.ts:149-171).                                               *)
(***************************************************************************)
FieldsAreLastGiven ==
  \A i \in Node :
    /\ \A l \in Label :
         LET set == {j \in GivenOn(i, l) : nodes[j].args[l] # << >>}
         IN  Ctx(i)[l] = IF set = {} THEN << >> ELSE nodes[LastOf(set)].args[l]
    /\ \A f \in ReplacedField :
         LET set == GivenOn(i, f)
         IN  Ctx(i)[f] = IF set = {} THEN CONTEXT_DEFAULTS[f] ELSE nodes[LastOf(set)].args[f]

(***************************************************************************)
(* A tag given by name in `tags` is on the context it was given to and on  *)
(* every descendant, with the value last given on the path: no label, no   *)
(* computed Name and no additionalTagMap overrides it, not even one given  *)
(* further down (context-fns.ts:105-110 and 165).                          *)
(***************************************************************************)
GivenTagsWin ==
  \A i \in Node : \A j \in GivenOn(i, "tags") : \A k \in DOMAIN nodes[j].args.tags :
    LET set == {m \in GivenOn(i, "tags") : k \in DOMAIN nodes[m].args.tags}
    IN  k \in DOMAIN Ctx(i).tags /\ Ctx(i).tags[k] = nodes[LastOf(set)].args.tags[k]

(***************************************************************************)
(* An id never exceeds its limit, for every limit that leaves room for the *)
(* hash suffix (context-fns.ts:28-33).                                     *)
(***************************************************************************)
IdWithinLimit ==
  \A i \in Node :
    Ctx(i).idLengthLimit >= 6 => Len(Ctx(i).id) <= Ctx(i).idLengthLimit

(***************************************************************************)
(* Names meet only where hashes do: contexts whose full ids differ have    *)
(* different ids, whatever their limits, unless the two hashes are the     *)
(* same five digits, or one full id ends as the other does when it is cut, *)
(* in a dash and the digits of its hash (context-fns.ts:28-33).            *)
(***************************************************************************)
Suffix(i) == <<Dash>> \o md5(Ctx(i).idFull)

ApartUnlessHashesMeet ==
  \A i, j \in Node : Ctx(i).id = Ctx(j).id /\ Ctx(i).idFull # Ctx(j).idFull =>
    \/ md5(Ctx(i).idFull) = md5(Ctx(j).idFull)
    \/ IsSuffix(Suffix(i), Ctx(j).idFull)
    \/ IsSuffix(Suffix(j), Ctx(i).idFull)

(***************************************************************************)
(* With the attributes last in the label order, and only there, a child    *)
(* derived by attributes alone is named after its parent: the parent's     *)
(* full id is a prefix of the child's (the naming of DLQs, roles, log      *)
(* groups).                                                                *)
(***************************************************************************)
ChildNamedAfterParent ==
  \A i \in Node : nodes[i].up # {} /\ DOMAIN nodes[i].args = {"attributes"} =>
    LET parent == Ctx(LastOf(nodes[i].up))
        order  == parent.labelOrder
    IN  /\ order # << >> /\ Last(order) = "attributes"
           /\ \A k \in 1 .. Len(order) - 1 : order[k] # "attributes"
        => IsPrefix(parent.idFull, Ctx(i).idFull)

-----------------------------------------------------------------------------
(* What the documents say, and the code does not do.                       *)

(***************************************************************************)
(* src/spec/01-cdk-context.md:228: the Name tag is always set to the       *)
(* computed id.  Unless a Name was given on the path, in `tags` or in      *)
(* `additionalTagMap`, the Name tag of a context is its own id.            *)
(***************************************************************************)
NameTagIsId ==
  \A i \in Node :
    (\A j \in Path(i) : \A f \in {"tags", "additionalTagMap"} \cap DOMAIN nodes[j].args :
       "Name" \notin DOMAIN nodes[j].args[f])
      => Ctx(i).tags["Name"] = Ctx(i).id

(***************************************************************************)
(* packages/cdk-context/README.md:100: the hash suffix ensures uniqueness  *)
(* even when different long names share the same prefix.  Two ids that     *)
(* were both cut differ when the full ids do.                              *)
(***************************************************************************)
IsCut(i) == Ctx(i).id # Ctx(i).idFull

LongNamesStayApart ==
  \A i, j \in Node : IsCut(i) /\ IsCut(j) /\ Ctx(i).idFull # Ctx(j).idFull => Ctx(i).id # Ctx(j).id

(***************************************************************************)
(* spec/02-cdk-bridge.md:108-111 and packages/cdk-bridge/README.md:77-79:  *)
(* `tenant`, `region` and `project` are inputs of bridgeContext.  A        *)
(* context the bridge made of some values has what they say of every field *)
(* that makeContext takes as it is.                                        *)
(***************************************************************************)
BridgeKeys ==
  \A i \in Node : \A values \in Configs :
    nodes[i].up = {} /\ nodes[i].args = bridgedProps(values) =>
      \A f \in BRIDGE_CONFIG_KEYS \cap (Label \cup ReplacedField) \cap DOMAIN values :
        Ctx(i)[f] = values[f]

(***************************************************************************)
(* Less than the documents promise: one of the three is kept.  An app in   *)
(* which not even this is so shows all three broken.                       *)
(***************************************************************************)
SomeContextPromiseIsKept == NameTagIsId \/ LongNamesStayApart \/ BridgeKeys
=============================================================================
