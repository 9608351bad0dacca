----------------------------- MODULE ContextFns -----------------------------
(***************************************************************************)
(* The pure functions of packages/cdk-context/src/context-fns.ts: how a    *)
(* Context is computed from its labels and how a child context is derived  *)
(* from a parent and a set of overrides.                                   *)
(*                                                                         *)
(* A string is a sequence of atoms.  ContextProps is a function whose      *)
(* domain is the set of fields the caller gave: a field left undefined is  *)
(* a field outside the domain.                                             *)
(* regexReplaceChars is the set of atoms it matches.                       *)
(***************************************************************************)
EXTENDS Integers, Sequences, SequencesExt

CONSTANTS
  Atom,     \* the characters labels, attributes and tag values are made of
  Dash,     \* the character '-'
  Special,  \* what the default regexReplaceChars [^-a-zA-Z0-9] strips
  Lower,    \* toLowerCase, character by character
  Upper,    \* toUpperCase
  HexDigit(_, _)  \* HexDigit(s, i): the i-th of the hex digits of the MD5 of s.  They may be
                  \* characters labels are made of, and texts may share all five of theirs.

ASSUME AtomAssumption ==
  /\ Dash \in Atom
  /\ Special \subseteq Atom \ {Dash}
  /\ Lower \in [Atom -> Atom]
  /\ Upper \in [Atom -> Atom]

-----------------------------------------------------------------------------
Label == {"namespace", "tenant", "environment", "stage", "name", "region", "project"}

\* The fields an override replaces whenever it is given.
ReplacedField ==
  {"delimiter", "labelOrder", "labelKeyCase", "labelValueCase", "regexReplaceChars",
   "idLengthLimit", "labelsAsTags", "descriptorFormats", "domainName", "dnsNameFormat"}

Field == Label \cup ReplacedField \cup {"enabled", "attributes", "tags", "additionalTagMap"}

EmptyMap == << >>

\* {...f, ...g}
Spread(f, g) ==
  [x \in DOMAIN f \cup DOMAIN g |-> IF x \in DOMAIN g THEN g[x] ELSE f[x]]

\* props.f ?? default
Given(props, f, default) == IF f \in DOMAIN props THEN props[f] ELSE default

\* The 7 labels, domainName: ''.  dnsNameFormat is carried along and never read.
OptionDefaults ==
  [enabled           |-> TRUE,
   delimiter         |-> <<Dash>>,
   attributes        |-> << >>,
   labelOrder        |-> <<"namespace", "environment", "stage", "name", "attributes">>,
   labelKeyCase      |-> "title",
   labelValueCase    |-> "lower",
   regexReplaceChars |-> Special,
   idLengthLimit     |-> 0,
   tags              |-> EmptyMap,
   additionalTagMap  |-> EmptyMap,
   labelsAsTags      |-> <<"namespace", "environment", "stage", "name", "tenant", "attributes">>,
   descriptorFormats |-> EmptyMap,
   domainName        |-> << >>,
   dnsNameFormat     |-> << >>]

CONTEXT_DEFAULTS == Spread([l \in Label |-> << >>], OptionDefaults)

-----------------------------------------------------------------------------
\* What is left of s without the members of T, in order.
Without(s, T) == FlattenSeq([i \in DOMAIN s |-> IF s[i] \in T THEN << >> ELSE <<s[i]>>])

normalize(value, regex) == Without(value, regex)

applyCase(value, mode) ==
  [i \in DOMAIN value |->
     CASE mode = "upper" -> Upper[value[i]]
       [] mode = "title" -> IF i = 1 THEN Upper[value[i]] ELSE Lower[value[i]]
       [] mode = "none"  -> value[i]
       [] OTHER          -> Lower[value[i]]]

\* md5(s).slice(0, 5)
md5(s) == [i \in 1..5 |-> HexDigit(s, i)]

\* s.slice(0, n): a negative n counts from the end of s.
SliceTo(s, n) ==
  LET end == IF n < 0 THEN Len(s) + n ELSE n
  IN  SubSeq(s, 1, IF end < 0 THEN 0 ELSE IF end > Len(s) THEN Len(s) ELSE end)

applyLengthLimit_DashUncounted(idFull, limit) ==
  IF limit = 0 \/ Len(idFull) <= limit
  THEN idFull
  ELSE SliceTo(idFull, limit - 5) \o <<Dash>> \o md5(idFull)
applyLengthLimit_NoHash(idFull, limit) == IF limit = 0 THEN idFull ELSE SliceTo(idFull, limit)
applyLengthLimit(idFull, limit) ==
  IF limit = 0 \/ Len(idFull) <= limit
  THEN idFull
  ELSE SliceTo(idFull, limit - 6) \o <<Dash>> \o md5(idFull)

\* texts.join(delimiter): empty elements keep their delimiter.
Join(texts, delimiter) ==
  FlattenSeq([i \in DOMAIN texts |-> IF i = 1 THEN texts[i] ELSE delimiter \o texts[i]])

\* A key of labelOrder that is no label has no value, and is left out with the empty ones.
computeIdFull(p) ==
  LET clean(v) == applyCase(normalize(v, p.regexReplaceChars), p.labelValueCase)
      labelMap == Spread([l \in Label |-> clean(p[l])],
                         [attributes |->
                            Join([i \in DOMAIN p.attributes |-> clean(p.attributes[i])],
                                 p.delimiter)])
      labels   == Without([i \in DOMAIN p.labelOrder |-> Given(labelMap, p.labelOrder[i], << >>)],
                          {<< >>})
  IN  Join(labels, p.delimiter)

-----------------------------------------------------------------------------
\* applyCase applied to the (fixed) names of the labels.
TitleKey == [namespace |-> "Namespace", tenant |-> "Tenant", environment |-> "Environment",
             stage |-> "Stage", name |-> "Name", region |-> "Region", project |-> "Project",
             attributes |-> "Attributes"]
UpperKey == [namespace |-> "NAMESPACE", tenant |-> "TENANT", environment |-> "ENVIRONMENT",
             stage |-> "STAGE", name |-> "NAME", region |-> "REGION", project |-> "PROJECT",
             attributes |-> "ATTRIBUTES"]
applyKeyCase(label, mode) ==
  CASE mode = "title" -> TitleKey[label]
    [] mode = "upper" -> UpperKey[label]
    [] OTHER          -> label

\* The raw values of the labels that are not empty, attributes joined.  A name that is
\* no label has no value.
labelTags(p) ==
  LET labelValues == Spread([l \in Label |-> p[l]],
                            [attributes |-> Join(p.attributes, p.delimiter)])
      shown       == {l \in ToSet(p.labelsAsTags) : Given(labelValues, l, << >>) # << >>}
      keyOf       == [l \in shown |-> applyKeyCase(l, p.labelKeyCase)]
  IN  [k \in Range(keyOf) |-> labelValues[CHOOSE l \in shown : keyOf[l] = k]]

\* {...labelTags, Name, ...additionalTagMap, ...tags}: the later wins.
computeTags_MapLast(p, id) ==
  Spread(Spread(Spread(labelTags(p), [Name |-> id]), p.tags), p.additionalTagMap)
computeTags(p, id) ==
  Spread(Spread(Spread(labelTags(p), [Name |-> id]), p.additionalTagMap), p.tags)

-----------------------------------------------------------------------------
makeContext(props) ==
  LET normalized == Spread(CONTEXT_DEFAULTS, props)      \* props.f ?? default, for every f
      idFull     == computeIdFull(normalized)
      id         == applyLengthLimit(idFull, normalized.idLengthLimit)
  IN  Spread(normalized,
             [id |-> id, idFull |-> idFull, tags |-> computeTags(normalized, id)])

mergeOverrides(base, overrides) ==
  LET replaced == [f \in ReplacedField |-> Given(overrides, f, base[f])]
      labels   == [l \in Label |-> IF Given(overrides, l, << >>) # << >>
                                   THEN overrides[l] ELSE base[l]]
      merged   == [enabled    |-> base.enabled /\ Given(overrides, "enabled", TRUE),
                   attributes |-> base.attributes \o Given(overrides, "attributes", << >>),
                   tags       |-> Spread(base.tags, Given(overrides, "tags", EmptyMap)),
                   additionalTagMap |->
                     Spread(base.additionalTagMap,
                            Given(overrides, "additionalTagMap", EmptyMap))]
  IN  Spread(Spread(replaced, labels), merged)

extendContext_NotRecomputed(base, overrides) == mergeOverrides(base, overrides)
extendContext_ReEnables(base, overrides) ==
  makeContext(Spread(mergeOverrides(base, overrides),
                     [enabled |-> Given(overrides, "enabled", base.enabled)]))
extendContext_ReplacesAttributes(base, overrides) ==
  makeContext(Spread(mergeOverrides(base, overrides),
                     [attributes |-> Given(overrides, "attributes", base.attributes)]))
extendContext_PrependsAttributes(base, overrides) ==
  makeContext(Spread(mergeOverrides(base, overrides),
                     [attributes |-> Given(overrides, "attributes", << >>) \o base.attributes]))
extendContext_EmptyErases(base, overrides) ==
  makeContext(Spread(mergeOverrides(base, overrides),
                     [l \in Label |-> Given(overrides, l, base[l])]))
extendContext_DisablesByDefault(base, overrides) ==
  makeContext(Spread(mergeOverrides(base, overrides),
                     [enabled |-> base.enabled /\ Given(overrides, "enabled", FALSE)]))
extendContext(base, overrides) == makeContext(mergeOverrides(base, overrides))

contextId(ctx)   == ctx.id
contextTags(ctx) == ctx.tags
isEnabled(ctx)   == ctx.enabled
=============================================================================
