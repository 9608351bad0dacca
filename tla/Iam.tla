-------------------------------- MODULE Iam ---------------------------------
(***************************************************************************)
(* How AWS decides whether a request is permitted, as far as the policies  *)
(* the constructs write make a difference.  External: the constructs build *)
(* the statements, AWS evaluates them.                                     *)
(*                                                                         *)
(* A resource or identity is the tuple of the construct that made it and   *)
(* its id there, <<"A", "Queue">>; what no construct made is a tuple of    *)
(* one element.  An action is <<service, verb>>.                           *)
(***************************************************************************)
EXTENDS Sequences

CONSTANTS
  Foreign      \* the ids of principals of other accounts

Anything == <<"*">>
Objects(bucket) == Append(bucket, "*")         \* arn/*
EmptyMap == << >>

\* The one-argument map, and f with the arguments of g it does not have.
Only(x, y) == [k \in {x} |-> y]
f ++ g == [x \in DOMAIN f \cup DOMAIN g |-> IF x \in DOMAIN f THEN f[x] ELSE g[x]]

\* props.f ?? default
Given(props, f, default) == IF f \in DOMAIN props THEN props[f] ELSE default

-----------------------------------------------------------------------------
(* Principals.  Root is the account itself, which leaves the decision to   *)
(* the identity policies of the account.                                   *)
Service(name) == [type |-> "Service", id |-> <<name>>]
Arn(id)       == [type |-> "AWS", id |-> id]
Federated(id) == [type |-> "Federated", id |-> id]
AnyPrincipal  == Arn(Anything)
Root          == Arn(<<"root">>)

Local(by) == by.type = "AWS" /\ by.id \notin Foreign

(* Statements.  The fields given, over the defaults of PolicyStatement; a  *)
(* condition is a function from <<test, variable>> to its values.          *)
Statement(fields) ==
  fields ++ [sid |-> "", effect |-> "Allow", principals |-> {}, conditions |-> EmptyMap]

Allow(principals, actions, resources) ==
  Statement([principals |-> principals, actions |-> actions, resources |-> resources])

-----------------------------------------------------------------------------
(* Requests, and what AWS makes of them.  keys is the request context: a   *)
(* key that does not apply to the request is not in its domain.            *)
Request(by, action, on, keys) == [by |-> by, action |-> action, on |-> on, keys |-> keys]

\* A negated test holds of an absent key, any other test does not.
Holds(test, variable, values, keys) ==
  IF test = "StringNotEquals"
  THEN variable \notin DOMAIN keys \/ keys[variable] \notin values
  ELSE variable \in DOMAIN keys /\ keys[variable] \in values

ActsOn(actions, action) == action \in actions \/ <<action[1], "*">> \in actions
Covers(resources, on)   == on \in resources \/ Anything \in resources

Applies(s, r) ==
  /\ IF "notActions" \in DOMAIN s THEN ~ActsOn(s.notActions, r.action) ELSE ActsOn(s.actions, r.action)
  /\ IF "notResources" \in DOMAIN s THEN ~Covers(s.notResources, r.on) ELSE Covers(s.resources, r.on)
  /\ \A c \in DOMAIN s.conditions : Holds(c[1], c[2], s.conditions[c], r.keys)

Names(s, by) ==
  IF "notPrincipals" \in DOMAIN s THEN by \notin s.notPrincipals
  ELSE by \in s.principals \/ AnyPrincipal \in s.principals

\* What the identity policies of r.by say counts in its own account only, and towards a
\* role only if the role trusts the account.
OwnSayCounts(policy, r) ==
  /\ Local(r.by)
  /\ r.action[1] = "sts" => \E s \in policy : Root \in s.principals /\ Applies(s, r)

\* Some statement allows the request and none denies it.
Permits(policy, identity, r) ==
  LET said == {s \in policy : Applies(s, r) /\ Names(s, r.by)}
              \cup {s \in identity : OwnSayCounts(policy, r) /\ Applies(s, r)}
  IN  /\ \E s \in said : s.effect = "Allow"
      /\ \A s \in said : s.effect # "Deny"
=============================================================================
