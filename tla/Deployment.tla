----------------------------- MODULE Deployment -----------------------------
(***************************************************************************)
(* The life of a stack made of the constructs: apps are deployed one after *)
(* the other, with constructs added, removed, disabled, enabled, renamed   *)
(* or moved, and deployments fail.  The constructs name what they make     *)
(* after their contexts and decide which of it outlives them; what then    *)
(* happens is CloudFormation's:                                            *)
(*  - what the new template adds, or cannot change in place, is created    *)
(*    first, in any order; a name that is taken fails the deployment;      *)
(*  - then what it no longer has is deleted, unless its policy keeps it;   *)
(*  - if the deployment fails, what it created is deleted instead, again   *)
(*    unless its policy keeps it.                                          *)
(***************************************************************************)
EXTENDS Templates, FiniteSets

CONSTANTS
  Projects,     \* sets of apps, each a function from construct ids to constructs
  MaxDeploys,   \* bound: deployments
  MaxFaults     \* bound: deployments that fail although every name is free

\* The props of a construct, as far as its policies depend on them.
IsConstruct(c) ==
  /\ c.class \in Class
  /\ Given(c, "forceDestroy", FALSE) \in BOOLEAN
  /\ Given(c, "deleteProtection", TRUE) \in BOOLEAN

ASSUME DeploymentAssumption ==
  /\ MaxDeploys \in Nat /\ MaxFaults \in Nat
  /\ \A p \in Projects : \A app \in p : \A s \in DOMAIN app : IsConstruct(app[s])

VARIABLES
  project,    \* the apps that are deployed as one stack, one at a time
  given,      \* all <<construct id, construct>> that were ever deployed
  deploys,    \* how many deployments there were
  phase,      \* "idle", "creating", "cleaning" or "undoing"
  template,   \* the template in force: logical id |-> resource
  target,     \* the template being deployed
  stack,      \* logical id |-> the physical resource in use
  fresh,      \* those the deployment at work created
  account,    \* the physical resources that exist
  doomed,     \* those still to be deleted
  removed,    \* those that were deleted, with what was in them
  faults

vars ==
  <<project, given, deploys, phase, template, target, stack, fresh, account, doomed, removed, faults>>

Empty      == [l \in {} |-> {}]
Over(f, g) == [l \in DOMAIN f \cup DOMAIN g |-> IF l \in DOMAIN f THEN f[l] ELSE g[l]]
Values(f)  == {f[l] : l \in DOMAIN f}

\* The template of an app; a logical id is the construct's id and the resource's.
Logical(app)  == UNION {{<<s, r>> : r \in DOMAIN Resources(app[s])} : s \in DOMAIN app}
Template(app) == [l \in Logical(app) |-> Resources(app[l[1]])[l[2]]]

\* A physical resource: what it is, whose it is, and which deployment made it.
Physical(l) == [kind |-> target[l].kind, name |-> target[l].name, of |-> l, born |-> deploys]

\* What has a logical id may not become of another kind: such a template is refused.
Accepted(t) == \A l \in DOMAIN t \cap DOMAIN template : t[l].kind = template[l].kind

\* The target's resource cannot be had by changing the one in use.
Replaced(l) == target[l].name # template[l].name \/ target[l].shape # template[l].shape

Wanted == {l \in DOMAIN target : l \in DOMAIN stack => Replaced(l)}

Holders(l) ==
  {p \in account : target[l].name # << >> /\ p.kind = target[l].kind /\ p.name = target[l].name}

Init ==
  /\ project \in Projects
  /\ given = {} /\ deploys = 0 /\ faults = 0
  /\ phase = "idle"
  /\ template = Empty /\ target = Empty
  /\ stack = Empty /\ fresh = Empty
  /\ account = {} /\ doomed = {} /\ removed = {}

Deploy(app) ==
  /\ phase = "idle" /\ deploys < MaxDeploys
  /\ Accepted(Template(app))
  /\ given' = given \cup {<<s, app[s]>> : s \in DOMAIN app}
  /\ deploys' = deploys + 1
  /\ phase' = "creating"
  /\ target' = Template(app)
  /\ UNCHANGED <<project, template, stack, fresh, account, doomed, removed, faults>>

Create(l) ==
  /\ phase = "creating" /\ l \in Wanted \ DOMAIN fresh
  /\ Holders(l) = {}
  /\ account' = account \cup {Physical(l)}
  /\ fresh' = Over([k \in {l} |-> Physical(l)], fresh)
  /\ UNCHANGED <<project, given, deploys, phase, template, target, stack, doomed, removed, faults>>

\* What the deployment made is to go, but for what its policy keeps.
Undo ==
  /\ phase' = "undoing"
  /\ doomed' = {fresh[l] : l \in {k \in DOMAIN fresh : ~IsKept(target[k])}}
  /\ fresh' = Empty /\ target' = template
  /\ UNCHANGED <<project, given, deploys, template, stack, account, removed>>

\* The name is taken.
Collide(l) ==
  /\ phase = "creating" /\ l \in Wanted \ DOMAIN fresh
  /\ Holders(l) # {}
  /\ Undo /\ UNCHANGED faults

\* Something else fails: a limit is reached, or a setting is refused.
Fault ==
  /\ phase = "creating" /\ faults < MaxFaults
  /\ faults' = faults + 1
  /\ Undo

\* Everything is created: the target is in force.  What is dropped is kept as the old
\* template says; of what is replaced, some is kept as the old, some as the new one says.
Switch ==
  /\ phase = "creating" /\ DOMAIN fresh = Wanted
  /\ phase' = "cleaning"
  /\ stack' = Over(fresh, [l \in DOMAIN target \cap DOMAIN stack |-> stack[l]])
  /\ LET gone     == DOMAIN stack \ DOMAIN target
         replaced == DOMAIN stack \cap Wanted
     IN  \E old \in SUBSET replaced :
           doomed' = {stack[l] : l \in {k \in gone \cup old : ~IsKept(template[k])}
                                       \cup {k \in replaced \ old : ~IsKept(target[k])}}
  /\ template' = target /\ fresh' = Empty
  /\ UNCHANGED <<project, given, deploys, target, account, removed, faults>>

Delete(p) ==
  /\ phase \in {"cleaning", "undoing"} /\ p \in doomed
  /\ doomed' = doomed \ {p}
  /\ account' = account \ {p}
  /\ removed' = removed \cup {p}
  /\ UNCHANGED <<project, given, deploys, phase, template, target, stack, fresh, faults>>

Done ==
  /\ phase \in {"cleaning", "undoing"} /\ doomed = {}
  /\ phase' = "idle"
  /\ UNCHANGED <<project, given, deploys, template, target, stack, fresh, account, doomed, removed, faults>>

Next ==
  \/ \E app \in project : Deploy(app)
  \/ \E l \in Wanted : Create(l) \/ Collide(l)
  \/ Fault \/ Switch \/ Done
  \/ \E p \in doomed : Delete(p)

Spec == Init /\ [][Next]_vars

-----------------------------------------------------------------------------
Kind == {"bucket", "table", "secret", "key", "alias", "queue", "stream", "consumer", "cluster",
         "dsql", "logs"}

IsTemplate(t) ==
  \A l \in DOMAIN t : t[l].kind \in Kind /\ t[l].policy \in {"RETAIN", "PROTECTED", "DESTROY"}

TypeOK ==
  /\ project \in Projects /\ deploys \in 0 .. MaxDeploys /\ faults \in 0 .. MaxFaults
  /\ phase \in {"idle", "creating", "cleaning", "undoing"}
  /\ IsTemplate(template) /\ IsTemplate(target)
  /\ DOMAIN stack = DOMAIN template /\ DOMAIN fresh \subseteq Wanted
  /\ \A p \in account \cup doomed \cup removed : p.kind \in Kind /\ p.born \in 1 .. deploys

\* Some app gave the construct a physical resource is of with this value of an option.
WasGiven(p, class, option, default, value) ==
  \E g \in given :
    /\ g[1] = p.of[1] /\ g[2].class = class
    /\ Given(g[2], option, default) = value

BucketWasGiven(p, force) ==
  \E class \in {"S3Bucket", "S3LogStorage"} : WasGiven(p, class, "forceDestroy", FALSE, force)

\* What no stack may ever delete, but for what its construct was once told.
MayBeDeleted(p) ==
  /\ p.kind \notin {"table", "secret", "key"}
  /\ p.kind = "bucket" => BucketWasGiven(p, TRUE)
  /\ p.kind = "dsql" => WasGiven(p, "AuroraDsql", "deleteProtection", TRUE, FALSE)

\* What is meant to outlive the stack it is dropped from.
MayBeLeft(p) ==
  \/ p.kind \in {"table", "secret", "key", "stream"}
  \/ p.kind = "bucket" /\ (BucketWasGiven(p, FALSE) \/ p.of[2] = "OriginBucket")
  \/ p.kind = "dsql" /\ WasGiven(p, "AuroraDsql", "deleteProtection", TRUE, TRUE)

(***************************************************************************)
(* No sequence of deployments, failed ones included, deletes a bucket that *)
(* no app ever gave forceDestroy, or any table, secret or key, or a        *)
(* cluster that no app gave up the protection of (s3-bucket README:82,     *)
(* dynamodb README:86, kms-key README:62).                                 *)
(***************************************************************************)
DataLostByForce == \A p \in removed : MayBeDeleted(p)

(***************************************************************************)
(* Between deployments, what exists and is no longer of the stack is of a  *)
(* kind that is meant to outlive it: log groups, queues, aliases,          *)
(* consumers and clusters leave nothing behind that holds their names, so  *)
(* disabling what has only these and enabling it again works               *)
(* (lambda-function README:90).                                            *)
(***************************************************************************)
NoLitter == phase = "idle" => \A p \in account \ Values(stack) : MayBeLeft(p)

(***************************************************************************)
(* What is in use gives way to a new, empty resource only under another    *)
(* name: a change that cannot be made in place (of a table's keys, their   *)
(* types or its local indexes) fails, for the name is its own context's id *)
(* and is taken, and what is full stays.                                   *)
(***************************************************************************)
ReplacedOnlyIfRenamed ==
  [][\A l \in DOMAIN stack \cap DOMAIN stack' :
       stack'[l] # stack[l] => stack'[l].name # stack[l].name]_vars
=============================================================================
