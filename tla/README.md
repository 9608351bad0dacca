# A TLA+ model of the SevenPico CDK constructs

This repository is a library of AWS CDK constructs. Almost everything it does happens
at synthesis time, in constructors that run one after the other in one process; what
those constructors leave behind are distributed systems: queues, rules, pipes, alarms,
policies that decide who reaches whom, and stacks that are deployed again and again.
Around the library, packages are built in parallel and released by overlapping workflow
runs. The project models all of these. Paths without a directory are of files under
`packages/`.

## 1. The system

| Part | State it keeps | Operations | What makes it correct |
|---|---|---|---|
| `cdk-context` | immutable `Context` values: labels, attributes, `enabled`, options, `id`, `idFull`, `tags` | `makeContext`, `extendContext` | a chain of extensions loses nothing, disables for good, names children after parents, keeps names within the limit and apart as far as five digits of a hash can |
| `cdk-bridge` | none (reads `cdk.json`) | `readBridgeConfig`, `bridgeContext` | what is configured is in the context made of it |
| `cdk-construct-*` (28 classes) | nodes of the CDK construct tree | one constructor each: `super`, `isEnabled` guard, resources in order, tags | a disabled branch makes nothing; every resource has its tags; names do not collide; references resolve; constructing is local |
| the policies they write | policies of resources, permissions of roles, documents merged by sid | the 19 constructors that write statements | what a construct wires together is permitted, what it denies is denied, one construct takes nothing from another |
| `*-error-notification`, deployed | executions, event bus, DLQ, pipe, alarms | fail, deliver, receive, invoke, settle, expire, sample | no failure is forgotten; a message is deleted only when a retry answers for it; alarms clear |
| any construct, deployed | template, stack, physical resources | deploy, create, fail, roll back, delete | data is not lost to a deployment; nothing is left that blocks the next one |
| `.projenrc.ts`, nx | sources, libs, the tasks of a run, tarballs | edit, run, start, finish, fail, pack | packages compile after what they need; what is packed was compiled |
| publish workflow | branch, tag, release, drafts | push, build, delete, create, publish | a release stays; its tag is not behind it |
| `scripts/` | files | | not modelled |

How the parts interact: every constructor is given a `Context` and reads `enabled`,
`id`, `name` and `tags` from it; several derive further contexts (`extendContext` with
attributes `dlq`, `secret`, `key`, ...) to name their children; `S3LogStorage`
constructs an `S3Bucket` inside itself. All share one construct tree, one set of names
per AWS account, and the tag aspects of their scopes. Constructs refer to resources of
other constructs by ARN or name only, so whether the owner's policy lets them in is
decided when they are deployed, by nobody's code. Once deployed, a failed execution
travels EventBridge rule (or Lambda's own dead-letter setting) -> SQS -> EventBridge
pipe -> target, and CloudWatch samples the queue on the side. The build compiles the
packages in the order of their dependencies, and the workflow packs what it compiled.

What is hard, and hardly tested in the repository: long chains of `extendContext`;
truncation of ids at its limits; constructors that throw halfway in an app that
catches; tags added and removed on different levels of the tree; statements of several
constructs that meet in one policy; duplicated or dropped deliveries, visibility
timeouts that run out during a retry, a pipe that stops between starting a retry and
deleting its message; deployments that fail halfway and are repeated with other props;
compiles that start after a run that failed; and two pushes whose workflows delete and
create one release. `PROJECT.json` lists each of these at the line where it bites.

## 2. Modules

```
SequenceFacts (lemmas on sequences and folds) <- ContextChain_proofs, Access_proofs, App_proofs
ContextFns <- ContextChain <- ContextChain_proofs
BridgeFns  <-     |        <- MCContextChain
                  v (INSTANCE)
ConstructTree <- Constructs <- Messaging, Compute, Storage, Platform, Monitoring <- App <- MCApp, App_proofs
AtLeastOnce (abstract) <- implemented by - DlqPipeline
DlqPipeline <- SfnErrorNotification, LambdaErrorNotification
DlqPipeline <- DlqAlarms <- SfnErrorAlarms (with SfnErrorNotification), DlqPipeline_proofs
Iam <- Statements <- Roles <- Access <- MCAccess, Access_proofs
Templates <- Deployment <- MCDeployment, Deployment_proofs
Projenrc, WorkspaceBuild <- MCWorkspaceBuild;  WorkspaceBuild <- WorkspaceBuild_proofs
PublishRelease <- PublishRelease_proofs
```

**Contexts**
* **ContextFns**: `context-fns.ts` as pure operators. A label is a sequence of
  characters (`Atom`), so that joining, stripping, case and truncation are done, not
  assumed: three of the invariants are about ends and beginnings of ids. `md5` is five
  digits of `HexDigit`, any function into any characters: labels may contain the digits,
  and hashes may collide. A context is a function from its fields. An option
  that is not given is not in the domain of `props`, which is what `??` tests.
* **BridgeFns**: `bridge-fns.ts`: how the values of `cdk.json` are read, which are
  refused, and the six that are passed on.
* **ContextChain**: the contexts an app makes, as a sequence; `Make` is `makeContext`,
  `Extend` is `extendContext` of any context made so far, `Bridge` is `bridgeContext`.
  The recorded `up` and `args` are history, used by properties only.

**The construct tree**
* **ConstructTree**: the part of `constructs` and `aws-cdk-lib` the constructors use,
  external: duplicate ids throw, `Tags.of(..).add/remove` are aspects resolved at
  synthesis (the closest addition wins, a removal wins over additions), a thrown
  exception skips the rest of the constructor and leaves what was made. A constructor is
  a sequence of statements (`New`, `Throw`, `AddTags`, `RemoveTags`, `Redrive`, `Refer`);
  `Run` folds `Do` over them. What a statement does to the tree is in one place, `Effect`.
* **Constructs**: the shape all constructors share. **Messaging** (queues, topics, DLQ
  pipelines), **Compute** (functions, state machines, HTTP APIs, Slack bot), **Storage**
  (buckets, sites, secrets, keys, mail), **Platform** (roles, policies, users, tables,
  streams, clusters), **Monitoring** (buses, rules, trails, audit alarms, flow logs): one
  operator per constructor, giving its statements in their order. Kept: what is made, in which
  order, names, references, redrive policies, tags, exceptions. Left out: settings no
  other node depends on, and imports.
* **App**: one CDK app: contexts (ContextChain), constructs in any order under the app
  or under a construct made before, the app tagged at any time, exceptions caught.

**The deployed pipelines**
* **AtLeastOnce**: what an error-notification construct promises about one failure.
* **DlqPipeline**: the deployed pipeline. What the construct decides is a parameter
  (`Captured`, `Synchronous`, `BatchSize`) given by the module of each construct; the
  services keep only their documented guarantees. `Deliver` may deliver twice, `GiveUp`
  may drop, `Drop` is a pipe that fails between reading a batch and deleting it, `Expire`
  ends retention. `Lapse` ends a visibility timeout while the pipe holds the message: where
  a pipe waits for its execution this is ordinary, the timeout of the construct being 2 s
  by default, and elsewhere a slip. An execution may `End` in any way; one that a pipe
  waits for may fail every time. Beyond `MaxRetries` executions the target is throttled, and
  the pipe has to `Refuse` its batches. Time is abstracted: a timeout may end at any moment
  it is running.
* **DlqAlarms**: the pipeline sampled by the two alarms; `RateAlarm` and `VolumeAlarm`
  are M out of N over the last samples, as `alarmDatapointsToAlarm` and
  `alarmEvaluationPeriods` say.
* **SfnErrorNotification, LambdaErrorNotification**: the values each constructor gives the
  pipeline. An entry of `ExpressSfnErrorNotification` has the pipe of the first, and
  nothing that feeds its queue: Access says so. For Lambda the DLQ is assumed to be the
  function's dead-letter destination, as `cdk-construct-lambda-error-notification/README.md:85`
  asks of the owner: the construct itself only grants the permission.

**Permissions**
* **Iam** (external): when AWS permits a request: a denial that applies wins; a
  principal of the account needs an allowance on either side, anyone else one in the
  resource's policy; a condition on a key the request does not carry.
* **Statements**: the statements of the resource policies of queues, topics, secrets,
  buckets, trails' buckets, functions, keys. **Roles**: what roles, pipes and users are
  granted, and `mergeStatements` and `buildPolicyStatement` of the IAM policies.
* **Access**: the constructs of one stack, one action per constructor that writes
  statements or wires a service to a resource. `policy` and `identity` are what is deployed, `wired` the requests the
  parts will make, `documents` the JSON of policies, which later roles and policies may
  be given. Constructs are given resources of constructs that exist, that will, or that
  never do, since code knows only their names.

**Deployments**
* **Templates**: for each class, the resources whose name, removal policy or keys
  matter to a deployment, with the props that decide them: of a table its keys, their
  types and its local indexes, of a stream its consumers, of a key its alias.
* **Deployment**: one stack over its life: `Deploy` any app of the project, `Create`
  in any order, `Collide` on a name that exists, `Fault` for any other failure,
  `Switch` to cleaning once all is created, `Delete` what is dropped and not kept. A
  failed deployment deletes what it had created, unless its policy keeps it.

**Build and release**
* **Projenrc**: the packages as `.projenrc.ts` registers them and what each needs.
* **WorkspaceBuild**: a run of nx over them, of one target at a time and `Parallel` tasks at
  most; tasks that fail let the rest go; `End` may find a killed task's lib written or
  not; sources change between runs; `Pack` is the workflow's loop over `packages/*`.
* **PublishRelease**: the steps of a run of the publish workflow against GitHub, whose
  releases, drafts and tags are separate state; deletions may fail (`|| true`), and a
  run may die once it began to delete.

## 3. Runs

| Run | Shows | Bounds |
|---|---|---|
| ContextChain | 8 invariants of chains of contexts | 3 roots, 11 overrides, 4 contexts: three extensions in a row are enough for base, intermediate and last override to differ in every field |
| DocumentedContexts | `SomeContextPromiseIsKept` (violation): a configured label does not reach the context, the Name tag of an extended context is not its id, two long names are cut to one id | as above; a hash of 2^5 values stands for the code's 2^20, or four contexts could not meet |
| SfnPipeline | types, `NothingForgotten`, `DeletedOnlyAfterRetry`, `RetriesAreExcused`, `ImplementsAtLeastOnce` for FIRE_AND_FORGET | 1 user start, 2 failures, batches of 2, 3 retries, 1 slip: a failed retry, a batch that mixes failures, one service fault |
| LambdaPipeline | `DeletedOnlyAfterRetry`, `ImplementsAtLeastOnce` for REQUEST_RESPONSE: settled even if no retry ever succeeds | 1 user start, 3 retries, all of which may fail or take longer than messages are hidden, batches of 2, 1 slip |
| DocumentedRetries | `SomeRetryPromiseIsKept` (violation): a retry is started again while the first one runs, the failure of a retry is itself not captured | as above, batches of 1, no slip |
| SfnAlarms | `RateNeedsGrowth` and `AlarmsClear` over a draining queue | 1 start, 2 failures, 1 slip, windows of 2 |
| App | 7 invariants and an action property of any two constructs | 2 roots or extensions, 3 overrides, 2 constructs, 1 to 6 options per class: the properties relate at most two constructs, and the options take every branch of every constructor |
| Access | 5 invariants and an action property | 3 constructs that refer to each other: a policy, a role it is given to and a construct granting to that role, or two constructs that point at a third |
| DocumentedPaths | `SomePathPromiseIsKept` (violation): a queue limited to its account refuses that account's roles, SNS may not send to the DLQ of its subscriptions, the readers of a secret may not use its key, nothing sends to an express DLQ | one construct of each of the four classes, with the options of Access |
| Deployment | 2 invariants and an action property | for every class an app with each option that matters, disabled, and empty; constructs that move, change class or share a name; 3 deployments (what an earlier one left meets a later one, and one in between may fail), 1 fault besides collisions; 361 thousand states |
| WorkspaceBuild | `CompiledInOrder`, `PackedIsCompiled` | `cdk-context`, `sns`, `lambda-function`, `slackbot` (the longest chain of needs in the workspace) and the unregistered `aurora-dsql`; 2 tasks at a time, 3 commits; 252 thousand states |
| PublishRelease | `ReleaseStays`, `TagNotBehind`, `EventuallyPublished` | 3 overlapping runs: one that deletes, one that creates, one that comes between |

`App` and `Access` use symmetry of construct ids (they are compared, never read).
`PublishRelease` has runs that are alike too, but symmetry is not sound for its liveness
property and is not used. `App`, `Access`, `ContextChain`, the pipelines,
`PublishRelease` and `Deployment` set CHECK_DEADLOCK FALSE: an app may be finished, all
pushes may be published, and the bounds on starts, slips and deployments may be used up.
`SfnAlarms` and `WorkspaceBuild` never stop, and are checked not to. Every property of a run that passes has
a mutant in `PROJECT.json`, a plausible bug (a guard dropped, an order swapped) that
breaks it; the mutants stand beside the definitions they change.

The properties that carry the most:
`FieldsAreLastGiven` (a chain of extensions has the fields of one extension with the
merged overrides), `GivenTagsWin` (a tag given by name keeps its value all the way down),
`ApartUnlessHashesMeet`, `NothingForgotten`, `RetriesAreExcused` (a FIRE_AND_FORGET
pipeline duplicates work only when a service slips),
`ImplementsAtLeastOnce`, `NamesAreUnique`, `OwnTagsReachResources`, `WiredPathsPermitted`
(every path a construct sets up works, unless its own props ask to be refused), `ConditionsBind` (which of the merged conditions of a secret bind its
readers), `DataLostByForce`, `NoLitter`, `CompiledInOrder`, `ReleaseStays`.

**Restrictions the properties state.** `NamesAreUnique` excepts pairs of constructs whose
contexts have full ids one of which begins with the other's: ids are joined labels, so
a context and the one derived from it by `dlq` share names by design, and constructs that share a
context do collide. It excepts label orders that do not end with the attributes (a DLQ
is then named like its queue, or not after it), and `useFullname = false`, which names
roles by the label `name` alone. `IdWithinLimit` holds from limit 6 on.
`ChildNamedAfterParent` is about label orders with the attributes last and only there: any
other label that may follow, or attributes joined twice, break the prefix. `NothingRevoked`
speaks of paths whose two ends are made: a name that is yet to be taken may be taken by
someone with other grants.
It is about one stack: CDK names the policies it attaches to a role imported by name after
the construct's path in its stack, and constructs of one path in two stacks would
overwrite each other's.
`WiredPathsPermitted` lists what the props themselves ask to be refused; two kinds of
requests that the documents say work, and that never do, are left to `DocumentedPaths`
(section 4).
`ApartUnlessHashesMeet` says what five digits are worth, not that they are enough, and
the run App, where `NamesAreUnique` is checked, has a hash that keeps different names
apart.
`DisabledBranchIsEmpty` allows a disabled construct to throw, as an `IamPolicy` does whose
documents do not parse (`iam-policy.ts:14`). `OwnTagsReachResources` is about tags of a
construct's own context; a tag of an enclosing scope may still reach an HTTP API that has
a body. `ConditionsBind` records that a later condition of the same test and variable
replaces an earlier one; no document says otherwise. `TagNotBehind` excepts a
run that could not delete an older tag, and allows a tag ahead of the artifacts, which
pushing during a run makes possible; `ReleaseStays` excepts a run that died.
`PackedIsCompiled` says of a package that is not registered only that its tarball holds
the lib that was there. `NoLitter` lets a bucket that is kept hold its name, in the way of
the next attempt: to be kept is what its policy asks for.

**Fairness.** The pipeline is checked under weak fairness of delivery, of polling and of
the pipe finishing a batch, which is what the services promise. Executions have to end
only where the pipe waits for them (a Lambda function has a time limit of 15 minutes; a
state machine may run for a year). For the same pipe retention has to end: retries may
fail for ever, and then nothing else settles the failure. Under FIRE_AND_FORGET `Expire`
is not fair, and a failure is decided whether or not retention ends. CloudWatch keeps sampling (`WF(Sample)`), an alarm's period being
a clock. `GiveUp`, `Drop`, and `Lapse` where the pipe does not wait, are never forced, and bounded
by `MaxSlips`.
The steps of a workflow run follow each other (`WF(Step(r))`), but nobody has to push
and no run has to die. Contexts, App, Access, WorkspaceBuild and Deployment state no
fairness and no liveness: nothing has to be built or deployed, and that a run of nx ends
is up to nx.

## 4. Where code and documents differ

Each of three runs refutes several sentences of the documents at once: its property is
the disjunction of what they promise, which is less than any one of them, so that the
behaviour TLC finds has all of them broken. Given alone as INVARIANT in the run's cfg, each
disjunct is violated as well. `PROJECT.json` quotes the sentences.

* `DocumentedContexts`:
  `BridgeKeys`: 15 keys are read from `cdk.json` and 6 reach the context
  (`bridge-fns.ts:32`); the specification passes on all of them.
  `NameTagIsId`: the Name tag of an extended context stays that of the first one on its
  path, because `base.tags`, already computed, are merged in as if given
  (`context-fns.ts:165`, against `spec/01-cdk-context.md:228`).
  `LongNamesStayApart`: five hex digits do not make every long name unique
  (`context-fns.ts:30`, against the README, line 100).
* `DocumentedRetries`, of the Lambda pipeline, whose README (line 87) has FIRE_AND_FORGET:
  `RetriesAreExcused`: the pipe waits for the result, and messages are hidden for 2 s
  only, so that a longer retry is started again and again while it runs
  (`lambda-error-notification-fns.ts:22`). Under FIRE_AND_FORGET the property holds.
  `FailedRetriesAreCaptured`: for the same reason a retry that fails is not subject to the
  function's own retries and DLQ (`lambda-error-notification.ts:86`).
* `DocumentedPaths`:
  `AccountConsumersAreServed`: the limit of a queue to its account denies the principals of
  that account, whose requests carry no source account (`sqs-queue.ts:46`).
  `FailedDeliveriesAreKept`: the DLQ of `Sns` has no queue policy for `sns.amazonaws.com`
  (`sns.ts:62`), and what fails delivery is lost.
  `SecretReadersCanDecrypt`: what the readers of a secret are to do with its key is allowed
  in the policy of the secret and not of the key (`secret.ts:71`).
  `FailuresAreCaptured`: nothing sends failures to the express DLQs
  (`express-sfn-error-notification.ts:41`).

Seen while modelling, and not run:

* Contexts: limits 1 to 5 are exceeded (`context-fns.ts:31`); the bridge's README has its keys under `sevenpico`, the code reads them from the top level.
* Pipelines: the alarms look at messages the pipe removes at once and may never see one;
  the README of the Lambda construct says at line 22 that failures are captured and at
  line 85 that the owner has to configure it; the sfn README (line 59) gives another default queue name than the code.
* Constructs: tags of the app still reach an HTTP API that has a body; keys of the express
  map that differ only in stripped characters share a queue name.
* Deployments: `pendingWindowInDays` (`kms-key.ts:15`) never matters, since the key is
  retained; `enforceConsumerDeletion = true` of a stream leaves CDK's default, which
  retains it; a table whose keys change can never be deployed, as its name is fixed; a
  Redshift cluster is deleted without a snapshot by default (`redshift-cluster.ts:40`).
* Workspace: `aurora-dsql` is not registered, so no run compiles it, and yet it is packed.

## 5. Proofs

TLAPS checks eight modules of proofs, for every value of the constants that satisfies
the assumptions of the modules. `PROJECT.json` lists the theorems.

* `ContextChain_proofs`. `TypeCorrect`, `DescendantsKeepAll`, `EnabledIsStickyAlways`. The lemmas
  `MakeFields` and `ExtendFields` say what each field of a new context is; `ExtendKeeps`
  gives one step of `Keeps`, and `KeepsTransitive` carries it over any number of steps.
  For `enabled` the inductive invariant is `EnabledIsSticky` with `TypeOK`: the path of a
  new context is its parent's path and itself.
  `FieldsAreLastGivenAlways`, `GivenTagsAlwaysWin`: each is inductive with `TypeOK`, once "the last on the path that was given a field" is known to
  exist and to be the newest when it was just given (`LastIsMember`, `LastIsNewest`, by
  well-founded induction on the natural numbers). `StepAdds` says that a step adds one node
  whose path is its base's and itself, `PathGrows` what that does to the nodes that were
  given a field, `MakeTags` and `ExtendTags` what of the tags given survives `computeTags`,
  and `TagsOfExtension` that the last one given does.
  `IdsAreWithinLimit`, `ApartUnlessHashesMeetAlways`, `ChildAlwaysNamedAfterParent`: the
  invariant `IdsComputed` says that the `id` and `idFull` of every context are what
  `computeId` gives for its own fields, `Extensions` that a context with a parent is the
  extension of it by what it was given. From there it is a matter of sequences:
  the length of a cut id; that an id that was cut ends with the digits of its hash
  (`CutText`), so that two of one id have one hash, whatever the hash (`SameSuffix`,
  `SameId`); and what is joined of labels, when
  the last list of them grows, begins with what was joined before (`FlattenGrows`).
* `DlqPipeline_proofs`. `TypeCorrect`, `NothingForgottenEver` (if everything failing is
  captured), `DeletedOnlyAfterRetryEver`, `RetriesAreOfFailuresEver`. `NothingForgotten`
  is not inductive: nothing in it says that a message once deleted was answered for, or
  that a batch whose execution was started names the right one. `IInv` adds that only
  captured failures are on the bus or in a message, that every batch with an execution
  is retried by it (`BatchesAnswered`), that every captured failure is on the bus, lost,
  or has a message (`Accounted`), and the two other invariants. `StepKeeps` describes each action by what
  it keeps of executions, queue, batches and bus (one step per action), and
  `StepInvariant` derives `IInv'` from that description alone.
  `PromiseIsKept`: the safety half of the refinement. Initial states
  map to initial states; a step either captures one more failure and changes nothing
  else, which is `Fail`, or creates no new debt (`NoNewDebt`) and retries only what a
  batch holds (`NoNewWork`), whence fates only go from owed to handed or lost, which is
  `Settle` or a stutter. It needs `TypeOK` only.
  `RetriesAreAlwaysExcused`, of pipes that do not wait (the run DocumentedRetries has one
  that does): the bound on retries is far from inductive, because a failure
  with several messages may be retried as often. The invariant `Frugal` counts what may
  yet cause a retry as well: `Claims(f)` has an element for being on the bus, for every message that is
  left, for every batch that was read and whose messages have all slipped away from it, and for every retry
  that no longer hides a message. There are at most `1 + slips` of them.
  Each action is shown to exchange claims one for one, or to add one with a slip
  (`NoMore`); where messages die, the batches that lose hold of them are matched with a
  message each (`DyingClaims`), for which `HiddenOnce` says that no two batches hide the
  same message.
  `RateNeedsGrowthAlways`, of the pipeline with its alarms: the invariant is that every sample is at
  most the length of the queue's history, which only grows and is never longer than the
  failures captured and the slips together (`Counts`, `StepCounts`); a window in which every
  period grew then adds up (`GrowthAddsUp`, by a least counterexample).
* `PublishRelease_proofs`. `TypeCorrect`, `ReleaseStaysAlways`, `TagNotBehindEver`.
  `ReleaseStays` speaks of moments at which no run is at work; in between, the invariant
  `Served` says that, once a run is done and none died, there is a release or a run that
  can still make one (`CanPublish`: it has not made its draft, or its draft is there).
  `TagFollows` says that a run past the deletion of the tag finds none, one it could not
  delete, or one that is not behind its commit.
* `WorkspaceBuild_proofs`. `TypeCorrect`, `CompiledInOrderAlways`, `PackedIsCompiledAlways`, for any
  finite graph of packages (in a cycle nothing starts). `CompiledInOrder`
  needs that every package that is done has a lib of the present sources and what is
  under way has what it needs done (`TasksInOrder`), that only tests run while `green` is
  set (`GreenIsIdle`), and, for the tarballs, that nobody writes the libs of the others
  (`OthersStay`).
* `Deployment_proofs`. `DataLostByForceOnly`, `NoLitterEver`, `ReplacedOnlyIfRenamedEver`. `ResourcesDecide` says, class by class, how kind, policy
  and props of a resource go together. The invariant says of every physical resource in
  which of stack, fresh or doomed it is (`InUse`, `NotDoomed`), which deployed props it comes
  from (`Backing`), that what the stack's template has is there (`StackIsWhole`), how old it is (`Ages`), that what is to be
  deleted was told so by some deployed props (`Excused`), that what is left was meant to be (`Leftover`), and that names are held once
  (`NamesAreHeldOnce`), which gives `ReplacedOnlyIfRenamed`.

* `Access_proofs`. `TypeCorrect`, `DenialsAlwaysHold`, `ConditionsAlwaysBind`,
  `OverridesAlwaysWin`, `DenialsAlwaysTravel`, `NothingIsRevoked`, for any number of
  constructs, any props and any resources they are pointed at. The lemmas `...IsOwn` and
  `...AreOwn` show, constructor by constructor, that each writes the policies of its own
  resources only and puts nothing but allowances into roles it is given (`Own`); `StepIs`
  turns the 19 actions into one step of that shape. The invariant says that a policy is
  the one its construct made it with (`PoliciesAsMade`), that a role keeps its documents
  (`RolesKeepDocuments`), and that a document is what merging gave (`DocumentsAsBuilt`).
  `DenialsHold` then follows from the statements alone, whatever else is granted; for
  `ConditionsBind` the fold over a secret's readers is unrolled (`FoldIs`), and
  the last reader to give a condition is found to keep it (`LastStays`).
* `App_proofs`. `TypeCorrect`, `ReferencesAlwaysResolve`, `DisabledBranchIsAlwaysEmpty`,
  `ConstructionIsAlwaysLocal`, `EnabledBranchIsAlwaysMade`,
  `OwnTagsAlwaysReachResources`, `SubscriptionsAlwaysRedrive`, for any contexts, any
  number of constructs at any place, and any props of which `AppAssumption` holds (options that are arrays are given as lists). A constructor is judged by what each
  statement relies on: it is `Possible` after a set `B` of statements if the node it makes
  lies below the construct under a node made in `B` and refers to resources made in
  `B` only, or if the node it changes was made in `B`. A list `Follows` if each statement is
  possible after those before it. `RunGrows` shows, by induction along the fold (`RunIs`),
  that running such a list on a tree, whether it throws or not, adds nodes below the
  construct only, leaves every other node as it was, and leaves no reference open
  (`Grown`). `ThenFollows`, `WhenFollows`, `FlattenFollows` and `Takes` put lists together
  as `\o`, `When` and loops do, and one lemma for each of the 28 classes (`SnsStarts`, ...)
  shows that its statements follow: `EveryClassStarts`. `ReferencesResolve` is not
  inductive, since a construct made later could come between a resource and its owner.
  `Inv` says instead that a resource and what it refers to lie below the same constructs
  of the app, that every node's parent is there, and that a free id has nothing below it
  (`NothingBelowFree`). For `DisabledBranchIsEmpty`, `Sticky` says that a context is
  enabled exactly when nothing on its path was told otherwise (`ExtendSticky`), a constructor whose
  context is disabled has `Idle` statements, which make no resource (`IdleRun`), and `Owned`
  that every resource has a lowest construct of the app above it, the one `Owner` means
  (`OwnerIs`), and that its context is enabled. `EnabledBranchIsMade` is the converse:
  the statements of an enabled constructor are `Fruitful`, one of them makes a resource, for
  each class (`SnsFruitful`, ...), and `AllPaid` says that a construct that owed a resource
  has one, which no later construct can come to own.
  What a resource is tagged with is settled when the app is synthesised, long after its
  constructor returned, so `OwnTagsReachResources` is not inductive either. `TagInv` says
  of every node of a construct (`Mine`: no other construct of the app lies between) how it
  is `NodeMarked`: the construct itself adds its context's tags unless told not to, a tag of
  its context added at any node of it has the context's value, tags are removed
  only where nothing lies below, and from an OpenAPI API all of them are;
  and a subscription redrives as it should. A new node can have no effect on the tags of an
  old one, for it lies above none (`ConstructTags`); and between a resource and its
  construct every node is that construct's (`MineBetween`), so that the closest to add a tag,
  which wins (`ClosestIs`), is marked. That a constructor leaves its nodes so marked is one more
  lemma for each class (`SnsMarks`, ...): most of their statements are `Tame`,
  which neither tag nor subscribe, and the few that are not are followed one by
  one, in `SnsRedrives` from the first subscription to the sweep that sets the policies.
* `SequenceFacts`: what the community modules' flattening and prefixes do, for any
  sequence, by least counterexamples (`First`).

Only model-checked: liveness under fairness (the liveness half of
`ImplementsAtLeastOnce`, `AlarmsClear`, `EventuallyPublished`), which is beyond the
prover; `WiredPathsPermitted`, which is about the documents and names that apps give as
much as about the code, and holds for those the run gives; and of `App`
`NamesAreUnique`, which is true of the names and options the run gives and not of any:
props may name two resources alike, and two truncated ids may share their hash.

## 6. Not modelled

* The content of messages: what `<$.detail.input>` selects from an SQS record, and the
  payload a retry is started with.
* The clocks of SQS redrive (the DLQ's 7 days against the queue's up to 14), and metrics
  that two instances of the audit alarms share in one account.
* Context descriptors and DNS names, `assignSids`, `bridgeValue` and `bridgeString`: pure
  formatting or numbering nothing else reads. DynamoDB replicas.
* CloudFormation: deletions that fail, drift, changes by hand, and that it ends; log
  groups that a late invocation makes anew.
* nx's cache, the JSII targets of the release build, `install:ci`, symlinks made before
  compiling, several branches releasing at once (their tags differ), and the files projen
  generates.
* Several stacks: policies of two stacks on a role both import by name, and the function
  that sets a bucket's notifications, which CDK makes once per stack.
* `scripts/`: sequential shell commands over files. Examples, and settings of resources
  that nothing else reads.

The order in which the project was built, and in which to extend it: contexts, on which
everything depends; the deployed pipelines, where concurrency is; constructors and the
app; permissions; releases and builds; deployments. Next would be the run-time
behaviour of `SqsQueue` and `Sns` with `maxReceiveCount` and the retention of their DLQs.
