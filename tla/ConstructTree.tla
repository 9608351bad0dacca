--------------------------- MODULE ConstructTree ----------------------------
(***************************************************************************)
(* The part of the CDK runtime (aws-cdk-lib, constructs) the constructors  *)
(* under packages/ run against: the tree of construct nodes and its tags.  *)
(*                                                                         *)
(* A path is the sequence of ids from the app, << >>, to a node.  A        *)
(* constructor is a sequence of statements, run on a state [tree, threw]:  *)
(* once one has thrown, those after it do nothing, and what was put into   *)
(* the tree before stays there.                                            *)
(***************************************************************************)
EXTENDS ContextFns, FiniteSets

\* Fields of a node
\*   type     "Construct" for a class of this repository and for an import, or the
\*            resource type
\*   name     the physical name, << >> where CloudFormation generates one, where the
\*            caller alone chooses it (users, domains, records, stages, VPC links), or
\*            where it need only be unique within its parent (stream consumers)
\*   refs     the nodes its properties refer to (Ref, GetAtt)
\*   redrive  the dead-letter queues its redrive policy names
\*   adds     the tags of Tags.of(node).add
\*   removes  the keys of Tags.of(node).remove
Resource(type, name, refs) ==
  [type |-> type, name |-> name, refs |-> refs, redrive |-> {},
   adds |-> EmptyMap, removes |-> {}]

Construct == Resource("Construct", << >>, {})

\* A dead-letter queue named by an ARN that is not of this app.
External == <<"arn">>

\* Mutant: every node of the app.
FindAll_WholeApp(tree, path) == DOMAIN tree

\* node.findAll(): the node and everything below it
FindAll(tree, path) == {p \in DOMAIN tree : IsPrefix(path, p)}

-----------------------------------------------------------------------------
(* Statements                                                              *)

New(path, node)          == [does |-> "new", path |-> path, node |-> node]
Throw                    == [does |-> "throw"]
AddTags(path, tags)      == [does |-> "add", path |-> path, tags |-> tags]
RemoveTags(path, keys)   == [does |-> "remove", path |-> path, keys |-> keys]
Redrive(scope, target)   == [does |-> "redrive", path |-> scope, target |-> target]
Refer(path, nodes)       == [does |-> "refer", path |-> path, nodes |-> nodes]

When(condition, statements) == IF condition THEN statements ELSE << >>

\* Ids are unique among the children of a scope.
Throws(tree, e) == e.does = "throw" \/ (e.does = "new" /\ e.path \in DOMAIN tree)

\* child.redrivePolicy = target, on every subscription below the scope
Redriven(tree, scope, target) ==
  [p \in DOMAIN tree |-> IF p \in FindAll(tree, scope) /\ tree[p].type = "Subscription"
                         THEN [tree[p] EXCEPT !.redrive = {target}] ELSE tree[p]]

Effect(tree, e) ==
  CASE e.does = "new"     -> Spread(tree, [p \in {e.path} |-> e.node])
    [] e.does = "add"     -> [tree EXCEPT ![e.path].adds = Spread(@, e.tags)]
    [] e.does = "remove"  -> [tree EXCEPT ![e.path].removes = @ \cup e.keys]
    [] e.does = "redrive" -> Redriven(tree, e.path, e.target)
    [] e.does = "refer"   -> [tree EXCEPT ![e.path].refs = @ \cup e.nodes]

Do(s, e) ==
  IF s.threw THEN s
  ELSE IF Throws(s.tree, e) THEN [s EXCEPT !.threw = TRUE]
  ELSE [s EXCEPT !.tree = Effect(@, e)]

Run(tree, statements) == FoldLeft(Do, [tree |-> tree, threw |-> FALSE], statements)

-----------------------------------------------------------------------------
\* The tags of a resource once its app is synthesised: a removal on the node or above
\* beats every addition, and of the additions the one closest to the node counts.
TagsOf(tree, path) ==
  LET above     == {p \in DOMAIN tree : IsPrefix(p, path)}
      removed   == UNION {tree[p].removes : p \in above}
      adding(k) == {p \in above : k \in DOMAIN tree[p].adds}
      closest(k) == CHOOSE p \in adding(k) : \A q \in adding(k) : Len(q) <= Len(p)
  IN  [k \in (UNION {DOMAIN tree[p].adds : p \in above}) \ removed |->
         tree[closest(k)].adds[k]]
=============================================================================
