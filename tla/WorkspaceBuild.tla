--------------------------- MODULE WorkspaceBuild ----------------------------
(***************************************************************************)
(* Building the workspace: `nx run-many --target=..` over the registered   *)
(* packages, in parallel, and the packing of the tarballs of a release.    *)
(* A package is compiled against the lib of the packages it needs; a lib   *)
(* is the set of the sources that went into it, each with the commit that  *)
(* last changed it, and {} if there is none.                               *)
(*                                                                         *)
(* What nx makes of the configuration is external: a task waits for the    *)
(* tasks it depends on, at most Parallel tasks run at a time, and with     *)
(* --nx-bail a failure ends the run, whatever else is running.             *)
(***************************************************************************)
EXTENDS Naturals, FiniteSets

CONSTANTS
  Package,      \* the packages of the workspace
  Deps,         \* package |-> the packages it is compiled against
  Others,       \* packages in packages/ that are not in the workspace
  Parallel,     \* how many tasks run at a time
  MaxCommit     \* bound: how many commits there are

ASSUME WorkspaceAssumption ==
  /\ Deps \in [Package -> SUBSET Package]
  /\ Package \cap Others = {}
  /\ IsFiniteSet(Package)
  /\ Parallel \in Nat \ {0}
  /\ MaxCommit \in Nat \ {0}

Directory == Package \cup Others

VARIABLES
  commit,     \* the commit that is checked out
  source,     \* directory |-> the commit that last changed its source
  lib,        \* directory |-> what its lib was compiled from
  target,     \* the target of the run at work, or "none"
  task,       \* package |-> its task of this run
  green,      \* the last run compiled everything, and nothing was touched since
  packed      \* the tarballs of the release, and the sources they are of

vars == <<commit, source, lib, target, task, green, packed>>

Nothing == [p \in Directory |-> {}]

\* A checkout; the lib of a package that is not in the workspace is checked in with it.
Init ==
  /\ commit = 1
  /\ source = [p \in Directory |-> 1]
  /\ lib = [p \in Directory |-> IF p \in Others THEN {<<p, 1>>} ELSE {}]
  /\ target = "none"
  /\ task = [p \in Package |-> "done"]
  /\ green = FALSE
  /\ packed = [tarballs |-> Nothing, source |-> source]

-----------------------------------------------------------------------------
\* targetDefaults of nx.json: dependsOn ^compile and ^build; a test depends on nothing.
Ordered == {"compile", "build"}
Target  == Ordered \cup {"test"}

Is(state)  == {p \in Package : task[p] = state}
Becomes(p, state) == task' = [task EXCEPT ![p] = state]

\* What p is compiled from; there has to be a lib of everything it needs.
Sources(p) == {<<p, source[p]>>} \cup UNION {lib[d] : d \in Deps[p]}
Resolved(p) == \A d \in Deps[p] : lib[d] # {}

\* The branch moves on, or somebody changes a source.
Edit(p) ==
  /\ target = "none" /\ commit < MaxCommit
  /\ commit' = commit + 1
  /\ source' = [source EXCEPT ![p] = commit']
  /\ green' = FALSE
  /\ UNCHANGED <<lib, target, task, packed>>

RunMany(t) ==
  /\ target = "none"
  /\ target' = t
  /\ task' = [p \in Package |-> "waiting"]
  /\ green' = (green /\ t = "test")
  /\ UNCHANGED <<commit, source, lib, packed>>

\* Mutant: without dependsOn.
Start_Unordered(p) ==
  /\ target # "none" /\ task[p] = "waiting"
  /\ Is("failed") = {} /\ Cardinality(Is("running")) < Parallel
  /\ Becomes(p, "running")
  /\ UNCHANGED <<commit, source, lib, target, green, packed>>
Start(p) ==
  /\ target # "none" /\ task[p] = "waiting"
  /\ Is("failed") = {} /\ Cardinality(Is("running")) < Parallel
  /\ target \in Ordered => \A d \in Deps[p] : task[d] = "done"
  /\ Becomes(p, "running")
  /\ UNCHANGED <<commit, source, lib, target, green, packed>>

\* compile, or build, which also tests and packages; or test, which writes no lib.
Finish(p) ==
  /\ task[p] = "running" /\ Resolved(p)
  /\ Becomes(p, "done")
  /\ lib' = IF target \in Ordered THEN [lib EXCEPT ![p] = Sources(p)] ELSE lib
  /\ UNCHANGED <<commit, source, target, green, packed>>

\* A compile that fails writes nothing; a build may fail in its tests, after it compiled.
Fail(p) ==
  /\ task[p] = "running"
  /\ Becomes(p, "failed")
  /\ \/ UNCHANGED lib
     \/ target = "build" /\ Resolved(p) /\ lib' = [lib EXCEPT ![p] = Sources(p)]
  /\ UNCHANGED <<commit, source, target, green, packed>>

\* Everything is done, or something failed: then the rest is let go, and what was
\* running may or may not have written its lib.
End ==
  /\ target # "none"
  /\ \/ Is("done") = Package /\ UNCHANGED lib /\ green' = (green \/ target \in Ordered)
     \/ /\ Is("failed") # {} /\ UNCHANGED green
        /\ \E w \in SUBSET {p \in Is("running") : target \in Ordered /\ Resolved(p)} :
             lib' = [p \in Directory |-> IF p \in w THEN Sources(p) ELSE lib[p]]
  /\ target' = "none"
  /\ UNCHANGED <<commit, source, task, packed>>

\* Mutant: whatever came of compiling.
Pack_Anyway ==
  /\ target = "none"
  /\ packed' = [tarballs |-> lib, source |-> source]
  /\ UNCHANGED <<commit, source, lib, target, task, green>>

\* npm pack in every directory of packages/, once everything is compiled.
Pack ==
  /\ target = "none" /\ green
  /\ packed' = [tarballs |-> lib, source |-> source]
  /\ UNCHANGED <<commit, source, lib, target, task, green>>

Step(p) == Start(p) \/ Finish(p) \/ Fail(p)

Next ==
  \/ \E p \in Directory : Edit(p)
  \/ \E t \in Target : RunMany(t)
  \/ \E p \in Package : Step(p)
  \/ End \/ Pack

Spec == Init /\ [][Next]_vars

-----------------------------------------------------------------------------
TypeOK ==
  /\ commit \in 1 .. MaxCommit
  /\ source \in [Directory -> 1 .. commit]
  /\ lib \in [Directory -> SUBSET (Directory \X (1 .. commit))]
  /\ target \in Target \cup {"none"}
  /\ task \in [Package -> {"waiting", "running", "done", "failed"}]
  /\ green \in BOOLEAN
  /\ packed \in [tarballs : [Directory -> SUBSET (Directory \X (1 .. commit))],
                 source : [Directory -> 1 .. commit]]

\* A lib is of the sources as they are, its own and those of all it was compiled against.
IsOf(l, p, now) == <<p, now[p]>> \in l /\ \A s \in l : now[s[1]] = s[2]

(***************************************************************************)
(* Parallel compiles never see a lib of another state of the sources:      *)
(* whenever a package is being compiled, what it is compiled against was   *)
(* compiled before, of the sources as they are, all the way down; and so   *)
(* when a run has ended well, every lib is.  Runs that failed before, with *)
(* libs written or not, make no difference (.projenrc.ts:21-26).           *)
(***************************************************************************)
CompiledInOrder ==
  /\ target \in Ordered =>
       \A p \in Is("running") : \A d \in Deps[p] : IsOf(lib[d], d, source)
  /\ green => \A p \in Package : IsOf(lib[p], p, source)

(***************************************************************************)
(* A tarball holds what the packed sources compile to, if its package is   *)
(* registered; that of another holds the lib that was checked in           *)
(* (publish.yml:54-68).                                                    *)
(***************************************************************************)
PackedIsCompiled ==
  packed.tarballs # Nothing =>
    /\ \A p \in Package : IsOf(packed.tarballs[p], p, packed.source)
    /\ \A p \in Others : packed.tarballs[p] = {<<p, 1>>}
=============================================================================
