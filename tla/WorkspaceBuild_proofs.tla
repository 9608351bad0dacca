------------------------ MODULE WorkspaceBuild_proofs -------------------------
(***************************************************************************)
(* Proofs about WorkspaceBuild, for any packages, any graph of what they   *)
(* need, any number of tasks at a time and of commits.                     *)
(***************************************************************************)
EXTENDS WorkspaceBuild, TLAPS

-----------------------------------------------------------------------------
(* What the invariants rest on. *)

\* A task that was begun in an ordered run comes after those it depends on, and one
\* that is done has left a lib of the sources as they are.
TasksInOrder ==
  target \in Ordered =>
    \A p \in Package :
      /\ task[p] # "waiting" => \A d \in Deps[p] : task[d] = "done"
      /\ task[p] = "done" => IsOf(lib[p], p, source)

\* Only a test runs in a workspace that is green.
GreenIsIdle == green => target \notin Ordered /\ \A p \in Package : IsOf(lib[p], p, source)

OthersStay == \A p \in Others : lib[p] = {<<p, 1>>}

IInv == TypeOK /\ TasksInOrder /\ GreenIsIdle /\ OthersStay /\ PackedIsCompiled

-----------------------------------------------------------------------------
(* Types. *)

LEMMA SourcesTyped ==
  ASSUME TypeOK, NEW p \in Package
  PROVE  Sources(p) \in SUBSET (Directory \X (1 .. commit))
BY WorkspaceAssumption DEF TypeOK, Sources, Directory

LEMMA TypeInit == Init => TypeOK
<1> SUFFICES ASSUME Init PROVE TypeOK
    OBVIOUS
<1>1. commit = 1 /\ commit \in 1 .. MaxCommit /\ 1 \in 1 .. commit
      BY WorkspaceAssumption DEF Init
<1>2. source \in [Directory -> 1 .. commit]
      BY <1>1 DEF Init
<1>3. Nothing \in [Directory -> SUBSET (Directory \X (1 .. commit))]
      BY DEF Nothing
<1>4. lib \in [Directory -> SUBSET (Directory \X (1 .. commit))]
  <2>1. \A p \in Directory : {<<p, 1>>} \in SUBSET (Directory \X (1 .. commit))
        BY <1>1
  <2>2. \A p \in Directory : (IF p \in Others THEN {<<p, 1>>} ELSE {}) \in SUBSET (Directory \X (1 .. commit))
        BY <2>1
  <2> QED BY <2>2 DEF Init
<1>5. packed \in [tarballs : [Directory -> SUBSET (Directory \X (1 .. commit))],
                  source : [Directory -> 1 .. commit]]
      BY <1>2, <1>3 DEF Init
<1>6. task \in [Package -> {"waiting", "running", "done", "failed"}]
      BY DEF Init
<1> QED BY <1>1, <1>2, <1>4, <1>5, <1>6 DEF Init, TypeOK

LEMMA TypeStep == TypeOK /\ [Next]_vars => TypeOK'
<1> SUFFICES ASSUME TypeOK, [Next]_vars PROVE TypeOK'
    OBVIOUS
<1> USE WorkspaceAssumption
<1>1. ASSUME NEW p \in Directory, Edit(p) PROVE TypeOK'
  <2>1. commit \in Nat /\ commit' = commit + 1 /\ commit' \in 1 .. MaxCommit
        BY <1>1 DEF TypeOK, Edit
  <2>2. source' \in [Directory -> 1 .. commit']
        BY <1>1, <2>1 DEF TypeOK, Edit
  <2>3. SUBSET (Directory \X (1 .. commit)) \subseteq SUBSET (Directory \X (1 .. commit'))
        BY <2>1
  <2>4. lib' \in [Directory -> SUBSET (Directory \X (1 .. commit'))]
        BY <1>1, <2>3 DEF TypeOK, Edit
  <2>5. packed' \in [tarballs : [Directory -> SUBSET (Directory \X (1 .. commit'))],
                     source : [Directory -> 1 .. commit']]
        BY <1>1, <2>1, <2>3 DEF TypeOK, Edit
  <2> QED BY <1>1, <2>1, <2>2, <2>4, <2>5 DEF TypeOK, Edit
<1>2. ASSUME NEW t \in Target, RunMany(t) PROVE TypeOK'
      BY <1>2 DEF TypeOK, RunMany
<1>3. ASSUME NEW p \in Package, Start(p) PROVE TypeOK'
      BY <1>3 DEF TypeOK, Start, Becomes
<1>4. ASSUME NEW p \in Package, Finish(p) PROVE TypeOK'
      BY <1>4, SourcesTyped DEF TypeOK, Finish, Becomes
<1>5. ASSUME NEW p \in Package, Fail(p) PROVE TypeOK'
      BY <1>5, SourcesTyped DEF TypeOK, Fail, Becomes
<1>6. ASSUME End PROVE TypeOK'
  <2>1. lib' \in [Directory -> SUBSET (Directory \X (1 .. commit))]
        BY <1>6, SourcesTyped DEF TypeOK, End, Is
  <2>2. green' \in BOOLEAN
        BY <1>6 DEF TypeOK, End
  <2> QED BY <1>6, <2>1, <2>2 DEF TypeOK, End
<1>7. ASSUME Pack PROVE TypeOK'
      BY <1>7 DEF TypeOK, Pack
<1>8. CASE UNCHANGED vars
      BY <1>8 DEF TypeOK, vars
<1> QED BY <1>1, <1>2, <1>3, <1>4, <1>5, <1>6, <1>7, <1>8 DEF Next, Step

(***************************************************************************)
(* Sources are commits there were, and libs are of sources there are.      *)
(***************************************************************************)
THEOREM TypeCorrect == Spec => []TypeOK
BY TypeInit, TypeStep, PTL DEF Spec

-----------------------------------------------------------------------------
(* Compiling in order. *)

\* What is compiled against libs of the sources is a lib of the sources.
LEMMA CompiledIsOf ==
  ASSUME TypeOK, NEW p \in Package, \A d \in Deps[p] : IsOf(lib[d], d, source)
  PROVE  IsOf(Sources(p), p, source)
<1>1. <<p, source[p]>> \in Sources(p)
      BY DEF Sources
<1>2. ASSUME NEW s \in Sources(p) PROVE source[s[1]] = s[2]
  <2>1. CASE s = <<p, source[p]>>
        BY <2>1
  <2>2. ASSUME NEW d \in Deps[p], s \in lib[d] PROVE source[s[1]] = s[2]
        BY <2>2 DEF IsOf
  <2> QED BY <1>2, <2>1, <2>2 DEF Sources
<1> QED BY <1>1, <1>2 DEF IsOf

LEMMA InvInit == Init => IInv
<1> SUFFICES ASSUME Init PROVE IInv
    OBVIOUS
<1>1. TypeOK
      BY TypeInit
<1> QED BY <1>1, WorkspaceAssumption
        DEF IInv, Init, TasksInOrder, GreenIsIdle, OthersStay, PackedIsCompiled, Ordered, Nothing, Directory

LEMMA InvStep == IInv /\ [Next]_vars => IInv'
<1> SUFFICES ASSUME IInv, [Next]_vars PROVE IInv'
    OBVIOUS
<1> USE WorkspaceAssumption
<1>0. TypeOK'
      BY TypeStep DEF IInv
<1>1. ASSUME NEW p \in Directory, Edit(p) PROVE IInv'
      BY <1>0, <1>1 DEF IInv, TasksInOrder, GreenIsIdle, OthersStay, PackedIsCompiled, Edit, Ordered, Nothing
<1>2. ASSUME NEW t \in Target, RunMany(t) PROVE IInv'
  <2>1. TasksInOrder'
        BY <1>2 DEF TasksInOrder, RunMany
  <2>2. GreenIsIdle'
        BY <1>2 DEF IInv, GreenIsIdle, RunMany, Ordered
  <2> QED BY <1>0, <1>2, <2>1, <2>2 DEF IInv, OthersStay, PackedIsCompiled, RunMany, Nothing
<1>3. ASSUME NEW p \in Package, Start(p) PROVE IInv'
  <2>1. TasksInOrder'
        BY <1>3 DEF IInv, TypeOK, TasksInOrder, Start, Becomes
  <2> QED BY <1>0, <1>3, <2>1 DEF IInv, GreenIsIdle, OthersStay, PackedIsCompiled, Start, Nothing
<1>4. ASSUME NEW p \in Package, Finish(p) PROVE IInv'
  <2>1. target \in Ordered => \A d \in Deps[p] : IsOf(lib[d], d, source)
        BY <1>4 DEF IInv, TasksInOrder, Finish
  <2>2. target \in Ordered => lib'[p] = Sources(p) /\ IsOf(lib'[p], p, source')
        BY <1>4, <2>1, CompiledIsOf DEF IInv, TypeOK, Finish, Directory
  <2>3. \A q \in Directory : q # p => lib'[q] = lib[q]
        BY <1>4 DEF IInv, TypeOK, Finish
  <2>4. TasksInOrder'
        BY <1>4, <2>2, <2>3 DEF IInv, TypeOK, TasksInOrder, Finish, Becomes, Directory
  <2>5. GreenIsIdle'
        BY <1>4 DEF IInv, GreenIsIdle, Finish
  <2>6. OthersStay'
        BY <2>3 DEF IInv, OthersStay, Directory
  <2> QED BY <1>0, <1>4, <2>4, <2>5, <2>6 DEF IInv, PackedIsCompiled, Finish, Nothing
<1>5. ASSUME NEW p \in Package, Fail(p) PROVE IInv'
  <2>1. \A q \in Directory : q # p => lib'[q] = lib[q]
        BY <1>5 DEF IInv, TypeOK, Fail
  <2>2. TasksInOrder'
        BY <1>5, <2>1 DEF IInv, TypeOK, TasksInOrder, Fail, Becomes, Directory
  <2>3. GreenIsIdle'
        BY <1>5 DEF IInv, GreenIsIdle, Fail, Ordered
  <2>4. OthersStay'
        BY <2>1 DEF IInv, OthersStay, Directory
  <2> QED BY <1>0, <1>5, <2>2, <2>3, <2>4 DEF IInv, PackedIsCompiled, Fail, Nothing
<1>6. ASSUME End PROVE IInv'
  <2>1. TasksInOrder'
        BY <1>6 DEF TasksInOrder, End, Ordered
  <2>2. CASE Is("done") = Package /\ UNCHANGED lib /\ green' = (green \/ target \in Ordered)
    <3>1. target \in Ordered => \A p \in Package : IsOf(lib[p], p, source)
          BY <2>2 DEF IInv, TasksInOrder, Is
    <3>2. GreenIsIdle'
          BY <1>6, <2>2, <3>1 DEF IInv, GreenIsIdle, End, Ordered
    <3> QED BY <1>0, <1>6, <2>1, <2>2, <3>2 DEF IInv, OthersStay, PackedIsCompiled, End, Nothing
  <2>3. ASSUME UNCHANGED green, NEW w \in SUBSET {p \in Is("running") : target \in Ordered /\ Resolved(p)},
               lib' = [p \in Directory |-> IF p \in w THEN Sources(p) ELSE lib[p]]
        PROVE  IInv'
    <3>1. \A p \in w : p \in Package /\ target \in Ordered
          BY <2>3 DEF Is
    <3>2. GreenIsIdle'
          BY <1>6, <2>3, <3>1 DEF IInv, GreenIsIdle, End, Directory, Ordered
    <3>3. OthersStay'
          BY <2>3, <3>1 DEF IInv, OthersStay, Directory
    <3> QED BY <1>0, <1>6, <2>1, <3>2, <3>3 DEF IInv, PackedIsCompiled, End, Nothing
  <2> QED BY <1>6, <2>2, <2>3 DEF End
<1>7. ASSUME Pack PROVE IInv'
  <2>1. PackedIsCompiled'
        BY <1>7 DEF IInv, GreenIsIdle, OthersStay, PackedIsCompiled, Pack
  <2> QED BY <1>0, <1>7, <2>1 DEF IInv, TasksInOrder, GreenIsIdle, OthersStay, Pack
<1>8. CASE UNCHANGED vars
      BY <1>0, <1>8 DEF IInv, TasksInOrder, GreenIsIdle, OthersStay, PackedIsCompiled, vars, Nothing
<1> QED BY <1>1, <1>2, <1>3, <1>4, <1>5, <1>6, <1>7, <1>8 DEF Next, Step

LEMMA InvHolds == Spec => []IInv
BY InvInit, InvStep, PTL DEF Spec

(***************************************************************************)
(* Whatever the graph and however many tasks run at a time, no package is  *)
(* compiled against a lib of other sources, and a run that ended well      *)
(* leaves none.                                                            *)
(***************************************************************************)
THEOREM CompiledInOrderAlways == Spec => []CompiledInOrder
<1>1. IInv => CompiledInOrder
  <2> SUFFICES ASSUME IInv PROVE CompiledInOrder
      OBVIOUS
  <2>1. ASSUME target \in Ordered, NEW p \in Is("running"), NEW d \in Deps[p]
        PROVE  IsOf(lib[d], d, source)
    <3>1. p \in Package /\ task[p] = "running" /\ d \in Package
          BY <2>1, WorkspaceAssumption DEF Is
    <3> QED BY <2>1, <3>1 DEF IInv, TasksInOrder
  <2> QED BY <2>1 DEF IInv, GreenIsIdle, CompiledInOrder
<1> QED BY <1>1, InvHolds, PTL

(***************************************************************************)
(* The tarballs of a release are of the sources they were packed from.     *)
(***************************************************************************)
THEOREM PackedIsCompiledAlways == Spec => []PackedIsCompiled
<1>1. IInv => PackedIsCompiled
      BY DEF IInv
<1> QED BY <1>1, InvHolds, PTL
=============================================================================
