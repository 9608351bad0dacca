----------------------- MODULE PublishRelease_proofs ------------------------
(***************************************************************************)
(* The publish workflow, for any number of overlapping runs: the branch    *)
(* keeps its release, and the tag keeps up with the artifacts.             *)
(***************************************************************************)
EXTENDS PublishRelease, TLAPS

-----------------------------------------------------------------------------
(***************************************************************************)
(* ReleaseStays is not inductive: when the last run at work fails, there   *)
(* has to be a release.  A run that fails without dying was refused        *)
(* because the tag has a release, or its draft was taken; whoever took it  *)
(* is at work itself, or made way for a release in turn.  So the invariant *)
(* is that a release is published, or some run can still publish one.      *)
(***************************************************************************)
CanPublish(r) == at[r] \in {"untag", "create"} \/ (at[r] = "upload" /\ r \in drafts)
Served == Done => published # None \/ Died \/ \E r \in Run : CanPublish(r)

(***************************************************************************)
(* A run that got past the deletion of the tag finds no tag, one it could  *)
(* not delete, or one made since, which is at the head of a later day.     *)
(***************************************************************************)
TagFollows ==
  /\ published # None => tag # 0
  /\ \A r \in Run : at[r] \in {"create", "upload", "done"} /\ r \notin kept
                    => tag = 0 \/ tag >= sha[r]

-----------------------------------------------------------------------------
(* A run that goes on moves alone.                                         *)
LEMMA GoesAlone ==
  ASSUME TypeOK, NEW r \in Run, NEW from,
         NEW to \in {"idle", "build", "delete", "untag", "create", "upload", "done", "failed", "dead"},
         Goes(r, from, to)
  PROVE  /\ at' \in [Run -> {"idle", "build", "delete", "untag", "create", "upload", "done",
                             "failed", "dead"}]
         /\ at[r] = from /\ at'[r] = to
         /\ \A s \in Run : s # r => at'[s] = at[s]
BY DEF Goes, TypeOK

(***************************************************************************)
(* The workflow keeps its types: in particular a release is published only *)
(* by a run that got to its end, with all files uploaded.                  *)
(***************************************************************************)
THEOREM TypeCorrect == Spec => []TypeOK
<1>1. Init => TypeOK
  BY DEF Init, TypeOK
<1>2. TypeOK /\ [Next]_vars => TypeOK'
  <2> SUFFICES ASSUME TypeOK, [Next]_vars PROVE TypeOK'
    OBVIOUS
  <2>1. ASSUME NEW r \in Run, Push(r) PROVE TypeOK'
    <3>1. /\ at' \in [Run -> {"idle", "build", "delete", "untag", "create", "upload", "done",
                              "failed", "dead"}]
          /\ at[r] = "idle" /\ at'[r] = "build" /\ \A s \in Run : s # r => at'[s] = at[s]
      BY <2>1, GoesAlone DEF Push
    <3>2. head' \in Nat /\ head' >= head /\ head' >= 0 /\ sha' \in [Run -> 0 .. head']
      BY <2>1 DEF Push, TypeOK
    <3>3. tag' \in 0 .. head'
      BY <2>1, <3>2 DEF Push, TypeOK
    <3>4. QED
      BY <2>1, <3>1, <3>2, <3>3 DEF Push, TypeOK, Ended
  <2>2. ASSUME NEW r \in Run, Build(r) PROVE TypeOK'
    BY <2>2, GoesAlone DEF Build, TypeOK, Ended
  <2>3. ASSUME NEW r \in Run, DeleteRelease(r) PROVE TypeOK'
    BY <2>3, GoesAlone DEF DeleteRelease, TypeOK, Ended
  <2>4. ASSUME NEW r \in Run, DeleteTag(r) PROVE TypeOK'
    <3>1. /\ at' \in [Run -> {"idle", "build", "delete", "untag", "create", "upload", "done",
                              "failed", "dead"}]
          /\ at[r] = "untag" /\ at'[r] = "create" /\ \A s \in Run : s # r => at'[s] = at[s]
      BY <2>4, GoesAlone DEF DeleteTag
    <3>2. tag' \in 0 .. head' /\ kept' \subseteq Run /\ head' \in Nat \ {0} /\ sha' \in [Run -> 0 .. head']
      BY <2>4 DEF DeleteTag, Untag, TypeOK
    <3>3. published' \in {None} \cup {s \in Run : at'[s] = "done"}
      BY <2>4, <3>1 DEF DeleteTag, Untag, TypeOK
    <3>4. drafts' \subseteq {s \in Run : at'[s] = "upload" \/ Ended(s)'}
      BY <2>4, <3>1 DEF DeleteTag, Untag, TypeOK, Ended
    <3>5. QED
      BY <3>1, <3>2, <3>3, <3>4 DEF TypeOK
  <2>5. ASSUME NEW r \in Run, Create(r) PROVE TypeOK'
    BY <2>5, GoesAlone DEF Create, TypeOK, Ended
  <2>6. ASSUME NEW r \in Run, Publish(r) PROVE TypeOK'
    <3>1. /\ at' \in [Run -> {"idle", "build", "delete", "untag", "create", "upload", "done",
                              "failed", "dead"}]
          /\ at[r] = "upload" /\ at'[r] \in {"done", "failed"}
          /\ \A s \in Run : s # r => at'[s] = at[s]
      BY <2>6, GoesAlone DEF Publish
    <3>2. tag' \in 0 .. head' /\ kept' \subseteq Run /\ head' \in Nat \ {0} /\ sha' \in [Run -> 0 .. head']
      BY <2>6 DEF Publish, TypeOK
    <3>3. published' \in {None} \cup {s \in Run : at'[s] = "done"}
      BY <2>6, <3>1 DEF Publish, Goes, TypeOK
    <3>4. drafts' \subseteq {s \in Run : at'[s] = "upload" \/ Ended(s)'}
      BY <2>6, <3>1 DEF Publish, TypeOK, Ended
    <3>5. QED
      BY <3>1, <3>2, <3>3, <3>4 DEF TypeOK
  <2>7. ASSUME NEW r \in Run, Die(r) PROVE TypeOK'
    BY <2>7 DEF Die, Underway, TypeOK, Ended
  <2>8. CASE UNCHANGED vars
    BY <2>8 DEF vars, TypeOK, Ended
  <2>9. QED
    BY <2>1, <2>2, <2>3, <2>4, <2>5, <2>6, <2>7, <2>8 DEF Next, Step
<1>3. QED
  BY <1>1, <1>2, PTL DEF Spec

-----------------------------------------------------------------------------
(***************************************************************************)
(* Once one run was done and as long as none died, the branch has a        *)
(* release whenever no run is at work (publish.yml:80-87).                 *)
(***************************************************************************)
THEOREM ReleaseStaysAlways == Spec => []ReleaseStays
<1>1. Init => Served
  BY DEF Init, Served, Done
<1>2. TypeOK /\ Served /\ [Next]_vars => Served'
  <2> SUFFICES ASSUME TypeOK, Served, [Next]_vars PROVE Served'
    OBVIOUS
  <2>1. ASSUME NEW r \in Run, Push(r) PROVE Served'
    BY <2>1, GoesAlone DEF Push, Served, Done, Died, CanPublish
  <2>2. ASSUME NEW r \in Run, Build(r) PROVE Served'
    BY <2>2, GoesAlone DEF Build, Served, Done, Died, CanPublish
  <2>3. ASSUME NEW r \in Run, DeleteRelease(r) PROVE Served'
    BY <2>3, GoesAlone DEF DeleteRelease, Served, CanPublish
  <2>4. ASSUME NEW r \in Run, DeleteTag(r) PROVE Served'
    BY <2>4, GoesAlone DEF DeleteTag, Served, CanPublish
  <2>5. ASSUME NEW r \in Run, Create(r) PROVE Served'
    BY <2>5, GoesAlone DEF Create, Served, CanPublish
  <2>6. ASSUME NEW r \in Run, Publish(r) PROVE Served'
    <3>1. CASE Goes(r, "upload", "done") /\ published' = r
      BY <3>1, RunAssumption DEF Served
    <3>2. CASE /\ Goes(r, "upload", "failed") /\ (published # None \/ r \notin drafts)
               /\ drafts' \in {drafts, drafts \ {r}} /\ UNCHANGED published
      BY <3>2, GoesAlone DEF Served, Done, Died, CanPublish
    <3>3. QED
      BY <2>6, <3>1, <3>2 DEF Publish
  <2>7. ASSUME NEW r \in Run, Die(r) PROVE Served'
    BY <2>7 DEF Die, Served, Died, TypeOK
  <2>8. CASE UNCHANGED vars
    BY <2>8 DEF vars, Served, Done, Died, CanPublish
  <2>9. QED
    BY <2>1, <2>2, <2>3, <2>4, <2>5, <2>6, <2>7, <2>8 DEF Next, Step
<1>3. Served => ReleaseStays
  BY DEF Served, ReleaseStays, CanPublish, Underway
<1>4. QED
  BY <1>1, <1>2, <1>3, TypeCorrect, PTL DEF Spec

(***************************************************************************)
(* The tag of a release is not behind the commit its artifacts are of,     *)
(* unless its run could not delete an older tag (publish.yml:81 and 91).   *)
(***************************************************************************)
THEOREM TagNotBehindEver == Spec => []TagNotBehind
<1>1. Init => TagFollows
  BY DEF Init, TagFollows
<1>2. TypeOK /\ TagFollows /\ [Next]_vars => TagFollows'
  <2> SUFFICES ASSUME TypeOK, TagFollows, [Next]_vars PROVE TagFollows'
    OBVIOUS
  <2>1. ASSUME NEW r \in Run, Push(r) PROVE TagFollows'
    <3>1. at'[r] = "build" /\ \A s \in Run : s # r => at'[s] = at[s] /\ sha'[s] = sha[s]
      BY <2>1, GoesAlone DEF Push, TypeOK
    <3>2. QED
      BY <2>1, <3>1 DEF Push, TagFollows
  <2>2. ASSUME NEW r \in Run, Build(r) PROVE TagFollows'
    BY <2>2, GoesAlone DEF Build, TagFollows
  <2>3. ASSUME NEW r \in Run, DeleteRelease(r) PROVE TagFollows'
    BY <2>3, GoesAlone DEF DeleteRelease, TagFollows
  <2>4. ASSUME NEW r \in Run, DeleteTag(r) PROVE TagFollows'
    BY <2>4, GoesAlone DEF DeleteTag, Untag, TagFollows
  <2>5. ASSUME NEW r \in Run, Create(r) PROVE TagFollows'
    BY <2>5, GoesAlone DEF Create, TagFollows
  <2>6. ASSUME NEW r \in Run, Publish(r) PROVE TagFollows'
    <3>1. /\ at[r] = "upload" /\ \A s \in Run : s # r => at'[s] = at[s]
          /\ UNCHANGED <<head, sha, kept>>
      BY <2>6, GoesAlone DEF Publish
    <3>2. head \in Nat /\ \A s \in Run : sha[s] \in 0 .. head
      BY DEF TypeOK
    <3>3. CASE /\ published' = r /\ published = None
               /\ tag' = IF tag = 0 THEN head ELSE tag
      <4>1. head # 0
        BY DEF TypeOK
      <4>2. QED
        BY <3>1, <3>2, <3>3, <4>1 DEF TagFollows
    <3>4. CASE UNCHANGED <<published, tag>> /\ at'[r] = "failed"
      BY <3>1, <3>4 DEF TagFollows
    <3>5. QED
      BY <2>6, <3>3, <3>4, GoesAlone DEF Publish
  <2>7. ASSUME NEW r \in Run, Die(r) PROVE TagFollows'
    BY <2>7 DEF Die, TagFollows, TypeOK
  <2>8. CASE UNCHANGED vars
    BY <2>8 DEF vars, TagFollows
  <2>9. QED
    BY <2>1, <2>2, <2>3, <2>4, <2>5, <2>6, <2>7, <2>8 DEF Next, Step
<1>3. TypeOK /\ TagFollows => TagNotBehind
  BY RunAssumption DEF TypeOK, TagFollows, TagNotBehind
<1>4. QED
  BY <1>1, <1>2, <1>3, TypeCorrect, PTL DEF Spec
=============================================================================
