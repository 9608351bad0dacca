--------------------------- MODULE PublishRelease ---------------------------
(***************************************************************************)
(* .github/workflows/publish.yml: every push to the branch starts a run,   *)
(* and so does whoever dispatches the workflow.  A run builds what it      *)
(* checked out, deletes the release and the tag of the branch, and creates *)
(* both anew.  Runs overlap as they like: the workflow has no concurrency  *)
(* group.  A release is named after the run that creates it.               *)
(*                                                                         *)
(* What GitHub makes of the commands is external: a release whose tag is   *)
(* deleted becomes a draft; `gh release delete` takes a release or a draft *)
(* of the tag; `gh release create` refuses a tag that has a release, makes *)
(* a draft, uploads the files, and then publishes it, on the tag if there  *)
(* is one, else on a new tag at the head of the branch.                    *)
(***************************************************************************)
EXTENDS Naturals

CONSTANTS
  Run,      \* the runs of the workflow
  None      \* no run

ASSUME RunAssumption == None \notin Run

VARIABLES
  head,       \* the commits of the branch are 1 .. head
  at,         \* run |-> the command it is about to give, or how it ended
  sha,        \* run |-> the commit it checked out
  kept,       \* the runs that could not delete a tag there was
  published,  \* the release of the tag, or None
  drafts,     \* the drafts of the tag
  tag         \* the commit the tag is on, 0 if there is no tag

vars == <<head, at, sha, kept, published, drafts, tag>>

Init ==
  /\ head = 1
  /\ at = [r \in Run |-> "idle"] /\ sha = [r \in Run |-> 0]
  /\ kept = {} /\ drafts = {} /\ published = None
  /\ tag = 0

\* r goes on from one command to the next.
Goes(r, from, to) == at[r] = from /\ at' = [at EXCEPT ![r] = to]

-----------------------------------------------------------------------------
\* A push, or a dispatch by hand.
Push(r) ==
  /\ Goes(r, "idle", "build")
  /\ head' \in {head, head + 1}
  /\ sha' = [sha EXCEPT ![r] = head']
  /\ UNCHANGED <<kept, published, drafts, tag>>

\* Install, compile, package; a failing step ends the run.
Build(r) ==
  /\ Goes(r, "build", "delete") \/ Goes(r, "build", "failed")
  /\ UNCHANGED <<head, sha, kept, published, drafts, tag>>

\* gh release delete .. || true
DeleteRelease(r) ==
  /\ Goes(r, "delete", "untag")
  /\ \/ published # None /\ published' = None /\ UNCHANGED drafts
     \/ UNCHANGED <<published, drafts>>
     \/ \E d \in drafts : drafts' = drafts \ {d} /\ UNCHANGED published
  /\ UNCHANGED <<head, sha, kept, tag>>

\* The tag is deleted, and its release becomes a draft.
Untag ==
  /\ tag' = 0
  /\ published' = None
  /\ drafts' = drafts \cup ({published} \ {None})

\* Mutants: without || true; without the command.
DeleteTag_Fatal(r) ==
  /\ \/ Goes(r, "untag", "create") /\ Untag /\ UNCHANGED kept
     \/ Goes(r, "untag", "failed") /\ UNCHANGED <<tag, published, drafts, kept>>
  /\ UNCHANGED <<head, sha>>
DeleteTag_Skipped(r) ==
  /\ Goes(r, "untag", "create")
  /\ UNCHANGED <<tag, published, drafts, kept, head, sha>>

\* git push origin :refs/tags/.. || true
DeleteTag(r) ==
  /\ Goes(r, "untag", "create")
  /\ \/ Untag /\ UNCHANGED kept
     \/ tag # 0 /\ kept' = kept \cup {r} /\ UNCHANGED <<tag, published, drafts>>
  /\ UNCHANGED <<head, sha>>

\* gh release create .. --target branch, up to the draft
Create(r) ==
  /\ \/ Goes(r, "create", "upload") /\ published = None /\ drafts' = drafts \cup {r}
     \/ Goes(r, "create", "failed") /\ published # None /\ UNCHANGED drafts
  /\ UNCHANGED <<head, sha, kept, published, tag>>

\* Mutant: --draft.
Publish_Draft(r) ==
  /\ Goes(r, "upload", "done")
  /\ UNCHANGED <<head, sha, kept, drafts, published, tag>>

\* .. and from there: refused if the tag got a release or the draft is gone.
Publish(r) ==
  /\ \/ /\ Goes(r, "upload", "done") /\ published = None /\ r \in drafts
        /\ published' = r /\ drafts' = drafts \ {r}
        /\ tag' = IF tag = 0 THEN head ELSE tag
     \/ /\ Goes(r, "upload", "failed") /\ (published # None \/ r \notin drafts)
        /\ drafts' \in {drafts, drafts \ {r}}
        /\ UNCHANGED <<published, tag>>
  /\ UNCHANGED <<head, sha, kept>>

\* A run is cancelled, loses its runner, or cannot reach GitHub to create the release,
\* after it began to delete.
Underway(r) == at[r] \in {"untag", "create", "upload"}
Die(r) ==
  /\ Underway(r)
  /\ at' = [at EXCEPT ![r] = "dead"]
  /\ drafts' \in {drafts, drafts \ {r}}
  /\ UNCHANGED <<head, sha, kept, published, tag>>

Step(r) ==
  \/ Build(r) \/ DeleteRelease(r) \/ DeleteTag(r) \/ Create(r) \/ Publish(r)

Next == \E r \in Run : Push(r) \/ Step(r) \/ Die(r)

\* The steps of a run follow each other; nobody has to push, and no run has to die.
Spec == Init /\ [][Next]_vars
FairSpec == Spec /\ \A r \in Run : WF_vars(Step(r))

-----------------------------------------------------------------------------
Ended(r) == at[r] \in {"done", "failed", "dead"}
Done     == \E r \in Run : at[r] = "done"
Died     == \E r \in Run : at[r] = "dead"

\* A release is published with all its files: its run is done.
TypeOK ==
  /\ head \in Nat \ {0} /\ tag \in 0 .. head
  /\ at \in [Run -> {"idle", "build", "delete", "untag", "create", "upload", "done", "failed", "dead"}]
  /\ sha \in [Run -> 0 .. head]
  /\ kept \subseteq Run
  /\ published \in {None} \cup {r \in Run : at[r] = "done"}
  /\ drafts \subseteq {r \in Run : at[r] = "upload" \/ Ended(r)}

(***************************************************************************)
(* Once one run was done, the branch has a release whenever no run is at   *)
(* work, however the runs overlapped, took each other's releases, tags and *)
(* drafts away and failed over it, and whichever deletions failed: only a  *)
(* run that dies between the deletion and the creation leaves none         *)
(* (publish.yml:80-87).                                                    *)
(***************************************************************************)
ReleaseStays ==
  Done /\ ~Died /\ (\A r \in Run : ~Underway(r)) => published # None

(***************************************************************************)
(* A release is on a tag, and the tag is not behind the commit its         *)
(* artifacts and notes are of, though it may be ahead of it, unless the    *)
(* run could not delete an older tag: then --target has no effect          *)
(* (publish.yml:81 and 91).                                                *)
(***************************************************************************)
TagNotBehind ==
  published # None => tag # 0 /\ (published \in kept \/ tag >= sha[published])

(***************************************************************************)
(* When runs begin to replace the release and none dies, the branch has a  *)
(* release in the end.                                                     *)
(***************************************************************************)
EventuallyPublished ==
  <>(\E r \in Run : Underway(r)) /\ []~Died => <>[](published # None)
=============================================================================
