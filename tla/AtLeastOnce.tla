----------------------------- MODULE AtLeastOnce -----------------------------
(***************************************************************************)
(* What an error-notification construct promises about failed executions:  *)
(* once a failure is captured it stays owed until a further execution      *)
(* answers for it ("handed") or a service has given up on it ("lost"), it  *)
(* is never forgotten, and its fate is decided only once.                  *)
(***************************************************************************)
CONSTANT Run        \* identifies executions

VARIABLE fate       \* [Run -> {"none", "owed", "handed", "lost"}]

Init == fate = [r \in Run |-> "none"]

Fail(r) ==
  /\ fate[r] = "none"
  /\ fate' = [fate EXCEPT ![r] = "owed"]

\* One step settles one failure or, with batches, several.
Settle ==
  /\ fate' \in [Run -> {"none", "owed", "handed", "lost"}]
  /\ fate' # fate
  /\ \A r \in Run : fate'[r] # fate[r] => fate[r] = "owed" /\ fate'[r] \in {"handed", "lost"}

Next == (\E r \in Run : Fail(r)) \/ Settle

Safe == Init /\ [][Next]_fate

Spec == Safe /\ \A r \in Run : (fate[r] = "owed") ~> (fate[r] \in {"handed", "lost"})
=============================================================================
