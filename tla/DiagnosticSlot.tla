----------------------------- MODULE DiagnosticSlot -----------------------------
(***************************************************************************)
(* What the diagnostic transport promises its clients: one slot, taken by   *)
(* one job at a time, and one published result.  The result a client reads  *)
(* for a job id only moves forward - queued, active with a growing count of *)
(* completed requests, one outcome - and the slot is freed after that.      *)
(***************************************************************************)
EXTENDS Naturals

VARIABLES
  slot,    \* "free", "taken" (no result yet), "running" or "done"
  result   \* the published [id, state, completed]

Outcome == {"COMPLETE", "FAILED", "CANCELLED"}

Init ==
  /\ slot = "free"
  /\ result = [id |-> 0, state |-> "IDLE", completed |-> 0]

Take ==
  /\ slot = "free"
  /\ slot' = "taken"
  /\ UNCHANGED result

(* Each job gets an id no job had before. *)
Queue ==
  /\ slot = "taken"
  /\ slot' = "running"
  /\ result' = [id |-> result.id + 1, state |-> "QUEUED", completed |-> 0]

(* The same job, in this state, with no fewer completed requests. *)
Forward(state) ==
  /\ result'.completed \in Nat /\ result'.completed >= result.completed
  /\ result' = [result EXCEPT !.state = state, !.completed = result'.completed]

Progress ==
  /\ slot = "running"
  /\ Forward("ACTIVE")
  /\ UNCHANGED slot

End ==
  /\ slot = "running"
  /\ slot' = "done"
  /\ \E outcome \in Outcome : Forward(outcome)

Free ==
  /\ slot = "done"
  /\ slot' = "free"
  /\ UNCHANGED result

Next == Take \/ Queue \/ Progress \/ End \/ Free

Spec == Init /\ [][Next]_<<slot, result>>
=============================================================================
