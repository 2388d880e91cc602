----------------------------- MODULE RunLifecycle ------------------------------
(***************************************************************************)
(* The lifecycle of runs (RunState, Run::transition_to and                 *)
(* is_valid_run_transition in src/crates/runlane-core/src/lib.rs).  It is  *)
(* the abstract specification of the journeys: Journey maps how far the    *)
(* run of each command has come to a state of this module.                 *)
(***************************************************************************)

CONSTANT Runs

VARIABLE state   \* state[r]: the state of run r

RunStates ==
  {"Created", "Planned", "CollectingEvidence", "EvidenceCollected", "ProposalGenerated",
   "WaitingForApproval", "Approved", "Rejected", "Executing", "Verifying", "Resolved",
   "Failed", "Escalated", "Reviewed"}

\* The states a run may go to next.
ValidRunTransitions ==
  [from \in RunStates |->
     CASE from = "Created" -> {"Planned"}
       [] from = "Planned" -> {"CollectingEvidence"}
       [] from = "CollectingEvidence" -> {"EvidenceCollected"}
       [] from = "EvidenceCollected" -> {"ProposalGenerated"}
       [] from = "ProposalGenerated" -> {"WaitingForApproval"}
       [] from = "WaitingForApproval" -> {"Approved", "Rejected"}
       [] from = "Approved" -> {"Executing"}
       [] from = "Executing" -> {"Verifying"}
       [] from = "Verifying" -> {"Resolved", "Failed", "Escalated"}
       [] from \in {"Resolved", "Failed", "Escalated", "Rejected"} -> {"Reviewed"}
       [] from = "Reviewed" -> {}]

\* A transition the table does not name is refused and leaves the run where it is.
TransitionTo(run, to) ==
  /\ to \in ValidRunTransitions[state[run]]
  /\ state' = [state EXCEPT ![run] = to]

Init == state = [run \in Runs |-> "Created"]
Next == \E run \in Runs, to \in RunStates : TransitionTo(run, to)
Spec == Init /\ [][Next]_state

===============================================================================
