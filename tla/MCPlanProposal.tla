----------------------------- MODULE MCPlanProposal -----------------------------
(* Instances of PlanProposal for TLC. *)
EXTENDS PlanProposal

CONSTANTS V, W

TwoWorkers == {V, W}
=============================================================================
