------------------------------- MODULE MCChildRun -------------------------------
(* Instances of ChildRun for TLC. *)
EXTENDS ChildRun

CONSTANTS V, W

OneWorker == {V}
TwoWorkers == {V, W}
=============================================================================
