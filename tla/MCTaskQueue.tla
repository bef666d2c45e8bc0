------------------------------ MODULE MCTaskQueue ------------------------------
(* Instances of TaskQueue for TLC. *)
EXTENDS TaskQueue

CONSTANTS a, V, W, notask, noworker

OneTask == {a}
TwoWorkers == {V, W}
=============================================================================
