---------------------------- MODULE MCTaskLifecycle ----------------------------
(* Instances of TaskLifecycle for TLC. *)
EXTENDS TaskLifecycle, TLC

CONSTANTS a, b, P, Q, none, gone, notask

OneTask == {a}
TwoTasks == {a, b}
OneProc == {P}
TwoProcs == {P, Q}
Symmetry == Permutations(TwoProcs)
=============================================================================
