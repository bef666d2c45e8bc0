--------------------------- MODULE MCRuntimeExecutor ---------------------------
(* Plans and handler tables on which RuntimeExecutor is model-checked. *)
EXTENDS RuntimeExecutor, TLC

CONSTANTS w1, w2, hA, hB

Workers == Permutations({w1, w2})

(* Plans: two chained nodes; two parallel nodes and one that joins them. *)
Chain2 == [n \in 1 .. 2 |-> IF n = 1 THEN {} ELSE {1}]
Join3 == [n \in 1 .. 3 |-> IF n = 3 THEN {1, 2} ELSE {}]
AllSucceeded2 == [n \in 1 .. 2 |-> "all_succeeded"]
AllSucceeded3 == [n \in 1 .. 3 |-> "all_succeeded"]
NoRecovery2 == [n \in 1 .. 2 |-> {}]
NoRecovery3 == [n \in 1 .. 3 |-> {}]

HandlersAB == <<hA, hB>>
HandlersAAB == <<hA, hA, hB>>
ToolPool2 == <<"tool", "tool">>
ToolPool3 == <<"tool", "tool", "tool">>
MixedPool3 == <<"tool", "model", "tool">>

AmpleCalls == [p \in {"model", "tool", "subagent"} |-> 4]
OneCall == [p \in {"model", "tool", "subagent"} |-> 1]
TwoCalls == [p \in {"model", "tool", "subagent"} |-> 2]
=============================================================================
