------------------------------ MODULE RuntimePlan ------------------------------
(***************************************************************************)
(* The plan of one durable Agent Runtime run and the pure state            *)
(* transitions of apps/api/app/runtime/state_machine.py over the status of *)
(* its nodes.                                                              *)
(*                                                                         *)
(* A node is its position in the plan: run.nodes is a dict filled in plan  *)
(* order (contracts.py, initialize_nodes), so "the first ready node" of    *)
(* the code is the least number here.                                      *)
(***************************************************************************)
EXTENDS Naturals, FiniteSets

CONSTANTS NodeCount,     \* number of nodes of the plan
          DependsOn,     \* node -> the nodes it names in depends_on
          Activation,    \* node -> "all_succeeded" | "any_failed" | "always"
          RecoveryFor    \* node -> the dependencies whose failure it makes good

Node == 1 .. NodeCount

Terminal == {"succeeded", "partial", "failed", "skipped", "blocked"}
NodeStatus == Terminal \cup {"pending", "ready", "running"}
Open == {"pending", "ready"}          \* what block_node and skip_node accept
Achieved == {"succeeded", "skipped"}
Broken == {"failed", "blocked"}

(***************************************************************************)
(* What AgentRunPlan.validate_graph accepts.  The topological check of the *)
(* code succeeds exactly when the nodes can be ranked above the nodes they *)
(* depend on.                                                              *)
(***************************************************************************)
PlanAssumption ==
    /\ NodeCount \in Nat \ {0}
    /\ DependsOn \in [Node -> SUBSET Node]
    /\ Activation \in [Node -> {"all_succeeded", "any_failed", "always"}]
    /\ RecoveryFor \in [Node -> SUBSET Node]
    /\ \E rank \in [Node -> Node] :
           \A n \in Node : \A d \in DependsOn[n] : rank[d] < rank[n]
    /\ \A n \in Node :
           /\ Activation[n] = "any_failed" => DependsOn[n] # {}
           /\ RecoveryFor[n] \subseteq DependsOn[n]
           /\ RecoveryFor[n] # {} => Activation[n] = "any_failed"

ASSUME PlanValid == PlanAssumption

-----------------------------------------------------------------------------
(* May node n start, given the status st of every node? *)
ActivationSatisfied(n, st) ==
    LET deps == DependsOn[n] IN
    CASE Activation[n] = "all_succeeded" -> \A d \in deps : st[d] \in Achieved
      [] Activation[n] = "any_failed"    -> /\ \A d \in deps : st[d] \in Terminal
                                            /\ \E d \in deps : st[d] \in Broken
      [] OTHER                           -> \A d \in deps : st[d] \in Terminal

ReadyNodes(st) == {n \in Node : st[n] = "pending" /\ ActivationSatisfied(n, st)}

(* mark_ready, restricted to the nodes of allowed. *)
MarkReady(st, allowed) ==
    [n \in Node |-> IF n \in ReadyNodes(st) \cap allowed THEN "ready" ELSE st[n]]

(***************************************************************************)
(* block_unreachable_nodes repeats passes over the plan until none changes *)
(* anything.  It only ever turns an open node into a terminal one, so what *)
(* it computes is the assignment in which every node got the verdict that  *)
(* its dependencies' FINAL statuses give it; the plan has no cycle, so     *)
(* there is exactly one such assignment.                                   *)
(***************************************************************************)
Verdict(n, st, final) ==
    LET deps == DependsOn[n] IN
    IF st[n] \notin Open THEN st[n]
    ELSE IF /\ Activation[n] = "all_succeeded"
            /\ \E d \in deps : final[d] \in Broken THEN "blocked"
    ELSE IF /\ Activation[n] = "any_failed"
            /\ \A d \in deps : final[d] \in Terminal \ Broken THEN "skipped"
    ELSE st[n]

(* The loop ends some of the open nodes, each in the one way its rule has.  *)
OpenNodes(st) == {n \in Node : st[n] \in Open}

Closing(st, S) ==
    [n \in Node |-> IF n \notin S THEN st[n]
                   ELSE IF Activation[n] = "any_failed" THEN "skipped" ELSE "blocked"]

Settlements(st) ==
    {final \in {Closing(st, S) : S \in SUBSET OpenNodes(st)} :
        \A n \in Node : final[n] = Verdict(n, st, final)}

(* _refresh_run_status: the run status after a node changed to give st. *)
Recovered(st) == UNION {RecoveryFor[n] : n \in {m \in Node : st[m] = "succeeded"}}

RefreshRunStatus(st, old) ==
    IF \E n \in Node : st[n] = "running" THEN "running"
    ELSE IF \A n \in Node : st[n] \in Terminal
         THEN IF {n \in Node : st[n] \in Broken} \subseteq Recovered(st)
              THEN "completed" ELSE "failed"
    ELSE IF \E n \in Node : st[n] = "ready" THEN "running"
    ELSE old
=============================================================================
