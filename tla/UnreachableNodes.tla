--------------------------- MODULE UnreachableNodes ---------------------------
(***************************************************************************)
(* The loop of RuntimeStateMachine.block_unreachable_nodes, one node visit *)
(* per step, over every small plan and every node status it may be called  *)
(* with.  RuntimePlan describes the result of the loop without the loop    *)
(* (Settlements, RefreshRunStatus); the properties here say that it is     *)
(* what the loop computes.                                                 *)
(***************************************************************************)
EXTENDS Naturals, FiniteSets

CONSTANTS Count,      \* nodes of the plans considered
          Statuses    \* node statuses the loop may start from

VARIABLES deps,       \* the plan: node.depends_on
          act,        \*           node.activation
          before,     \* node statuses when the loop was entered
          st,         \* node statuses
          runStatus,  \* run.status
          at,         \* position of the pass in plan order
          changed     \* the pass has changed a node; "done" after the last one

vars == <<deps, act, before, st, runStatus, at, changed>>

Plan == INSTANCE RuntimePlan WITH
            NodeCount <- Count, DependsOn <- deps, Activation <- act,
            RecoveryFor <- [n \in 1 .. Count |-> {}]

Nodes == 1 .. Count

(* The loop runs while the run is RUNNING (executor.py 83 and 160). *)
Init ==
    /\ deps \in [Nodes -> SUBSET Nodes]
    /\ act \in [Nodes -> {"all_succeeded", "any_failed", "always"}]
    /\ Plan!PlanAssumption
    /\ before \in [Nodes -> Statuses]
    /\ st = before
    /\ runStatus = "running"
    /\ at = 1
    /\ changed = "no"

(* block_node and skip_node end by refreshing the run status. *)
Settle(n, verdict) ==
    /\ st' = [st EXCEPT ![n] = verdict]
    /\ runStatus' = Plan!RefreshRunStatus(st', runStatus)
    /\ changed' = "yes"

MustBlock(n) == /\ act[n] = "all_succeeded"
                /\ \E d \in deps[n] : st[d] \in {"failed", "blocked"}

MustSkipEarly(n) ==              \* variant: running dependencies do not count
    act[n] = "any_failed" /\ ~\E d \in deps[n] : st[d] \in {"failed", "blocked"}

MustSkip(n) == /\ act[n] = "any_failed"
               /\ \A d \in deps[n] : st[d] \in Plan!Terminal
               /\ ~\E d \in deps[n] : st[d] \in {"failed", "blocked"}

Visit ==
    /\ changed # "done"
    /\ at \in Nodes
    /\ at' = at + 1
    /\ IF st[at] \notin {"pending", "ready"} THEN UNCHANGED <<st, runStatus, changed>>
       ELSE IF MustBlock(at) THEN Settle(at, "blocked")
       ELSE IF MustSkip(at) THEN Settle(at, "skipped")
       ELSE UNCHANGED <<st, runStatus, changed>>
    /\ UNCHANGED <<deps, act, before>>

NextPassKeepingChanged ==        \* variant: the flag is not cleared for the pass
    /\ at = Count + 1
    /\ changed = "yes"
    /\ at' = 1
    /\ UNCHANGED <<deps, act, before, st, runStatus, changed>>

NextPass ==
    /\ at = Count + 1
    /\ changed = "yes"
    /\ at' = 1
    /\ changed' = "no"
    /\ UNCHANGED <<deps, act, before, st, runStatus>>

Return ==
    /\ at = Count + 1
    /\ changed = "no"
    /\ changed' = "done"
    /\ UNCHANGED <<deps, act, before, st, runStatus, at>>

Next == Visit \/ NextPass \/ Return

Spec == Init /\ [][Next]_vars /\ WF_vars(Next)

(* Whatever order the passes meet the nodes in, the loop ends with the one *)
(* assignment Settlements describes, and the run status it leaves is the   *)
(* refresh of that assignment: no intermediate refresh shows.              *)
LoopSettles ==
    changed = "done" =>
        /\ Plan!Settlements(before) = {st}
        /\ runStatus = IF st = before THEN "running"
                       ELSE Plan!RefreshRunStatus(st, "running")

(* The repeated passes come to an end. *)
LoopEnds == <>(changed = "done")
=============================================================================
