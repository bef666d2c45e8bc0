---------------------------- MODULE RuntimeExecutor ----------------------------
(***************************************************************************)
(* One task and its durable Agent Runtime run, executed by workers that    *)
(* may crash or lose their lease, and steered by the task control API.     *)
(*                                                                         *)
(* The parts of apps/api/app it models together: RuntimeController.run     *)
(* and PlanExecutor.execute (runtime/), the checkpoint transaction of      *)
(* RuntimePersistenceHooks with the compare-and-swap of AgentRunRepository *)
(* .save_checkpoint, run restore and finalization, the task lease, the     *)
(* commit and failure of the task, and pause / approve / resume /          *)
(* reconcile of TaskControlService.                                        *)
(*                                                                         *)
(* A step of a worker is what one coroutine does from one database         *)
(* transaction to the end of the next one; everything it computes in       *)
(* between lives in mem[w] and is lost with the process.                   *)
(***************************************************************************)
EXTENDS RuntimePlan, Integers

CONSTANTS
    Worker,          \* processes that execute tasks
    NoWorker,        \* task.execution_owner is NULL
    Gone,            \* task.execution_owner names a process that has died
    Handler,         \* registered handler ids
    NoHandler,       \* no approval scope
    HandlerOf,       \* node -> its handler_id
    NeedsApproval,   \* handlers whose descriptor has requires_approval
    SideEffecting,   \* ... side_effecting
    ReplaySafe,      \* ... replay_safe
    PoolOf,          \* node -> the budget counter RuntimeBudget.reserve charges
    MaxCalls,        \* counter -> its limit
    MaxRetries,      \* node.max_retries
    MaxParallelism,  \* plan.max_parallelism
    Outcomes,        \* how a handler call may end: terminal statuses, "error"
    Provider,        \* "goal": EXECUTE names every node; "stepwise": one node
    MaxFaults        \* bound: crashes and missed heartbeats in a behaviour

Pool == {"model", "tool", "subagent"}
RunStatus == {"absent", "created", "running", "waiting_approval", "paused",
              "completed", "failed"}
TaskStatus == {"queued", "running", "waiting_user", "waiting_review",
               "completed", "failed"}
Scope == Handler \cup {NoHandler}

ExecutorAssumption ==
    /\ NoWorker \notin Worker /\ Gone \notin Worker /\ NoWorker # Gone
    /\ NoHandler \notin Handler
    /\ HandlerOf \in [Node -> Handler]
    /\ NeedsApproval \subseteq Handler
    /\ SideEffecting \subseteq Handler
    /\ ReplaySafe \subseteq Handler
    /\ PoolOf \in [Node -> Pool \cup {"none"}]
    /\ MaxCalls \in [Pool -> Nat]
    /\ MaxRetries \in Nat
    /\ MaxParallelism \in Nat \ {0}
    /\ Outcomes \subseteq {"succeeded", "partial", "skipped", "failed", "error"}
    /\ Provider \in {"goal", "stepwise"}
    /\ MaxFaults \in Nat

ASSUME ExecutorValid == ExecutorAssumption

VARIABLES
    run,       \* the stored checkpoint: the AgentRun as last saved
    control,   \* columns control_request / control_data of the run's row
    task,      \* status, execution_owner and lease of the task's row
    current,   \* workers whose in-memory state_version equals the stored one
    pc,        \* where each worker is in controller.run / executor.execute
    mem,       \* the AgentRun each worker holds in memory
    selected,  \* node_ids of the EXECUTE decision a worker carries out
    batch,     \* nodes of the batch a worker started
    todo,      \* ... those whose handler it has not called yet
    denied,    \* ... those the budget refused
    faults,    \* crashes and missed heartbeats so far
    invoked,   \* history: calls of each node's handler
    credit,    \* history: approvals granted for each handler, less its calls
    consumed,  \* history: handler calls, per budget counter
    inherited  \* history: nodes a claim found in flight and may replay, per counter

durable == <<run, control, task>>
working == <<selected, batch, todo, denied>>
history == <<invoked, credit, consumed, inherited>>
vars == <<durable, current, pc, mem, working, faults, history>>

Pcs == {"idle", "control", "verify", "decide", "enter", "loop", "dispatch",
        "finish", "failing"}

-----------------------------------------------------------------------------
(* The AgentRun a plan starts from (contracts.py, AgentRun defaults). *)
NewRun(status) ==
    [status |-> status, node |-> [n \in Node |-> "pending"],
     attempt |-> [n \in Node |-> 0], stuck |-> {}, replay |-> {},
     calls |-> [p \in Pool |-> 0], asked |-> NoHandler,
     request |-> "none", grant |-> NoHandler]

Init ==
    /\ run = NewRun("absent")
    /\ control = [request |-> "none", grant |-> NoHandler]
    /\ task = [status |-> "queued", owner |-> NoWorker, leased |-> FALSE]
    /\ current = {}
    /\ pc = [w \in Worker |-> "idle"]
    /\ mem = [w \in Worker |-> NewRun("absent")]
    /\ selected = [w \in Worker |-> {}]
    /\ batch = [w \in Worker |-> {}]
    /\ todo = [w \in Worker |-> {}]
    /\ denied = [w \in Worker |-> {}]
    /\ faults = 0
    /\ invoked = [n \in Node |-> 0]
    /\ credit = [h \in Handler |-> 0]
    /\ consumed = [p \in Pool |-> 0]
    /\ inherited = [p \in Pool |-> 0]

TaskOver == task.status \in {"completed", "failed"}

First(n, S) == n \in S /\ \A m \in S : n <= m
Ready(m) == {n \in Node : m.node[n] = "ready"}
Inflight(m) == {n \in Node : m.node[n] = "running"}
MayReplay(n) == HandlerOf[n] \in ReplaySafe
RetryUnsafe(n) == HandlerOf[n] \in SideEffecting \ ReplaySafe

-----------------------------------------------------------------------------
(***************************************************************************)
(* The checkpoint transaction.  _merge_control_data folds what the API     *)
(* wrote into the run's row into the run about to be saved;                *)
(* _project_waiting_status carries the run status over to the task;        *)
(* save_checkpoint refuses a run whose state_version is not the stored     *)
(* one, and the exception leaves controller and executor for the task      *)
(* engine's failure path.                                                  *)
(***************************************************************************)
Merged(m) ==
    LET consumes == m.status = "running" /\ m.grant = NoHandler IN
    [m EXCEPT
        !.request = IF \/ m.status = "paused"
                       \/ consumes /\ control.grant # NoHandler
                    THEN "none" ELSE control.request,
        !.grant = IF consumes \/ m.grant # NoHandler THEN m.grant
                  ELSE control.grant]

ProjectedAsReview(runStatus) ==         \* variant: a pause waits for a review
    IF runStatus \in {"paused", "waiting_approval"} THEN "waiting_review"
    ELSE task.status

Projected(runStatus) ==
    IF runStatus = "paused" THEN "waiting_user"
    ELSE IF runStatus = "waiting_approval" THEN "waiting_review"
    ELSE IF runStatus = "running" /\ task.status \in {"waiting_user", "waiting_review"}
         THEN "running"
    ELSE task.status

(* Once execute(task_id) has returned or raised, the process has no run. *)
Forget(w) == mem' = [mem EXCEPT ![w] = NewRun("absent")]

StoreRow(m) == run' = m /\ control' = [request |-> m.request, grant |-> m.grant]

CheckpointUnversioned(w, m, next) ==    \* variant: no comparison of state_version
    /\ StoreRow(Merged(m))
    /\ task' = [task EXCEPT !.status = Projected(m.status)]
    /\ pc' = [pc EXCEPT ![w] = next]
    /\ mem' = [mem EXCEPT ![w] = Merged(m)]
    /\ current' = {w}

Checkpoint(w, m, next) ==
    \/ /\ w \in current
       /\ StoreRow(Merged(m))
       /\ task' = [task EXCEPT !.status = Projected(m.status)]
       /\ pc' = [pc EXCEPT ![w] = next]
       /\ IF next \in {"idle", "failing"}
          THEN Forget(w) /\ current' = {}
          ELSE mem' = [mem EXCEPT ![w] = Merged(m)] /\ current' = {w}
    \/ /\ w \notin current
       /\ pc' = [pc EXCEPT ![w] = "failing"]
       /\ Forget(w)
       /\ UNCHANGED <<durable, current>>

(* The step changes only the worker's memory: nothing to persist yet. *)
Locally(w, m, next) ==
    /\ mem' = [mem EXCEPT ![w] = m]
    /\ pc' = [pc EXCEPT ![w] = next]
    /\ UNCHANGED <<durable, current>>

FinalizedRunningOnly(m, status) ==      \* variant: open nodes are left open
    [m EXCEPT !.status = status, !.stuck = {},
              !.node = [n \in Node |-> IF @[n] = "running" THEN "failed" ELSE @[n]]]

(* RuntimeRunLifecycleService.finalize: no open or running node is left. *)
Finalized(m, status) ==
    [m EXCEPT !.status = status,
              !.node = [n \in Node |->
                          IF m.node[n] = "running" THEN "failed"
                          ELSE IF m.node[n] \in Open THEN "blocked"
                          ELSE m.node[n]],
              !.stuck = {}]

-----------------------------------------------------------------------------
CanStart(w) == task.owner \in {NoWorker, w} \/ ~task.leased

(* TaskLeaseManager.mark_running. *)
MarkRunning(w) == task' = [status |-> "running", owner |-> w, leased |-> TRUE]

(* RuntimeRunLifecycleService.start: the worker's copy is the new run, or   *)
(* the last checkpoint with what the API wrote into the row since.          *)
StartOrRestore(w) ==
    LET stored == [run EXCEPT !.status = IF @ = "absent" THEN "created" ELSE @] IN
    /\ run' = stored
    /\ mem' = [mem EXCEPT ![w] = [stored EXCEPT !.request = control.request,
                                                !.grant = control.grant]]
    /\ current' = current \cup {w}

(* Worker w takes the queued task. *)
Claim(w) ==
    /\ pc[w] = "idle"
    /\ task.status = "queued"
    /\ CanStart(w)
    /\ MarkRunning(w)
    /\ StartOrRestore(w)
    /\ pc' = [pc EXCEPT ![w] = "control"]
    /\ inherited' = [p \in Pool |-> inherited[p] + Cardinality(
                        {n \in Inflight(run) : MayReplay(n) /\ PoolOf[n] = p})]
    /\ UNCHANGED <<control, working, faults, invoked, credit, consumed>>

(* controller.run 79-89: a requested pause is checkpointed and ends the run. *)
ConsultControl(w) ==
    /\ pc[w] = "control"
    /\ IF control.request = "pause"
       THEN Checkpoint(w, [mem[w] EXCEPT !.status = "paused", !.asked = NoHandler],
                       "idle")
       ELSE Locally(w, mem[w], IF Provider = "goal" THEN "verify" ELSE "decide")
    /\ UNCHANGED <<working, faults, history>>

(* controller.run 90-93: only the goal runtime has a verifier; recording    *)
(* its observation checkpoints the run with the status it was restored in.  *)
Verify(w) ==
    /\ pc[w] = "verify"
    /\ Checkpoint(w, mem[w], "decide")
    /\ UNCHANGED <<working, faults, history>>

(***************************************************************************)
(* The decision providers.  The goal runtime looks at every node and       *)
(* executes all of them; a stepwise runtime looks at the first node that   *)
(* has not been achieved and executes that one.  Neither has a replan to   *)
(* fall back on here (no fallback capability, max_iterations = 1), so a    *)
(* failure ends the run.                                                   *)
(***************************************************************************)
Unachieved(m) == {n \in Node : m.node[n] \notin Achieved}
ObservedAll(m) == Unachieved(m)         \* variant: a stepwise runtime names them all
Observed(m) == IF Provider = "goal" THEN Unachieved(m)
               ELSE {n \in Node : First(n, Unachieved(m))}
MustFail(m) == \E n \in Observed(m) : m.node[n] \in {"failed", "partial"}

DecideFail(w) ==
    /\ pc[w] = "decide"
    /\ MustFail(mem[w])
    /\ Checkpoint(w, [mem[w] EXCEPT !.status = "failed", !.asked = NoHandler],
                  "failing")
    /\ UNCHANGED <<working, faults, history>>

DecideFinish(w) ==
    /\ pc[w] = "decide"
    /\ Unachieved(mem[w]) = {}
    /\ Checkpoint(w, [mem[w] EXCEPT !.status = "completed", !.asked = NoHandler],
                  "finish")
    /\ UNCHANGED <<working, faults, history>>

(* apply_decision makes every PENDING node it names READY. *)
DecideExecute(w) ==
    LET named == IF Provider = "goal" THEN Node ELSE Observed(mem[w]) IN
    /\ pc[w] = "decide"
    /\ ~MustFail(mem[w])
    /\ Unachieved(mem[w]) # {}
    /\ selected' = [selected EXCEPT ![w] = named]
    /\ Locally(w, [mem[w] EXCEPT
                     !.status = "running",
                     !.asked = NoHandler,
                     !.node = [n \in Node |-> IF n \in named /\ @[n] = "pending"
                                              THEN "ready" ELSE @[n]]],
               "enter")
    /\ UNCHANGED <<batch, todo, denied, faults, history>>

-----------------------------------------------------------------------------
(***************************************************************************)
(* PlanExecutor.execute, entry.  A node found RUNNING was started by a     *)
(* process that is gone.  _recover_inflight makes it READY again if its    *)
(* handler may be replayed, keeping its paid budget; any other such node   *)
(* stays RUNNING, marked for reconciliation, and the run pauses.           *)
(***************************************************************************)
Interrupted(w) == Inflight(mem[w]) \cap selected[w]
ReplayableOnceMarked(w) ==              \* variant: resuming counts as reconciling
    {n \in Interrupted(w) : HandlerOf[n] \in ReplaySafe \/ n \in mem[w].stuck}
Replayable(w) == {n \in Interrupted(w) : MayReplay(n)}

Recovering(w) ==
    [mem[w] EXCEPT
        !.node = [n \in Node |-> IF n \in Replayable(w) THEN "ready" ELSE @[n]],
        !.replay = @ \cup Replayable(w),
        !.stuck = @ \cup (Interrupted(w) \ Replayable(w))]

PauseForReconciliation(w) ==
    /\ pc[w] = "enter"
    /\ Interrupted(w) # Replayable(w)
    /\ Checkpoint(w, [Recovering(w) EXCEPT !.status = "paused", !.asked = NoHandler],
                  "idle")
    /\ selected' = [selected EXCEPT ![w] = {}]
    /\ UNCHANGED <<batch, todo, denied, faults, history>>

(* executor.py 81-85: mark_ready, block_unreachable_nodes, and a checkpoint *)
(* if either changed a status.                                              *)
Prepare(w) ==
    /\ pc[w] = "enter"
    /\ Interrupted(w) = Replayable(w)
    /\ \E final \in Settlements(MarkReady(Recovering(w).node, selected[w])) :
          LET settled == final # MarkReady(Recovering(w).node, selected[w])
              m == [Recovering(w) EXCEPT
                      !.node = final,
                      !.status = IF settled THEN RefreshRunStatus(final, "running")
                                 ELSE "running"]
          IN IF final # Recovering(w).node
             THEN Checkpoint(w, m, "loop")
             ELSE Locally(w, m, "loop")
    /\ UNCHANGED <<working, faults, history>>

-----------------------------------------------------------------------------
(* executor.py 86-98: nothing is left to start; back in controller.run the *)
(* run is over if it completed and no node ended PARTIAL.                  *)
Startable(w) == Ready(mem[w]) \cap selected[w]

ReturnToController(w) ==
    /\ pc[w] = "loop"
    /\ Startable(w) = {}
    /\ selected' = [selected EXCEPT ![w] = {}]
    /\ Locally(w, mem[w],
               IF /\ mem[w].status = "completed"
                  /\ \A n \in Node : mem[w].node[n] # "partial"
               THEN "finish" ELSE "control")
    /\ UNCHANGED <<batch, todo, denied, faults, history>>

PrivilegedUngranted(w) ==               \* variant: a grant opens every node it names
    {n \in Startable(w) : HandlerOf[n] \in NeedsApproval \ {mem[w].grant}}
(* _gate_approval.  A grant opens exactly one of the nodes it names. *)
Privileged(w) == {n \in Startable(w) : HandlerOf[n] \in NeedsApproval}
Granted(w) == {n \in Privileged(w) : HandlerOf[n] = mem[w].grant}

RequestApproval(w) ==
    /\ pc[w] = "loop"
    /\ Granted(w) = {}
    /\ \E n \in Node :
          /\ First(n, Privileged(w))
          /\ Checkpoint(w, [mem[w] EXCEPT !.status = "waiting_approval",
                                          !.asked = HandlerOf[n],
                                          !.grant = NoHandler], "idle")
    /\ selected' = [selected EXCEPT ![w] = {}]
    /\ UNCHANGED <<batch, todo, denied, faults, history>>

(***************************************************************************)
(* executor.py 106-135.  The batch is the first MaxParallelism of the      *)
(* eligible nodes, the granted one (lead; 0: none) in front.  In that      *)
(* order each node is started and, unless it replays a paid attempt,       *)
(* charged; a node whose counter is exhausted is started all the same and  *)
(* only its handler call is withheld.  The checkpoint precedes the calls.  *)
(***************************************************************************)
Ahead(S, lead, n) == {m \in S : m # n /\ (m = lead \/ (n # lead /\ m < n))}
ChargedNever(S, p, replay) == {}        \* variant: the reservation is not recorded
Charged(S, p, replay) == {n \in S \ replay : PoolOf[n] = p}
Lower(a, b) == IF a < b THEN a ELSE b

StartBatch(w, lead) ==
    LET m == mem[w]
        eligible == IF lead = 0 THEN Startable(w)
                    ELSE {lead} \cup (Startable(w) \ Privileged(w))
        chosen == {n \in eligible : Cardinality(Ahead(eligible, lead, n)) < MaxParallelism}
        refused == {n \in chosen \ m.replay :
                      /\ PoolOf[n] # "none"
                      /\ m.calls[PoolOf[n]] + Cardinality(
                           Charged(Ahead(chosen, lead, n), PoolOf[n], m.replay))
                           >= MaxCalls[PoolOf[n]]}
        started == [m EXCEPT
            !.status = "running",
            !.node = [n \in Node |-> IF n \in chosen THEN "running" ELSE @[n]],
            !.attempt = [n \in Node |-> IF n \in chosen
                                        THEN Lower(@[n] + 1, MaxRetries + 1) ELSE @[n]],
            !.replay = @ \ chosen,
            !.calls = [p \in Pool |->
                         @[p] + Cardinality(Charged(chosen \ refused, p, m.replay))],
            !.grant = IF lead = 0 THEN @ ELSE NoHandler]
    IN
    /\ pc[w] = "loop"
    /\ Startable(w) # {}
    /\ IF Privileged(w) = {} THEN lead = 0 ELSE First(lead, Granted(w))
    /\ Checkpoint(w, started, "dispatch")
    /\ IF w \in current
       THEN /\ batch' = [batch EXCEPT ![w] = chosen]
            /\ todo' = [todo EXCEPT ![w] = chosen \ refused]
            /\ denied' = [denied EXCEPT ![w] = refused]
       ELSE UNCHANGED <<batch, todo, denied>>
    /\ UNCHANGED <<selected, faults, history>>

(* start_node refuses to start a node once the budget's deadline passed. *)
DeadlineExceeded(w) ==
    /\ pc[w] = "loop"
    /\ Startable(w) # {}
    /\ Privileged(w) = {} \/ Granted(w) # {}
    /\ pc' = [pc EXCEPT ![w] = "failing"]
    /\ Forget(w)
    /\ current' = current \ {w}
    /\ UNCHANGED <<durable, working, faults, history>>

(* _execute_batch: the handlers of the batch run concurrently; a call has  *)
(* its external effect when it is made, whatever becomes of its result.    *)
Invoke(w, n) ==
    /\ pc[w] = "dispatch"
    /\ n \in todo[w]
    /\ todo' = [todo EXCEPT ![w] = @ \ {n}]
    /\ invoked' = [invoked EXCEPT ![n] = @ + 1]
    /\ credit' = [credit EXCEPT ![HandlerOf[n]] = @ - 1]
    /\ consumed' = [p \in Pool |-> IF PoolOf[n] = p THEN consumed[p] + 1
                                   ELSE consumed[p]]
    /\ UNCHANGED <<durable, current, pc, mem, selected, batch, denied, faults, inherited>>

AfterResultRetrying(m, n, result) ==    \* variant: side effects are retried too
    IF result # "error" THEN result
    ELSE IF m.attempt[n] > MaxRetries THEN "failed" ELSE "ready"

(* executor.py 149-162 with _handle_failure: every result of the batch is  *)
(* applied, what it makes unreachable is settled, what it makes ready is   *)
(* marked, and the outcome is checkpointed.                                *)
AfterResult(m, n, result) ==
    IF result # "error" THEN result
    ELSE IF RetryUnsafe(n) \/ m.attempt[n] > MaxRetries THEN "failed"
    ELSE "ready"

Collect(w) ==
    /\ pc[w] = "dispatch"
    /\ todo[w] = {}
    /\ \E result \in [batch[w] \ denied[w] -> Outcomes] :
          LET m == mem[w]
              applied == [n \in Node |->
                            IF n \in denied[w] THEN AfterResult(m, n, "error")
                            ELSE IF n \in batch[w] THEN AfterResult(m, n, result[n])
                            ELSE m.node[n]]
          IN \E final \in Settlements(applied) :
               Checkpoint(w, [m EXCEPT
                                !.node = MarkReady(final, Node),
                                !.status = RefreshRunStatus(final, "running"),
                                !.stuck = @ \ batch[w],
                                !.replay = @ \ batch[w]], "loop")
    /\ batch' = [batch EXCEPT ![w] = {}]
    /\ denied' = [denied EXCEPT ![w] = {}]
    /\ UNCHANGED <<selected, todo, faults, history>>

-----------------------------------------------------------------------------
(* TaskCompletionService.commit: task and run become completed together. *)
Finish(w) ==
    /\ pc[w] = "finish"
    /\ Forget(w)
    /\ IF w \in current
       THEN /\ StoreRow(Finalized(mem[w], "completed"))
            /\ task' = [task EXCEPT !.status = "completed", !.leased = FALSE]
            /\ current' = {}
            /\ pc' = [pc EXCEPT ![w] = "idle"]
       ELSE /\ pc' = [pc EXCEPT ![w] = "failing"]
            /\ UNCHANGED <<durable, current>>
    /\ UNCHANGED <<working, faults, history>>

(* ensure_terminal_success: the result does not qualify for completion. *)
RefuseResult(w) ==
    /\ pc[w] = "finish"
    /\ pc' = [pc EXCEPT ![w] = "failing"]
    /\ Forget(w)
    /\ current' = current \ {w}
    /\ UNCHANGED <<durable, working, faults, history>>

(* TaskFailureService.fail: whoever owns the task, unless it has completed. *)
FailTask(w) ==
    /\ pc[w] = "failing"
    /\ pc' = [pc EXCEPT ![w] = "idle"]
    /\ Forget(w)
    /\ IF task.status = "completed"
       THEN UNCHANGED durable
       ELSE /\ StoreRow(Finalized(run, "failed"))
            /\ task' = [task EXCEPT !.status = "failed", !.leased = FALSE]
    /\ current' = IF task.status = "completed" THEN current ELSE {}
    /\ selected' = [selected EXCEPT ![w] = {}]
    /\ UNCHANGED <<batch, todo, denied, faults, history>>

-----------------------------------------------------------------------------
(***************************************************************************)
(* Processes and leases.  A process that dies loses its memory and its     *)
(* name: execution_owner is drawn afresh when it starts again.  A lease    *)
(* runs out when nobody renews it, or, a fault, because the heartbeat of   *)
(* an executing worker failed.                                             *)
(***************************************************************************)
Crash(w) ==
    /\ faults < MaxFaults
    /\ pc[w] # "idle" \/ task.owner = w
    /\ faults' = faults + 1
    /\ pc' = [pc EXCEPT ![w] = "idle"]
    /\ Forget(w)
    /\ current' = current \ {w}
    /\ selected' = [selected EXCEPT ![w] = {}]
    /\ batch' = [batch EXCEPT ![w] = {}]
    /\ todo' = [todo EXCEPT ![w] = {}]
    /\ denied' = [denied EXCEPT ![w] = {}]
    /\ task' = IF task.owner = w THEN [task EXCEPT !.owner = Gone] ELSE task
    /\ UNCHANGED <<run, control, history>>

HeartbeatRuns == /\ task.status = "running"
                 /\ \E w \in Worker : task.owner = w /\ pc[w] # "idle"

LeaseLapses ==
    /\ task.leased
    /\ ~HeartbeatRuns
    /\ task' = [task EXCEPT !.leased = FALSE]
    /\ UNCHANGED <<run, control, current, pc, mem, working, faults, history>>

HeartbeatFails ==
    /\ task.leased
    /\ HeartbeatRuns
    /\ faults < MaxFaults
    /\ faults' = faults + 1
    /\ task' = [task EXCEPT !.leased = FALSE]
    /\ UNCHANGED <<run, control, current, pc, mem, working, history>>

RecoverQueuedOnly(w) ==                 \* variant: expired running tasks are skipped
    /\ task.status = "queued"
    /\ task.owner = NoWorker \/ ~task.leased
    /\ task' = [task EXCEPT !.owner = w, !.leased = TRUE]
    /\ UNCHANGED <<run, control, current, pc, mem, working, faults, history>>

Recoverable == \/ task.status = "queued" /\ (task.owner = NoWorker \/ ~task.leased)
               \/ task.status = "running" /\ ~task.leased

(* TaskLeaseManager.recover over TaskRepository.list_recoverable. *)
RecoverTask(w) ==
    /\ Recoverable
    /\ task' = [status |-> "queued", owner |-> w, leased |-> TRUE]
    /\ UNCHANGED <<run, control, current, pc, mem, working, faults, history>>

-----------------------------------------------------------------------------
(* TaskControlService.  request_control overwrites both columns of the row. *)
RequestControl(request, grant) == control' = [request |-> request, grant |-> grant]

Pause ==
    /\ ~TaskOver
    /\ run.status \in {"created", "running"}
    /\ RequestControl("pause", NoHandler)
    /\ UNCHANGED <<run, task, current, pc, mem, working, faults, history>>

Unanswered ==
    /\ run.status = "waiting_approval"
    /\ run.grant = NoHandler
    /\ control.grant = NoHandler

Approve ==
    /\ Unanswered
    /\ RequestControl("none", run.asked)
    /\ task' = [task EXCEPT !.status = "queued"]
    /\ credit' = [credit EXCEPT ![run.asked] = @ + 1]
    /\ UNCHANGED <<run, current, pc, mem, working, faults, invoked, consumed, inherited>>

Reject ==
    /\ Unanswered
    /\ StoreRow([run EXCEPT !.status = "paused", !.request = "none"])
    /\ task' = [task EXCEPT !.status = "waiting_user"]
    /\ current' = {}
    /\ UNCHANGED <<pc, mem, working, faults, history>>

Resume ==
    /\ run.status = "paused"
    /\ RequestControl("none", IF control.grant # NoHandler THEN control.grant
                              ELSE run.grant)
    /\ task' = [task EXCEPT !.status = "queued"]
    /\ UNCHANGED <<run, current, pc, mem, working, faults, history>>

(* The operator states what became of the external effect of node n. *)
Reconcile(n, outcome) ==
    /\ ~TaskOver
    /\ run.status = "paused"
    /\ n \in run.stuck
    /\ run.node[n] = "running"
    /\ StoreRow([run EXCEPT !.node[n] = outcome,
                            !.stuck = @ \ {n},
                            !.request = "none",
                            !.grant = IF @ # NoHandler THEN @ ELSE control.grant])
    /\ task' = [task EXCEPT !.status = "queued"]
    /\ current' = {}
    /\ UNCHANGED <<pc, mem, working, faults, history>>

-----------------------------------------------------------------------------
Execute(w) ==
    \/ ConsultControl(w) \/ Verify(w)
    \/ DecideFail(w) \/ DecideFinish(w) \/ DecideExecute(w)
    \/ PauseForReconciliation(w) \/ Prepare(w)
    \/ ReturnToController(w) \/ RequestApproval(w)
    \/ \E lead \in {0} \cup Node : StartBatch(w, lead)
    \/ \E n \in Node : Invoke(w, n)
    \/ Collect(w) \/ Finish(w) \/ FailTask(w)

User ==
    \/ Pause \/ Approve \/ Reject \/ Resume
    \/ \E n \in Node : \E outcome \in {"succeeded", "failed"} : Reconcile(n, outcome)

(* The task is over and no worker is left on it. *)
Rest ==
    /\ TaskOver
    /\ \A w \in Worker : pc[w] = "idle"
    /\ UNCHANGED vars

Next ==
    \/ \E w \in Worker : Claim(w) \/ Execute(w) \/ DeadlineExceeded(w)
                         \/ RefuseResult(w) \/ Crash(w) \/ RecoverTask(w)
    \/ LeaseLapses \/ HeartbeatFails
    \/ User \/ Rest

Spec == Init /\ [][Next]_vars

(***************************************************************************)
(* A coroutine that is not waiting for anybody goes on; queued tasks are   *)
(* dispatched to some worker, the recovery loop runs again and again, and  *)
(* time passes.  Nothing is assumed of users, faults and deadlines.        *)
(***************************************************************************)
Fairness ==
    /\ \A w \in Worker : WF_vars(Execute(w))
    /\ WF_vars(\E w \in Worker : Claim(w))
    /\ WF_vars(\E w \in Worker : RecoverTask(w))
    /\ WF_vars(LeaseLapses)

FairSpec == Spec /\ Fairness

-----------------------------------------------------------------------------
Run == [status : RunStatus, node : [Node -> NodeStatus],
        attempt : [Node -> 0 .. MaxRetries + 1],
        stuck : SUBSET Node, replay : SUBSET Node, calls : [Pool -> Nat],
        asked : Scope, request : {"none", "pause"}, grant : Scope]

(* Every variable keeps its type. *)
TypeOK ==
    /\ run \in Run
    /\ control \in [request : {"none", "pause"}, grant : Scope]
    /\ task \in [status : TaskStatus, owner : Worker \cup {NoWorker, Gone},
                 leased : BOOLEAN]
    /\ current \in SUBSET Worker
    /\ pc \in [Worker -> Pcs]
    /\ mem \in [Worker -> Run]
    /\ selected \in [Worker -> SUBSET Node]
    /\ batch \in [Worker -> SUBSET Node]
    /\ todo \in [Worker -> SUBSET Node]
    /\ denied \in [Worker -> SUBSET Node]
    /\ faults \in Nat
    /\ invoked \in [Node -> Nat]
    /\ credit \in [Handler -> Int]
    /\ consumed \in [Pool -> Nat]
    /\ inherited \in [Pool -> Nat]

-----------------------------------------------------------------------------
(* Every node was achieved, or its failure was made good.                  *)
MadeGood(m) == \A n \in Node : \/ m.node[n] \in Achieved
                               \/ m.node[n] \in Broken /\ n \in Recovered(m.node)

(* A call that has a side effect and must not be replayed is made at most  *)
(* once, whatever crashes, lost leases, retries and resumptions happen     *)
(* between the RUNNING checkpoint, the call and the checkpoint of its      *)
(* result (_recover_inflight, _handle_failure and the compare-and-swap).   *)
AtMostOnce == \A n \in Node : RetryUnsafe(n) => invoked[n] <= 1

(* Every call of a handler that requires approval spends an approval of    *)
(* its own for that handler: no grant is used twice, survives its use      *)
(* through a pause, a restart or another worker, or opens a second node of *)
(* the batch (_gate_approval, _merge_control_data).                        *)
ApprovalPerCall == \A h \in NeedsApproval : credit[h] >= 0

(* No more calls reach a handler than the run's budget allows, but one for *)
(* each node that a worker who took the task over found in flight and may  *)
(* replay: the reservation precedes the RUNNING checkpoint, and the mark   *)
(* that spares a replay its reservation is good for one start              *)
(* (RuntimeBudget.reserve, _recover_inflight, executor.py 109-135).        *)
BudgetBound == \A p \in Pool : consumed[p] <= MaxCalls[p] + inherited[p]

(* A node runs, or has produced a result, only when its activation was     *)
(* satisfied: what it depends on was over before it, and as required       *)
(* (_activation_satisfied).                                                *)
DependencyOrder ==
    \A n \in Node : run.node[n] \in {"running", "succeeded", "partial"}
                        => ActivationSatisfied(n, run.node)

(* A task that waits, with no worker on it, accepts the control it waits   *)
(* for; recovery never looks at it, so nothing else will move it           *)
(* (_project_waiting_status, _resume_runtime, list_recoverable).           *)
WaitingIsAnswerable ==
    (\A w \in Worker : pc[w] = "idle") =>
        /\ task.status = "waiting_review" => Unanswered
        /\ task.status = "waiting_user" => run.status = "paused"

(* A task that is over left a run that is over, and a completed one left   *)
(* every node achieved, or broken and made good by the recovery node that  *)
(* succeeded for it, whichever worker committed or failed the task.        *)
TerminalTaskSettled ==
    TaskOver =>
        /\ run.status = task.status
        /\ \A n \in Node : run.node[n] \in Terminal
        /\ task.status = "completed" => MadeGood(run)

(* A node waiting for reconciliation is settled by the operator or by the  *)
(* end of the task, never put back to work: it stays in flight until then, *)
(* and no new attempt at it begins (_recover_inflight, reconcile).         *)
NoImplicitReplay ==
    [][\A n \in run.stuck :
          /\ run'.attempt[n] = run.attempt[n]
          /\ \/ n \in run'.stuck /\ run'.node[n] = "running"
             \/ run'.node[n] \in {"succeeded", "failed"}]_vars

(* What a checkpoint said of a finished node is never taken back, and the  *)
(* budget spent is never given back, by any worker, however late.          *)
HistoryKept ==
    [][/\ \A n \in Node : run.node[n] \in Terminal => run'.node[n] = run.node[n]
       /\ \A p \in Pool : run'.calls[p] >= run.calls[p]]_vars

(* A task that is queued or running comes to rest: over, or waiting for    *)
(* its user.                                                               *)
Progress == task.status \in {"queued", "running"}
                ~> task.status \notin {"queued", "running"}
=============================================================================
