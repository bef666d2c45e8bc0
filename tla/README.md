# Formal models of the durable Agent Runtime

These modules specify the part of 芯智导学 (xinzhi-daoxue) on which the correctness of
every request rests: the durable Agent Runtime of the API server (`src/apps/api/app`) and
the queue worker in front of it. A request becomes a *task*; a worker executes the task as
an *Agent Runtime run*, a plan of nodes whose progress is checkpointed in PostgreSQL after
every step, so that a run survives crashes, lost leases, pauses, approvals and operator
intervention. TLC checks the models on small instances; TLAPS proves theorems about them
for every instance. All paths below are relative to `src/apps/api/app/` unless they say
otherwise.

## 1. The system

| Part | State | Operations | Correct when |
| --- | --- | --- | --- |
| Node state machine (`runtime/state_machine.py`) | status and attempt of each node, run status | ready, start, complete, retry, block, skip, refresh, apply a decision | a node runs after what it depends on; blocking reaches its fixpoint in any plan order; the run status follows the nodes |
| Contracts (`runtime/contracts.py`) | the plan, `AgentRun`, `RuntimeBudget` | plan validation, `reserve`, `allocate_child`, `absorb_child` | plans are acyclic; limits are never exceeded |
| Plan executor (`runtime/executor.py`) | none of its own: the `AgentRun` in memory | recover in-flight nodes, gate approvals, start and run batches, apply results, checkpoint | no side effect twice; one approval per privileged call; no call beyond the budget |
| Controller (`runtime/controller.py`) | the run, the number of decisions | control, verify, decide, execute, replan | ends in completed, failed, suspended or paused, with that checkpointed |
| Decision providers (`services/generic_goal_runtime.py`, `services/general_question_runtime.py`, other runtimes) | none | `decide`, `verify` | name only work that may be done |
| Checkpoint transaction and repository (`services/runtime_persistence_hooks.py`, `repositories/agent_runtime.py`) | row of the run: state, `state_version`, control columns | merge control data, compare-and-swap, project onto the task, restore, request control | a stale copy never overwrites a newer one; no control is lost or used twice |
| Run lifecycle, preparation, engine, completion, failure (`services/runtime_run_lifecycle.py`, `task_runtime_preparation.py`, `runtime_task_engine.py`, `task_completion.py`, `task_result_commit.py`, `task_failure_service.py`) | rows of run and task | start or restore, suspend, commit, fail, cancel, requeue | task and run end together; the result is committed once |
| Leases and recovery (`application/tasks/leases.py`, `repositories/tasks.py`) | `execution_owner`, `lease_expires_at` | claim, heartbeat, recover | a task whose worker died is taken up again |
| Task control API (`services/task_control_service.py`) | both rows | pause, approve, reject, resume, reconcile, retry, cancel, submit input | a control reaches the run it was meant for, once; a cancellation is not overtaken |
| Coordinator (`application/tasks/coordinator.py`) | active and deferred task ids of a process | submit, recover, shutdown, done callback | no task id is lost; bounded concurrency |
| Queue and worker loop (`services/task_queue.py`, `services/task_worker.py`, `src/apps/worker/worker.py`) | Redis lists, attempt counts, the worker lock | publish, receive, ack, reject, lease, recovery loop | what the transport loses the database recovers; one worker consumes |
| Plan proposals (`services/runtime_plan_proposals.py`) | proposal rows | create, decide, apply, reject | no plan runs that was not reviewed; every review can be given |
| Child runs (`services/runtime_child_run.py`) | child rows, the parent's node and its link to a suspended child | find or create, control, suspend, return, absorb | a result is backed by a completed child, absorbed once, and final |
| Event log and stream (`services/event_service.py`, `services/runtime_persistence_hooks.py`, `event_stream` of `api/v1/tasks.py`) | event rows with a sequence number, the event buffer of a run, the cursor of a stream | append one event or a batch inside the caller's transaction, stream what is behind the cursor | numbers without gap; every event once; the stream ends behind the terminal event |
| Wait of the workspace (`src/apps/web/src/task-transport.ts`) | a promise, an `EventSource`, two poll timers | receive, reconnect, poll, settle, cancel | a task that is over settles the wait |
| Model gateway and circuit breakers (`services/model_service.py`, `services/agent_runtime.py`) | per model alias: failures, time of opening, probe flag | execute a route, allow, record | a breaker opens at its threshold, is probed once after a cooldown and leaves that state |
| Handlers (`runtime/handler_registry.py`) | descriptors | requires_approval, side_effecting, replay_safe | - |

How they interact: the queue hands a task id to the coordinator of one process, which
starts a coroutine. The coroutine takes the lease, restores the run from its row, and
alternates between the controller and the executor. Every checkpoint is one database
transaction that merges what the control API wrote into the row since, compares
`state_version`, and projects the run's status onto the task. Between two transactions
the coroutine works on its own copy. Other coroutines (a second worker after a lease
expired, the recovery loop, API requests) act on the same rows in those gaps. A node of a
run may be a run of its own, with a row, a version and controls of its own, projected onto
the same task.

The hard behaviours: a crash between the checkpoint that marks a node RUNNING and the
one that records its result; two workers that both believe to own the task; a control
that arrives between the read and the write of the run; an approval that is consumed,
merged back or overwritten; a task whose status and run status drift apart; a budget
that is reserved, refused, retried, absorbed and replayed; a proposal decided while its
run is being suspended; a message lost between Redis and the database. `PROJECT.json`
lists each hazard at the line where it bites, with the properties that cover it.

## 2. The modules

| Module | Contents | Proofs |
| --- | --- | --- |
| `RuntimePlan` | The plan and the pure transitions of the node state machine. `Settlements` and `RefreshRunStatus` say what blocking leads to, without its loop. | in `RuntimeExecutor_proofs` |
| `UnreachableNodes` | The loop of `block_unreachable_nodes`, one node visit per step, over all plans of `Count` nodes; it computes `Settlements`. | `UnreachableNodes_proofs` |
| `RuntimeExecutor` | One task and its run: controller, executor, checkpoints, control API, leases, crashes and recovery, for any set of workers. | `RuntimeExecutor_proofs` |
| `DurableTask` | Abstract specification: what the task system promises about a task. | |
| `TaskLifecycle` | Several tasks and processes: creation, coordinator, leases, commit, failure, cancellation, retry, shutdown, restart. Implements `DurableTask`. | `TaskLifecycle_proofs` |
| `TaskQueue` | The Redis transport, the worker loop and the worker lock. | `TaskQueue_proofs` |
| `PlanProposal` | Replanning under review. | `PlanProposal_proofs` |
| `ChildRun` | A parent run and the child runs of one of its nodes. | `ChildRun_proofs` |
| `EventFeed` | Abstract specification: what the workspace is promised about the events and the end of a task. | |
| `TaskStream` | The event log of a task, its server-sent event stream and the browser that waits for the task. Implements `EventFeed`. | `TaskStream_proofs` |
| `ModelRoute` | Concurrent model calls over the aliases of a route, and the circuit breakers they share. | `ModelRoute_proofs` |
| `MC*` | The sets, plans and handler tables of the TLC runs. | |

The modules cut the system by the question they answer, and each says what it abstracts
from the others: for `TaskLifecycle` a run is a status and a version; for `PlanProposal`
the work under a plan is one call; for `ChildRun` the parent is the one node that has
children; for `TaskQueue` an execution is taken and finished; for `TaskStream` a task is
live or over. `RuntimeExecutor` has all of one run and leaves replanning, children and
several tasks to the others.

The definitions that a comment calls *variant* are alternatives to the definition they
precede, each a bug one could have made there. No specification uses them. `PROJECT.json`
pairs them with the property that tells them apart: for every property of every passing
run there is a variant under which TLC finds it violated.

### 2.1 RuntimeExecutor

| Variable | In the program |
| --- | --- |
| `run` | `agent_runs.state`: the `AgentRun` as last checkpointed. Fields: `status`; per node `node` (status) and `attempt`; `stuck` (nodes with `reconciliation_required`); `replay` (nodes with the recovery-replay mark); `calls` (the counters of `RuntimeBudget`); `asked` (the scope of `waiting_reason`); `request`, `grant` (`control_request`, `approval_granted_scope`) |
| `control` | the same two controls in the columns of the row, which `request_control` writes without touching the run |
| `task` | `tasks.status`, `execution_owner`, and whether `lease_expires_at` lies in the future |
| `current` | workers whose copy has the `state_version` of the row; this replaces the number, of which only equality is used |
| `pc`, `mem`, `selected`, `batch`, `todo`, `denied` | the coroutine of each worker: its place, its `AgentRun`, the node ids it was told to execute, the batch in flight, calls not made yet, calls the budget refused |
| `faults` | bound on crashes and failed heartbeats |
| `invoked`, `credit`, `consumed`, `inherited` | history variables: calls of each node's handler, approvals less calls, handler calls per counter, and per counter the nodes that a claim found in flight and may replay. Nothing reads them but properties |

A step of a worker reaches from one transaction to the end of the next. What happens in
between touches only `mem[w]`, so no other actor can tell the steps apart.

| Action | Code |
| --- | --- |
| `Claim` | preparation, `mark_running`, `start` / `restore` |
| `ConsultControl`, `Verify`, `DecideFail`, `DecideFinish`, `DecideExecute` | one pass of `controller.run` |
| `PauseForReconciliation`, `Prepare` | entry of `execute`: `_recover_inflight`, `mark_ready`, `block_unreachable_nodes` |
| `RequestApproval`, `StartBatch`, `Invoke`, `Collect`, `ReturnToController` | the executor's loop: `_gate_approval`, start and reserve, `_execute_batch`, `_handle_failure`, exit |
| `DeadlineExceeded`, `RefuseResult`, `FailTask`, `Finish` | deadline, `ensure_terminal_success`, failure path, commit |
| `Crash`, `LeaseLapses`, `HeartbeatFails`, `RecoverTask` | process death, lease expiry, `recover` |
| `Pause`, `Approve`, `Reject`, `Resume`, `Reconcile` | `TaskControlService` |

`Checkpoint(w, m, next)` is the checkpoint transaction: `Merged` is
`_merge_control_data`, `Projected` is `_project_waiting_status`; a worker that is not
`current` gets the version conflict of `save_checkpoint` and goes to the failure path.

Abstractions. *Data*: inputs, outputs, messages and evidence are left out; what a handler
returns is a member of `Outcomes`, where `error` stands for an exception, a timeout or a
retryable result. `Invoke` is the external effect of a call; its result is chosen when the
batch is collected. *Decisions*: the two providers of the code that differ in control are
the values of `Provider`. The `goal` provider names all nodes in one EXECUTE and its
verifier checkpoints before it decides; a `stepwise` provider names the first unachieved
node and fails on PARTIAL. A node that failed ends the run at once (`MustFail`); for a
failed verification node the code asks for the node again until the limit of 100 decisions
fails the run (`services/general_question_runtime.py:924`), which has the same end and
starts nothing in between. No other run comes near the limit.
*Time*: the deadline of the budget may pass at any start of a batch; a lease expires when
no heartbeat renews it, or when the heartbeat fails. *Delivery*: any idle worker may take
up a queued task at any time, which covers every order, loss and duplication of queue
messages as far as safety goes; `TaskQueue` and `TaskLifecycle` model the dispatch. One
process runs a task at most once at a time: a worker is `idle` or in one execution.
*Attempts* saturate at `MaxRetries + 1`, past which all values behave alike.

### 2.2 TaskLifecycle and DurableTask

| Variable | In the program |
| --- | --- |
| `task` | the row of each task: `status`, `cancellation_requested`, `execution_owner`, whether the lease is in the future, `attempt`, `parent_task_id` |
| `run` | the status of the last checkpoint of the task's run; `live` stands for every status that goes on |
| `hints` | tasks announced for dispatch and not yet handed to a process |
| `mode` | whether a process is up, shutting down or down |
| `job` | the coroutine of each process for each task, a place between two transactions of `RuntimeTaskEngine.execute` |
| `deferred`, `fresh`, `beating` | `_deferred_submissions`; tasks whose stored version the process holds; heartbeat tasks that are alive |

`Deliver`, `JobFinished`, `Enter` are the coordinator's `submit`, done callback and
semaphore; `Prepare`, `Advance`, `Suspend`, `Suspended`, `RunEnds`, `Conflict`, `Commit`,
`Fail`, `RequeueAfterShutdown` the transactions of one execution; `HeartbeatEnds`,
`LeaseLapses`, `HeartbeatLate`, `Recover` the leases; `Shutdown`, `Stop`, `Crash`,
`Restart`, `Orphan` a process; `Create`, `Retry`, `Cancel`, `Answer` the user. `Recover`
requeues the recoverable tasks and submits them in one action, as `coordinator.recover`
does. `Fail` also stands for the end of a worker that finds its run cancelled
(`ProviderCancelledError`, `runtime_task_engine.py:262`): a run is cancelled only with its
task, so the task ends `cancelled` either way. `Retry` leaves out that the failure category
must be retryable (`task_control_service.py:70`) and so allows more retries than the code.
`DurableTask` has a phase per task and the set of tasks whose cancellation was
requested; a task moves among `Live` phases, ends once, with `cancelled` exactly if it was
requested. `Refines` maps the phase to the row's status.

### 2.3 TaskQueue

`pending`, `dead`, `attempts`, `lock` are the Redis list, dead-letter list, attempt hash
and lock key. A worker (`pc`, `hand`, `valid`, `refreshing`) is a program counter over the
Redis calls of `TaskWorker.run` and `RedisTaskQueue`: `Boot` recovers before the lock is
asked for (as `lifespan` does), `AcquireLease`, `Start`, `Receive` and `Count` (BLPOP and
HINCRBY are two calls), `Dispatch`, `Reject` (the read), `Requeue` or `Bury` (the write),
`Forget` (the acknowledgement), `Refresh`, `Exit`. `open` and `taken` are the database's
view. `RedisFails`, `RefreshRaises`, `RefreshLate`, `LockExpires` and `Crash` are the
faults. Redis itself keeps its data.

### 2.4 PlanProposal

`row` is the stored run (version, status, iteration, plan, the proposal at its gate, the
grant, the state of the work), `mem` and `pc` the workers, `proposals` the proposal rows
with `base_state_version` and `state_version`, `screen` what a reviewer read last.
`Decide` and `Execute` are passes of the controller; `Propose` is `create` with its commit;
`Gate` is the controller's suspension checkpoint after it; `Look`, `Review` (`Approve`,
`Reject`) are `GET` and `decide` with `_apply` and `_reject`; `ApproveTask`, `RejectTask`,
`Resume`, `Cancel` are the ordinary controls. A plan is named by the iteration it was built
for. `Labelled` tells the goal runtime, whose plan versions name the iteration, from the
runtimes that keep one version for all plans.

### 2.5 ChildRun

| Variable | In the program |
| --- | --- |
| `parent` | the parent's row from the node on: version, status, node and attempt, the recovery-replay mark (`paid`), sub-agents started, model calls spent, children absorbed, `suspended_child_run_id` (`link`), pause request, grant |
| `children` | the rows of the node's children, oldest first: version, status, node, replay mark, calls, the budget allotted, controls |
| `mem` | each worker: its place, its copy of the parent, the child it has in hand and its copy |

| Action | Code |
| --- | --- |
| `Claim`, `Decide`, `Start`, `Err`, `Suspend` | preparation, the parent's controller, start and reserve, `_handle_failure` for an error and for a suspended nested run |
| `Look`, `Create` | `_load_or_create` |
| `Nest` | the child's controller and executor: `_child_control` (either run's pause), recovery, approval gate, reservation |
| `Note` | the checkpoint of the suspended child after its event |
| `Call`, `Return` | the sub-agent's call with its outcome; `absorb_child`, `_clear_parent_suspension` and the result |
| `TimeOut` | the timeout of the parent's node, which covers all its handler does |
| `Pause`, `Resume`, `Approve`, `Reject`, `Cancel` | the controls; `Reached` is the choice of `_get_controlled_runtime` and of the link the parent keeps |

Sub-agents are without side effects and replay-safe, as are all that `main.py` and
`general_question_runtime.py` register. `Approval` is the definition's
`requires_approval`, FALSE for those in production; the code handles both, and so does the
model. With one parent node there is one child at a time unless a failed one is replaced
or two workers each create one. `Reached` follows the link in the parent's row; a link that
survives only in the checkpoint's `control_data` and is merged back by a control
(`task_control_service.py:521`) is left out, and matters only to a user who names no run.

### 2.6 ModelRoute

Every handler that needs a model calls it through `ModelService._execute_route`, from
many coroutines of one process at once. `ModelRoute` models these calls and the breaker
of each alias. It shares no state with `RuntimeExecutor`, where the same call is a
handler call with an outcome, so the two are separate specifications.

| Variable | In the program |
| --- | --- |
| `breaker` | `_circuits`: `failures`, `probe` (`probe_in_flight`), and `opened`, which is `opened_at` seen through the clock: `no`, `cooling`, or `cooled` once `reset_seconds` have passed |
| `call` | the coroutine of each caller: the aliases it may try, the index of the one it awaits, whether its route stops at a timeout. `probing` is history: the attempt was let through as a recovery probe |
| `probes` | history: probes let through since the alias last cooled down |

The event loop runs a call from one await to the next. `Begin` and `End` are such steps:
they record the end of an attempt, ask the breakers of the aliases that follow, and start
the next attempt or return. `CoolDown` is the passing of time. Left out: the retry within
an alias and its semaphores, which are part of one attempt; the content of answers and
usage. How an attempt ends is a member of `Ending`, one for each way the code treats an
error. Failures past the threshold count as one above it.

### 2.7 TaskStream

| Variable | In the program |
| --- | --- |
| `rows`, `status` | the committed rows of `task_events`, each with its number, its writer and its place among the writer's events; `tasks.status`, live or over |
| `rowLocks`, `holder` | whether the database locks rows (PostgreSQL) or only serialises writers (SQLite); who holds the task's row, or the database |
| `tx`, `own` | the open transaction of each writer: its place in `append_task_event(s)`, the candidate number, attempts, appends to do; the rows it has not committed |
| `buffer`, `emitted`, `lost` | `_event_buffers[run]`; history: the events the run has emitted, and those that went with a process |
| `conn`, `flight`, `got` | the generator `event_stream` with its cursor and the status it read; what is on the way; the ids the browser has seen, of which the last is `Last-Event-ID` |
| `wait`, `req` | the promise of `waitForTask` and its request for the task |

| Action | Code |
| --- | --- |
| `Emit` | `append_node_event`, `append_decision_event` |
| `Begin`, `ReadNext`, `Insert`, `Collide`, `Commit`, `Abort`, `Crash` | the caller's transaction around `append_task_event(s)`: lock, candidate, savepoint, the unique key, commit and the buffer after it; a failed transaction; the death of the worker process |
| `Connect`, `ReadStatus`, `ReadEvents`, `End`, `Drop`, `Receive` | `stream_task` and `event_stream`: status first, then the events, then the end; a lost connection; the browser's listener |
| `Tick`, `Serve`, `ServeError`, `Answer`, `Cancel` | the poll timers and `finish`, with the answer or error of the API; `cancel` |

The writers are any number of `Reporters` (`TaskProgressReporter`, one event each), the
`Engine` (checkpoints, which write the whole buffer) and the `Ender` (the completion, which
appends two events and ends the task in one transaction). Transactions are READ COMMITTED.

`EventFeed` has no rows, numbers, locks, cursors or connections: a log that is only
appended to, and ends with a final event when the task is over (`Publish`, `Complete`); a
reader who is shown the next event of the log (`Show`); a wait that is settled once, and
told of the end only when there is one (`Settle`). `Refines` maps the log to the sequence
that the numbers of the committed rows make (`Log`), what the reader was shown to the
events behind the ids in `got` (`Shown`), the end to `status`, the outcome to `wait`. A
commit is one `Publish` however many rows it brings; everything between a transaction's
begin and its commit, and everything a connection does before the browser's listener runs,
is a stutter.

## 3. Properties

Type invariants aside (`TypeOK`; in `ChildRun` it bounds every budget counter), which are
proved for every instance (section 5) and therefore not part of the runs:

| Module | Property | What it says |
| --- | --- | --- |
| `UnreachableNodes` | `LoopSettles`, `LoopEnds` | the blocking loop ends, with the one settlement of the statuses it started from and the run status of its last refresh |
| `RuntimeExecutor` | `AtMostOnce` | a call that has side effects and is not replay-safe is made at most once in the life of the run, whatever crashes, leases lost, retries and resumptions happen |
| | `ApprovalPerCall` | each call of a privileged handler spends an approval of its own |
| | `BudgetBound` | per counter, at most `MaxCalls` calls reach a handler, and one more for each replay-safe node that a worker who took the task over found in flight |
| | `DependencyOrder` | a node runs, or has a result, only if its activation was satisfied |
| | `WaitingIsAnswerable` | a task that waits with no worker on it accepts the control it waits for |
| | `TerminalTaskSettled` | a task that is over has a run with the same status and every node terminal; a completed one has every node achieved, or broken and made good by its recovery node |
| | `NoImplicitReplay` | a node waiting for reconciliation is settled by the operator or by the end of the task, never put back to work, and gets no new attempt |
| | `HistoryKept` | no late worker takes back the result of a node, or returns budget |
| | `Progress` | a queued or running task comes to rest |
| `TaskLifecycle` | `OverSettled` | a task that is over has a run that is over, with the same outcome unless a cancellation came after the run's end |
| | `CancelWins` | a task whose cancellation was requested never completes or fails |
| | `WaitingAnswerable` | a waiting task has a run that takes the answer |
| | `Refines` | the processes together implement `DurableTask` |
| | `NoSecondCommit` | a completed task is not completed again by a process that carried the run to its end late |
| | `NothingLost`, `Settles` | without faults every queued task is announced, deferred or being picked up; with faults it still settles |
| `TaskQueue` | `NoTheft` | no release, late or of a process that never had it, takes the lock from the worker that holds and refreshes it |
| | `LossNoticed` | a worker that lost the lock stops consuming, unless a Redis error has ended its refresh loop |
| | `Delivered` | what is to be done is done, with its message or without, once one worker at most runs at a time |
| | `DeadLetterEarned` | without faults, a task goes to the dead letters only after `DeadLetterMax` failed dispatches in a row |
| `PlanProposal` | `PlanReviewed` | the stored plan, and every plan a worker could still store, is the first one or the target of an applied proposal |
| | `ReviewAnswerable` | whenever the task waits for review, `decide` takes an approval of the proposal at its gate |
| | `ScreenHonoured` | a reviewer who read the proposal before the suspension checkpoint is not refused after it |
| | `IterationsSpent` | the iteration never falls back and a new plan costs one (proved, in no run) |
| | `Resolves` | with reviewers who decide, every task is over in the end |
| `ChildRun` | `ResultBacked` | a succeeded node of the parent rests on a completed child that the parent has absorbed |
| | `WaitingBacked` | a task nobody executes waits only while a control can reach a suspended run of it |
| | `DoneStaysDone` | a child run that is completed or failed is never changed again |
| | `Rests` | a queued or running task comes to rest, though the executor restarts a suspended node at once |
| | `SuspensionHolds` | a waiting task runs again only when the user asks (violated, section 6) |
| `TaskStream` | `Numbered` | the committed events are numbered 1, 2, ... without gap or repetition |
| | `AppendSucceeds` | no append runs out of its three attempts: with row locks the first candidate is free, without them the second one is |
| | `EmittedOnce` | an event of the run is in the buffer, in the log or lost with its process, in one place only and in order |
| | `Refines` | the browser is shown the log as it was committed, event by event over all its connections, and the wait is told of the end at the end: `TaskStream` implements `EventFeed` |
| | `EndsComplete` | the stream ends by itself only behind the terminal event |
| | `WaitEnds`, `Delivered` | a task that is over settles the wait, even if the stream is gone; until then the browser catches up with the log again and again |
| `ModelRoute` | `ThresholdKept` | a breaker is open exactly while the failures since the last success reach the threshold, however concurrent calls end |
| | `OneProbe` | one recovery probe follows a cooldown, even if calls from before the breaker opened end meanwhile |
| | `ProbeOwned` | a breaker that refuses calls for a probe in flight has such a probe (violated, section 6) |
| | `Resolves` | as long as `ProbeOwned` holds, the alias every route tries first does not stay cooled: it is probed, and closes or cools down again |

## 4. What TLC checks

| Run | Instance | Shows | States |
| --- | --- | --- | --- |
| `plan_settlement` | all plans and statuses of 3 nodes | the loop ends and computes `Settlements` | 258 000 |
| `stepwise_faults` | 2 workers, 1 fault; a side effect, then a privileged replay-safe call; fairness | all properties of the stepwise runtimes but the counting ones | 96 000 |
| `goal_parallel` | 2 workers, 2 faults; two privileged side effects with one handler and their join; the join is replay-safe; batches of 2, a counter that is too small, 1 retry | `AtMostOnce`, `ApprovalPerCall`, `BudgetBound` | 1 531 000 |
| `lifecycle_two_workers` | 1 task, 2 processes, 3 faults, no retry | safety and refinement of `TaskLifecycle` | 269 000 |
| `lifecycle_settles` | 1 process with room for one job, a task and its retry, 2 faults; fairness | `NothingLost`, `Settles` | 201 000 |
| `queue_workers` | 2 workers, 1 task, 2 messages, limit 2, 2 faults, 1 refresh error; fairness | all properties of `TaskQueue` | 309 000 |
| `proposal_review` | 2 workers, 3 iterations, 2 proposals, 1 fault, old screens and ordinary approvals; fairness | all properties of `PlanProposal` | 813 000 |
| `child_runs` | 2 workers, a sub-agent that needs approval, 2 sub-agent starts, 1 model call, 1 retry, 1 fault, 2 requests; fairness | all properties of `ChildRun` but the violated one | 611 000 |
| `task_stream` | with and without row locks; a reporter, a run with 2 events, the end; 2 faults, 1 API error; fairness | all properties of `TaskStream` | 244 000 |
| `breaker_calls` | 3 calls, 2 aliases, threshold 2, all endings; fairness | `ThresholdKept`, `OneProbe`, `Resolves` | 172 000 |
| `breaker_leak`, `child_suspension` | 2 calls; 1 worker and one pause | the findings of section 6 | stop at the violation |

Why the bounds are enough for the cases of interest. Two workers are what a stale copy
needs; a third would be a second stale copy, which the compare-and-swap treats the same.
One fault loses a task to a second worker while the first goes on, two lose it once in
the original execution and once in the recovered one: `goal_parallel` has two, and the
safety properties of `stepwise_faults` were also run with two faults, without the
liveness. Two nodes give a dependency, three a batch with a join. One retry gives the
three fates of a failed call: retried, exhausted, not retryable. `MaxCalls` is ample where
the budget must not interfere, and too small where two nodes have to compete for it: in
`goal_parallel` the join is refused, lost in flight and replayed all the same, and the run
meets `BudgetBound` with equality after two such replays. The outcomes `skipped` and
`failed` are left to `succeeded` and `error`, which lead to the same decisions. User controls of `RuntimeExecutor` and `PlanProposal` are not bounded;
`MaxRequests` bounds them in `ChildRun` and the tasks created in `TaskLifecycle`.

For `TaskLifecycle`, three faults let one process lose a lease, be stopped and crash;
`MaxAttempts = 2` makes a retry, which is a second row whose job may have to wait for the
first one's. For the queue, two messages of one task and a limit of two give every way a
count can be met by another message's deliveries, and two workers what the lock is for;
`Delivered` supposes the one worker `src/apps/worker/README.md:15` prescribes from some
time on (section 6). For the stream, a reporter, the engine and the end are three writers
that can collide; two faults lose a connection and a transaction, or the connection twice.
`Resolves` of `PlanProposal` was also checked with one worker and two faults
(`MaxProposals = 4`), where the bound on proposals is never reached. For `ChildRun`, two
starts and one call make the budget refuse a second child, two requests are a pause and
its answer or an approval that crosses one; the same instance was also checked with one
worker, without approval and with two calls. For the breakers, two calls admitted before a
breaker opens and one probe after it are the interleaving that matters, hence three calls;
a threshold of 2 separates a breaker that is degraded from one that is open.

Symmetry is used for safety only (`goal_parallel`, `lifecycle_two_workers`).
`CHECK_DEADLOCK FALSE` appears where a wait without end is possible: the loop that has
ended, the stream of a task that is over, and the goal runtime, whose task can be left
waiting (section 6). Elsewhere
deadlock is checked, and the modules whose tasks may come to rest have an explicit step
`Rest` for it.

Fairness, all of it weak:

- *Coroutines* go on when they can (`Execute`, `Work`, `Turn`, `End`): asyncio runs what
  is ready. Every provider call has a timeout, so that an attempt ends.
- *Dispatch and recovery*: a queued task is handed to some worker, and recovery runs again
  and again (`services/task_worker.py`, `_recovery_loop`, every
  `recovery_interval_seconds`). `WF_vars(\E w : Claim(w))` asks that some worker acts.
- *Time passes*: a lease or a lock nobody renews expires, a breaker cools down.
- *Restart*: `TaskLifecycle` assumes that a process that ended is started again,
  `TaskQueue` that a worker is started when none is left; a second one may come at any
  time, or never. `src/docker-compose.server.yml:53-78` says `restart: always` for the
  queue worker; the base file `src/docker-compose.yml` has no restart policy for it, and
  there nobody would take up what it left.
- *Load and reviewers*: `Resolves` of `ModelRoute` assumes that calls keep coming, and
  `Resolves` of `PlanProposal` that a reviewer who can decide does and that a paused task
  is resumed. `Rests` and `Progress` assume nothing of users: a waiting task is at rest.
- *Stream*: the server answers, the browser's timers fire and its callbacks run. Nothing is
  assumed of the writers, of the user or of the connection.
- *Faults* are finite: a task whose worker crashes for ever does not come to rest.

## 5. What is proved

45 theorems in eight modules, about 13 500 obligations. They hold for every value of the
constants that the named assumptions of each module admit (`PlanValid`, `ExecutorValid`,
`LifecycleAssumption`, `QueueAssumption`, `ProposalAssumption`, `ChildAssumption`,
`StreamAssumption`, `RouteValid`; those about `UnreachableNodes` need none, its initial
states are the valid plans of `Count` nodes), but for four theorems that name a further
hypothesis below: `DependenciesFirst` and `WaitingAnswered` about the executor,
`NoSubmissionLost`, and `WaitingIsBacked`. For each of the four the property fails without
the hypothesis (section 6). TLC evaluates the assumptions in every run.

**UnreachableNodes**: any number of nodes, any plan that `validate_graph` accepts, any
statuses to begin with. `LoopComputesSettlement` is the property `LoopSettles`. `LoopInv`
says that what the loop has changed so far it still would (`Justified`: the verdict on a
node rests on dependencies that are terminal, so nothing later takes it back) and that a
pass without a change leaves behind it no node to block or skip (`Passed`). The end of such
a pass is therefore a settlement. That there is only one is an argument about the plan and
not the loop: of the nodes on which two settlements differ take one of least rank; those it
depends on have lower ranks and agree, and they determine its verdict (`OneSettlement`). `LoopDescends` is what keeps the passes from going round for
ever: each step takes at least one from `StepsLeft`, a natural number that starts no higher
than `(Count + 1) * (Count + 2)`. With the fairness of a loop that goes on this is
termination, `LoopEnds`, which TLC checks.

**Plans.** `SettlementDetermined` says the same of `RuntimePlan`, whose `Settlements` the
steps of the executor use in place of the loop: for any statuses there is a settlement, and
one only, so the models neither get stuck where the code does not nor choose where it does
not. `SettledNotStuck`: in a settled plan in which a node waits and none is ready, running
or partial, a waiting node may start.

**RuntimeExecutor**: any plan that `validate_graph` accepts, any handler table, budget,
retry limit, batch size and set of workers, both providers. `TypeCorrect`: `TypeOK` is
inductive; the proof splits it into what a checkpoint writes (`CoreType`) and the rest
(`AuxType`) and has one lemma per group of actions. `SideEffectsOnce`: `AtMostOnce` is not
inductive, since a stored run could offer a called node again. `OnceInv` adds, for every
node whose call must not be repeated:

- `OfferedUncalled`: if the stored run still offers the node (pending or ready), it was
  never called and no worker is about to call it;
- `OneCaller`: at most one worker is about to call it, and then nobody has;
- `CurrentAgrees`: a worker with the current version offers it only if the stored run
  does. A stale worker may offer what it likes: `StartBatch` puts nodes into `todo` only
  after its checkpoint, and that fails for a stale worker. This is where the proof uses
  the compare-and-swap;

and `FailingStale`: a worker on its way to `FailTask` has lost its version. `CheckpointOnce`
shows that a checkpoint preserves the invariant if it offers nothing the worker's memory
did not offer (`OffersNoMore`). What remains per action is that recovery reopens only
replay-safe nodes, that `AfterResult` retries only what may be retried, that settling and
marking never reopen a node, and that users and faults leave the run alone or make every
copy stale.

**The history of a run** (same module). Seven properties of `RuntimeExecutor`, all but the first two invariants of a behaviour that no state shows alone. Each
has a strengthening of its own, and a later one uses the earlier ones:

- `CopyInv` gives `HistoryPreserved` and `NothingReplayed`. A worker may hold a copy of the
  run that is hours old; what counts is that every copy a checkpoint would still accept
  *continues* the stored run (`CopiesFollow`): it finished what the row says is finished,
  spent at least what the row spent, and has in flight what the row has stuck. Nodes in
  `stuck` are in flight (`StuckStays`), and a batch is in flight in the copy that started it
  (`BatchesInFlight`).
- `ApprovalInv` gives `ApprovalSpent`: for each handler the approvals not yet used cover the
  calls the batches still may make (`Holders`) and the one grant that is out (`GrantOut`),
  be it in the row, in the run or in a current copy. A grant is one however many copies of
  it there are, since the checkpoint that starts the batch takes it from all of them
  (`StartApproval`).
- `SettledInv` gives `EndsSettled`: once a task is over no copy is current (`Over`), and a
  copy about to be committed has every node achieved or made good (`AboutToFinish`), which
  goes back to the status that `_refresh_run_status` gave it. The same invariant gives the
  action property `OverForGood`: a task that is over keeps its outcome, and its run its
  status and that of every node. What a late worker still writes is refused, since its copy
  is not current (`RefusedKeeps`), and the controls look at the task's status.
- `BudgetInv` gives `BudgetKept`, with nothing assumed of the handlers: in the code a
  handler is replay-safe unless it says otherwise (`runtime/handler_registry.py:37`), the
  metered ones too. The calls made, those a batch still owes (`Due`), and the nodes that may
  yet be called without a charge are together at most the calls charged plus the nodes found
  in flight by claims (`Within`). The last are those marked as replays, and those a copy
  shows in flight though no batch of its worker has them, if they may be replayed
  (`Spared`). The stored run and every current copy are within the bound; only a claim
  spares a node that was not spared before, and it counts it; a batch takes its replays
  from the spared ones (`AcceptedPaid`) and charges the rest. The budget admits a node by
  the nodes charged *ahead* of it, so that the batch as a whole fits is an argument about
  the last one admitted (`LastCharged`, `AcceptedFit`).
- `OrderInv` gives `DependenciesFirst`: the stored run and the current copies have nodes
  live only behind satisfied activations, but for the one node that a decision made ready,
  which until the end of `Prepare` is the first not achieved (`FitToGo`).
- `AnswerInv` gives `WaitingAnswered`: a waiting task has no current copy (`Rests`), so
  nothing but its user moves it. This rests on no approval being overtaken: every current
  copy carries the grant of the row (`Carried`), and a grant names the handler of a node
  that is ready with everything before it achieved (`Aim`), so the next batch uses it up
  (`GrantFits`) before anything else is asked for. `DependenciesFirst` and `WaitingAnswered`
  have the hypothesis `StepwiseInOrder`: a stepwise runtime, and a plan that lists a node
  after those it depends on. Both properties fail for the goal runtime (section 6).

**TaskLifecycle**: any tasks, processes, limits and faults. `RunsSettle`,
`CancellationWins`, `NobodyStranded` and `LifecycleRefines` follow from one invariant,
`IInv`: the types, `Settled` for every task (the three properties, and that an absent task
has left no trace), and `Held` for every process and task: who holds the stored version of
a run has its task open, or finds the run over and a cancellation requested before it can
commit. Without `Held`, a late `Commit` could complete a cancelled task. The refinement
has one step per action, each mapped to a step of `DurableTask` or a stutter.
`CapacityHolds` (at most `Limit` jobs inside) counts the jobs by cardinality; `ResultOnce`
is the action property `NoSecondCommit` from the same invariant.

`NoSubmissionLost` has an invariant of its own, `LostInv`: without faults every process is
up, no task has lost its owner and nobody puts tasks back at a shutdown (`Orderly`), and a
queued task is announced, deferred, or in a job that has yet to look at it or is about to
fail it (`Due`). The case that needs the proof is a submission that arrives while a job for
the task unwinds: the coordinator defers it, and the end of the job takes it up. Hypothesis
`OneProcess`: the process that hears of a queued task is the one that deferred it. With two,
the property fails (section 6), so its run has one process as well.

`UnclaimedNotLost` is what holds for any number of processes, without that hypothesis: a
queued task that *nobody owns* is announced, deferred or being picked up. Only an owned task
can be passed over by the `prepare` of another process. Its invariant `FirstInv` says that
without faults every process is up and puts nothing back (`Undisturbed`), and that no job
has got beyond the place where it takes the lease of an unowned task, which is announced or
in a job on its way there if it is queued (`Unclaimed`).

**PlanProposal**: any workers, iterations and proposals. `PlansReviewed` and
`ReviewsDecidable` rest on an `IInv` that says of each worker with the current version
that its plan is the row's and its iteration not behind, that at its gate the proposal is
pending with the version of the row (`AtOwnGate`), and of a task in review that the row's
proposal is `Decidable`. `IterationsNeverReturn` is the action property from it.
`ScreensHonoured` adds `ScreenInv`: while a worker with the current version is about to
suspend on a proposal, who has read that proposal has read the stored version, since the
proposal was made in the transaction that gave the run this version. The suspension
checkpoint then is the one step by which the screen trails, and `decide` accepts one; any
later checkpoint takes the run away from the gate (`LeftGate`).

**ChildRun**: any workers, budgets, retries and requests. `IInv` is `RowsOK`, the types of
the rows and the backing of the stored parent, and `WorkerOK` for each worker: the copy it
could store over a child is not final and its version is at most that of the row, and if
it is that of the row the row is not final. `Onward` says how the children move, with
versions that only grow; both together give `ResultsBacked` and `ResultsFinal`.

`WaitingIsBacked` is about the two runs that write one task. `WInv` says that a task that
asks its user has a suspended child, or a suspended parent over which no worker may store
any more, but one that is about to start the parent's node again, which sets the task
running (`Waits`, `Away`); and of each worker that a current copy of a child has the status
of its row, and is suspended where the worker notes a suspension in the parent (`InHand`).
So a late suspended checkpoint of either run never leaves a question nobody can answer.
Hypothesis `Named`: the user names the run a control is for.

**TaskStream**: any reporters and bounds, with and without row locks. All four invariants,
and that the browser sees every number once and in order (`EventsInOrder`), follow from
`LogInv`: the committed rows are gapless; who holds the row (or the database)
has inserted right behind the log, and who does not has inserted nothing (`WriterOK`, which
also says that a candidate is at most one behind the log's end and that a second attempt is
made by the holder); the ender has its terminal event before it commits (`EnderOK`); a
checkpoint has written the buffer, whose events come behind those in the log (`EngineOK`);
what the browser saw, what is on its way and the cursor of the stream continue one another
(`StreamOK`); a status read as over has its terminal event in the log (`EndOK`).

`StreamRefines`, the refinement of `EventFeed`, needs besides `LogInv` that the ender's terminal
event is the last of what it commits and that its transaction is over once the task is
(`EnderLast`). Then
`Log` is well defined, since the numbers have neither gap nor repetition (`InOrderIs`); a
commit leaves the events before it where they are and adds those of its transaction
(`Appended`, `CommitMaps`); what the listener receives is the next event of the log
(`ReceiveMaps`), because a new connection starts behind the last id seen; every other step
moves nothing of the feed (`QuietMaps`) or settles the wait.

**TaskQueue**: any tasks, workers and faults. `TypeCorrect`, `LockNotStolen` (`NoTheft`),
and `BurialsEarned`, whose invariant `EarnInv` says that without a lost call who consumes
holds the lock and refreshes it (`Leased`), so that there is one consumer; that the count of
a message is at most the failed dispatches of its task, but while the consumer holds it,
counted and not yet dispatched, or dispatched and not yet acknowledged (`Accounted`); and
that who buries a task counted enough of them (`Earned`).

**ModelRoute**: any concurrent calls, routes and threshold. `TypeCorrect`,
`OpensAtThreshold` and `BreakerSound`. `OneProbe` is not inductive: a cooled breaker
without a probe would let a second one through. `Sound` adds that such a breaker has let
none through since it cooled down; it is kept because the failure of an open breaker,
whichever call it comes from, starts a new cooldown.

Only model-checked, since it is out of the prover's reach: whatever involves fairness or
ENABLED (`Progress`, `Settles`, `LossNoticed`, `WaitEnds`, `Rests`, both `Delivered`, both
`Resolves`, and `LoopEnds`, of which `LoopDescends` proves all but the fairness). Every
invariant, every refinement and every action property that a passing run checks is proved.
Induction over data is out of reach as well, since the theorems of the library that state
it take a predicate as a parameter. Where one instance of it was needed (the least rank at
which two settlements differ, the last node a budget admits), a set of naturals has a least
or greatest element by the well-foundedness of inclusion of finite sets (`LeastNatural`).

## 6. Findings

Two runs are expected to find their property violated.

1. `child_suspension` / `SuspensionHolds`. When a child run is paused or waits,
   `_handle_failure` makes the parent's node READY, gives the run the child's status and
   returns (`runtime/executor.py:206`). The loop of `execute` goes on with the ready node:
   `start_node` makes the run RUNNING again, its checkpoint projects the task back to
   RUNNING, and the child, whose pause request was cleared with its paused checkpoint, goes
   on although nobody resumed it. Each restart costs a sub-agent of the parent's budget; a
   child that waits for approval is restarted until that budget ends.
   `src/docs/architecture/true_agent_runtime_roadmap.md:606-609` says that the child stores
   a paused checkpoint, the node returns to `ready`, and "Task resume continues the same
   child Run".
2. `breaker_leak` / `ProbeOwned`. `allow_request` marks a recovery probe as in flight, and
   only `record_success` and `record_failure` take the mark back. A probe that meets a rate
   limit, an ordinary timeout or a malformed answer, or whose task is cancelled, records
   neither (`services/model_service.py:304`): the mark stays, and the alias refuses every
   later call until the process restarts. The design note calls the break short-lived, lets
   a probe through after 300 seconds and says that a rate limit does not open the circuit
   (`src/docs/optimization/latest_retest_followup_20260729.md:99`).

The models contain further disagreements with a doc or a comment. They have no run of their
own; each shows up where it says, and the properties above are stated so as to hold beside
them.

- *A node beside its dependency.* `apply_decision` makes every pending node it is given
  READY (`runtime/state_machine.py:263`), the goal runtime names every node
  (`services/generic_goal_runtime.py:151`), and the executor starts `max_parallelism` of
  them together; `runtime/contracts.py:345` leaves the order to `ready_nodes()`. Check
  `DependencyOrder` with the constants of `stepwise_faults` but `Provider = "goal"`,
  `MaxParallelism = 2`, `NeedsApproval = {}`, `MaxFaults = 0`.
- *Review after an approval.* The goal runtime checkpoints its verification with the
  restored WAITING_APPROVAL, and the projection turns the task back to WAITING_REVIEW
  (`services/runtime_persistence_hooks.py:188`). A crash before the next checkpoint leaves a
  task whose approval the API refuses as given: `WaitingIsAnswerable` fails with
  `Provider = "goal"`. The same happens to a run resumed from a pause.
- *A replay nobody paid for.* A node whose reservation is refused has been checkpointed
  RUNNING; a crash before its failure is recorded makes it, if replay-safe, the replay of
  an attempt that was never paid for (`runtime/executor.py:131`), although the comment at
  `runtime/executor.py:121` says that the original attempt reserved its budget. So the
  limit itself can be exceeded: `\A p \in Pool : consumed[p] <= MaxCalls[p]` fails in
  `goal_parallel`. `BudgetBound` says by how much: one call for each node found in flight
  that may be replayed. `Start` of `ChildRun` has the same for a sub-agent.
- *Late workers, restarts and retries.* Failure does not look at the lease: a worker that
  lost it can fail a task that waits for its user. A process that restarts before its lease
  has run out does not find its running task, and without the queue worker's recovery loop
  nobody looks again. A failed task can be retried twice, which makes two tasks.
  `src/docs/quality/long_term_verification_and_bug_triage.md:57` asks for recovery after a
  restart, for idempotent repetition, and that errors do not turn `waiting_*` into failed.
  (`Fail`, `Recoverable` and `Retry` of `TaskLifecycle`, whose properties hold with them.)
- *An answer heard by the wrong process.* A task that waits keeps its owner and lease while
  its job unwinds. When its user answers, the announcement may reach another process, whose
  `prepare` passes the task over while the lease lasts: no process has it in hand until
  recovery finds it. `NothingLost` fails without a fault in `lifecycle_settles` with two
  processes. So does `Settles`, for a reason that is the model's: it has no clock, so a lease
  may lapse before the process that claimed it in its recovery has prepared the job, and two
  processes then take the task from each other for ever; real leases outlast that. Both are
  therefore checked with one process. For several, `UnclaimedNotLost` says that only a task
  with an owner is passed over.
- *Stopping a running task* is only requested. A run that suspends before it sees the
  request leaves the task waiting with the request set, the state that
  `src/docs/evaluation/runtime_non_xingchen_paired_review_2026-08-10.md:2437` describes as
  repaired; a second cancellation ends it.
- *Shutdown and waiting tasks.* `requeue_after_shutdown` puts every task back to the queue
  that is not over, also one whose run has just been suspended and whose job is still
  unwinding: it goes on after the restart without its user, who should be waited for
  (same document, line 23). `RequeueAfterShutdown` of `TaskLifecycle`.
- *A worker without the lock.* The refresh loop dies on a Redis error
  (`services/task_queue.py:213`), and the worker goes on consuming without a lock, against
  "exactly one" worker (`src/apps/worker/README.md:15`) and the renewable lease of
  `task_queue.py:71`. `LossNoticed` and `DeadLetterEarned` except it by `refreshErrors`.
- *Early dead letters.* A crash between `receive` and `ack` leaves a count that a later
  delivery is charged with (`services/task_queue.py:125`), although
  `src/apps/worker/README.md:20` counts dispatches that raise.
- *A second queue worker* claims recoverable tasks while it boots, before it is refused the
  lock and exits; started again and again it can keep a task from ever being done.
  `Delivered` needs the single worker of `src/apps/worker/README.md:15`.
- *Approval before the suspension checkpoint.* A proposal is committed
  (`services/runtime_plan_proposals.py:144`) before the controller suspends
  (`runtime/controller.py:121`); a decision between the two makes the late checkpoint
  conflict and fails the task, although the comment at `runtime_plan_proposals.py:229`
  treats both as one.
- *An error of one poll* rejects the wait of the workspace although the task is live
  (`src/apps/web/src/task-transport.ts:101`), while the comment at line 169 calls polling a
  safety net (`ServeError` and `Answer` of `TaskStream`: the wait is `rejected`).
- *Buffered events* of a run are lost with its process (`Crash` of `TaskStream`); the run
  goes on from its checkpoint, and the log has no trace of them.
- *Ordinary approval of a proposal.* `services/task_control_service.py:515` looks only at
  the status of the run, and accepts an approval while a proposal is pending, although
  `api/v1/tasks.py:720` hides that control (`ApproveTask` of `PlanProposal`).
- *A task that is over, revived.* Resume and approve of a suspended child put the task back
  to QUEUED, and a late suspended checkpoint of a child back to waiting, without a look at
  the task's status (`services/task_control_service.py:637`,
  `services/runtime_persistence_hooks.py:183`); `src/docs/evaluation/runtime_agent_contract_matrix.md:53`
  says that no terminal state exposes a control.
- *A suspended child out of reach.* A crash between the child's suspended checkpoint and
  the parent's leaves the parent without its link. A user who names no run then reaches the
  parent, which is not suspended: `WaitingBacked` fails with `Named = FALSE`. And a grant
  given between the child's two suspended checkpoints, followed by a crash, leaves the task
  in review with the approval already given.

`DependencyOrder` and `WaitingIsAnswerable` hold for stepwise runtimes (`stepwise_faults`),
`NothingLost` with one process (`lifecycle_settles`) and `WaitingBacked` with a user who
names the run (`child_runs`); section 5 proves them so.

## 7. Running the checks

    tlc -config stepwise_faults.cfg MCRuntimeExecutor
    tlc -config goal_parallel.cfg MCRuntimeExecutor
    tlc -config UnreachableNodes.cfg UnreachableNodes
    tlc -config lifecycle_two_workers.cfg MCTaskLifecycle
    tlc -config lifecycle_settles.cfg MCTaskLifecycle
    tlc -config queue_workers.cfg MCTaskQueue
    tlc -config proposal_review.cfg MCPlanProposal
    tlc -config child_runs.cfg MCChildRun
    tlc -config task_stream.cfg MCTaskStream
    tlc -config breaker_calls.cfg MCModelRoute
    tlc -config child_suspension.cfg MCChildRun      # violation
    tlc -config breaker_leak.cfg MCModelRoute        # violation
    tlapm RuntimeExecutor_proofs.tla                 # and the other *_proofs

Every run takes at most about three minutes on two workers.

## 8. Not modelled

- *Around the event log*: which event type a runtime event becomes
  (`runtime/event_bridge.py`), the events dropped from a buffer when a run ends
  (`discard`), checkpoints with events on SQLite, and what the workspace displays of the
  events it receives. The two poll timers of the browser share one request in flight.
- *Row-lock order*: a checkpoint locks the run and then the task, the control API the task
  and then the run. The database resolves the deadlock by failing one transaction; the
  models take each transaction as one step.
- *Content of results*: the enrichment of a finished task's result
  (`services/task_post_processing.py`) reads and writes back without a lock. The models do
  not contain results.
- *Several child nodes* in one batch, sub-agents with side effects, and the composition of
  replanning with children: `ChildRun` and `PlanProposal` each fix the rest of the run.
- *Agent routing, solvers, retrieval and ranking, handler bodies, goal planners, sessions
  and memory, the learning loop, course packs, release and launch policies, HTTP, accounts
  and administration, front ends and evaluation scripts*, which are most of the
  repository's lines. They are text processing, numeric, I/O or sequential domain records,
  or act behind a handler call whose outcome the models choose freely; their defects would
  not be found by interleaving them. The map therefore covers a small share of the
  repository, and nearly all of the code that moves tasks and runs.
