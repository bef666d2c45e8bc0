----------------------------- MODULE TaskLifecycle -----------------------------
(***************************************************************************)
(* The life of tasks across the processes that execute them: creation,     *)
(* dispatch through each process' TaskExecutionCoordinator, leases, the    *)
(* engine's transactions, cancellation, retry, orderly shutdown, crash and *)
(* restart.                                                                *)
(*                                                                         *)
(* What happens inside one execution (nodes, budget, approvals) is the     *)
(* subject of RuntimeExecutor; here a run is a status and a version, and   *)
(* an execution is the sequence of database transactions it makes.  A job  *)
(* is one asyncio task of a coordinator: the coroutine that executes one   *)
(* task in one process.                                                    *)
(***************************************************************************)
EXTENDS Integers, FiniteSets

CONSTANTS
    Task,          \* task ids
    Proc,          \* processes that execute tasks
    NoOwner,       \* task.execution_owner is NULL
    Gone,          \* task.execution_owner names an earlier life of a process
    NoTask,        \* task.parent_task_id is NULL
    Limit,         \* settings.task_max_concurrency
    MaxAttempts,   \* task.max_attempts
    MaxRequests,   \* bound: tasks users create, retries not counted
    MaxFaults      \* bound: crashes, shutdowns, late heartbeats, lost hints

Over == {"completed", "failed", "cancelled"}
TaskStatus == {"absent", "queued", "running", "waiting"} \cup Over
RunStatus == {"absent", "live", "waiting"} \cup Over
JobState == {"none", "ready", "preparing", "running", "suspending", "finished",
             "failing", "requeueing", "done"}
Inside == JobState \ {"none", "ready", "done"}

ASSUME LifecycleAssumption ==
    /\ IsFiniteSet(Task)
    /\ NoOwner \notin Proc /\ Gone \notin Proc /\ NoOwner # Gone
    /\ NoTask \notin Task
    /\ Limit \in Nat \ {0}
    /\ MaxAttempts \in Nat \ {0}
    /\ MaxRequests \in Nat
    /\ MaxFaults \in Nat

VARIABLES
    task,      \* the tasks' rows
    run,       \* the status of the last checkpoint of each task's run
    hints,     \* tasks announced for dispatch and not yet handed to a process
    mode,      \* what each process is doing
    job,       \* the job of each process for each task
    deferred,  \* coordinator._deferred_submissions
    fresh,     \* per process: tasks whose stored run version it holds in memory
    beating,   \* per process: tasks whose heartbeat task is alive
    faults     \* faults so far

vars == <<task, run, hints, mode, job, deferred, fresh, beating, faults>>

-----------------------------------------------------------------------------
NewTask(attempt, parent) ==
    [status |-> "queued", cancelling |-> FALSE, owner |-> NoOwner,
     leased |-> FALSE, attempt |-> attempt, parent |-> parent]

Absent == [NewTask(1, NoTask) EXCEPT !.status = "absent"]

Init ==
    /\ task = [t \in Task |-> Absent]
    /\ run = [t \in Task |-> "absent"]
    /\ hints = {}
    /\ mode = [p \in Proc |-> "up"]
    /\ job = [p \in Proc |-> [t \in Task |-> "none"]]
    /\ deferred = [p \in Proc |-> {}]
    /\ fresh = [p \in Proc |-> {}]
    /\ beating = [p \in Proc |-> {}]
    /\ faults = 0

(* A checkpoint gives the run of t a new version: only p's copy matches it. *)
OnlyFresh(p, t) == [q \in Proc |-> IF q = p THEN fresh[q] \cup {t} ELSE fresh[q] \ {t}]
NoneFresh(t) == [q \in Proc |-> fresh[q] \ {t}]

FinalizeActive(t, status) ==   \* variant: a suspended run is left as it is
    IF run[t] \in {"absent", "waiting"} THEN UNCHANGED <<run, fresh>>
    ELSE /\ run' = [run EXCEPT ![t] = status]
         /\ fresh' = NoneFresh(t)

(* RuntimeRunLifecycleService.finalize, when it loads the run itself. *)
FinalizeRun(t, status) ==
    IF run[t] = "absent" THEN UNCHANGED <<run, fresh>>
    ELSE /\ run' = [run EXCEPT ![t] = status]
         /\ fresh' = NoneFresh(t)

EndTask(t, status) ==
    task' = [task EXCEPT ![t].status = status, ![t].leased = FALSE]

MarkCancelled(t) == EndTask(t, "cancelled") /\ FinalizeRun(t, "cancelled")

(* The coroutine of a job ends: the heartbeat task dies with it. *)
EndJob(p, t) ==
    /\ job' = [job EXCEPT ![p][t] = "done"]
    /\ beating' = [beating EXCEPT ![p] = @ \ {t}]

GoTo(p, t, state) ==
    /\ job' = [job EXCEPT ![p][t] = state]
    /\ UNCHANGED beating

-----------------------------------------------------------------------------
(* The coordinator.  Submission never waits: it starts a job, or defers    *)
(* the task while a job for it is not done.                                *)
Idle(p, t) == job[p][t] \in {"none", "done"}

SubmitDropping(p, S) ==   \* variant: a task with a live job is not deferred
    /\ job' = [job EXCEPT ![p] =
                  [t \in Task |-> IF t \in S /\ Idle(p, t) THEN "ready" ELSE @[t]]]
    /\ UNCHANGED deferred

SubmitAll(p, S) ==
    /\ job' = [job EXCEPT ![p] =
                  [t \in Task |-> IF t \in S /\ Idle(p, t) THEN "ready" ELSE @[t]]]
    /\ deferred' = [deferred EXCEPT ![p] = @ \cup {t \in S : ~Idle(p, t)}]

Deliver(p, t) ==
    /\ t \in hints
    /\ mode[p] = "up"
    /\ hints' = hints \ {t}
    /\ SubmitAll(p, {t})
    /\ UNCHANGED <<task, run, mode, fresh, beating, faults>>

(* The done callback of a job, which asyncio runs some time after its end. *)
JobFinished(p, t) ==
    /\ job[p][t] = "done"
    /\ IF mode[p] = "up" /\ t \in deferred[p]
       THEN job' = [job EXCEPT ![p][t] = "ready"]
       ELSE job' = [job EXCEPT ![p][t] = "none"]
    /\ deferred' = [deferred EXCEPT ![p] = @ \ {t}]
    /\ UNCHANGED <<task, run, hints, mode, fresh, beating, faults>>

Enter(p, t) ==
    /\ job[p][t] = "ready"
    /\ Cardinality({u \in Task : job[p][u] \in Inside}) < Limit
    /\ GoTo(p, t, "preparing")
    /\ UNCHANGED <<task, run, hints, mode, deferred, fresh, faults>>

-----------------------------------------------------------------------------
(* The transactions of one execution (RuntimeTaskEngine.execute).          *)
CanStart(p, t) ==
    /\ task[t].status = "queued"
    /\ task[t].owner \in {NoOwner, p} \/ ~task[t].leased

Prepare(p, t) ==
    /\ job[p][t] = "preparing"
    /\ \/ /\ ~CanStart(p, t)
          /\ EndJob(p, t)
          /\ UNCHANGED <<task, run, fresh>>
       \/ /\ CanStart(p, t) /\ task[t].cancelling
          /\ MarkCancelled(t)
          /\ EndJob(p, t)
       \/ /\ CanStart(p, t) /\ ~task[t].cancelling
          /\ task' = [task EXCEPT ![t].status = "running", ![t].owner = p,
                                  ![t].leased = TRUE]
          /\ run' = [run EXCEPT ![t] = IF @ = "absent" THEN "live" ELSE @]
          /\ fresh' = [fresh EXCEPT ![p] = @ \cup {t}]
          /\ job' = [job EXCEPT ![p][t] = "running"]
          /\ beating' = [beating EXCEPT ![p] = @ \cup {t}]
    /\ UNCHANGED <<hints, mode, deferred, faults>>

(* The request cannot be prepared: the transaction is rolled back. *)
PrepareFails(p, t) ==
    /\ job[p][t] = "preparing"
    /\ GoTo(p, t, "failing")
    /\ UNCHANGED <<task, run, hints, mode, deferred, fresh, faults>>

(* RuntimePersistenceHooks.checkpoint by a holder of the stored version. *)
Checkpoint(p, t, status, projected) ==
    /\ run' = [run EXCEPT ![t] = status]
    /\ fresh' = OnlyFresh(p, t)
    /\ task' = [task EXCEPT ![t].status = projected]

Running(p, t) == job[p][t] = "running" /\ t \in fresh[p]

Advance(p, t) ==
    /\ Running(p, t)
    /\ run[t] \in {"live", "waiting"}
    /\ Checkpoint(p, t, "live", IF task[t].status = "waiting" THEN "running"
                                ELSE task[t].status)
    /\ UNCHANGED <<hints, mode, job, deferred, beating, faults>>

(* The run asks for approval or input, or honours a pause. *)
Suspend(p, t) ==
    /\ Running(p, t)
    /\ run[t] \in {"live", "waiting"}
    /\ Checkpoint(p, t, "waiting", "waiting")
    /\ GoTo(p, t, "suspending")
    /\ UNCHANGED <<hints, mode, deferred, faults>>

(* RuntimeRunSuspended unwinds to the engine, which returns. *)
Suspended(p, t) ==
    /\ job[p][t] = "suspending"
    /\ EndJob(p, t)
    /\ UNCHANGED <<task, run, hints, mode, deferred, fresh, faults>>

RunEnds(p, t) ==
    /\ Running(p, t)
    /\ run[t] \in {"live", "waiting"}
    /\ \E status \in {"completed", "failed"} :
          /\ Checkpoint(p, t, status, task[t].status)
          /\ GoTo(p, t, IF status = "completed" THEN "finished" ELSE "failing")
    /\ UNCHANGED <<hints, mode, deferred, faults>>

(* A run restored after it was over is not executed again. *)
RunWasOver(p, t) ==
    /\ Running(p, t)
    /\ run[t] \in Over
    /\ GoTo(p, t, IF run[t] = "completed" THEN "finished" ELSE "failing")
    /\ UNCHANGED <<task, run, hints, mode, deferred, fresh, faults>>

(* RuntimeConcurrencyError: the stored version is not the one in memory.   *)
Conflict(p, t) ==
    /\ job[p][t] \in {"running", "finished"}
    /\ t \notin fresh[p]
    /\ \/ job[p][t] = "running"
       \/ ~task[t].cancelling
    /\ GoTo(p, t, "failing")
    /\ UNCHANGED <<task, run, hints, mode, deferred, fresh, faults>>

CommitUnflagged(p, t) ==   \* variant: commits whatever was requested
    /\ job[p][t] = "finished"
    /\ t \in fresh[p]
    /\ EndTask(t, "completed")
    /\ run' = [run EXCEPT ![t] = "completed"]
    /\ fresh' = OnlyFresh(p, t)
    /\ EndJob(p, t)
    /\ UNCHANGED <<hints, mode, deferred, faults>>

CommitUnversioned(p, t) ==   \* variant: commits whatever version it holds
    /\ job[p][t] = "finished"
    /\ \/ /\ task[t].cancelling
          /\ MarkCancelled(t)
       \/ /\ ~task[t].cancelling
          /\ EndTask(t, "completed")
          /\ run' = [run EXCEPT ![t] = "completed"]
          /\ fresh' = OnlyFresh(p, t)
    /\ EndJob(p, t)
    /\ UNCHANGED <<hints, mode, deferred, faults>>

Commit(p, t) ==
    /\ job[p][t] = "finished"
    /\ \/ /\ task[t].cancelling
          /\ MarkCancelled(t)
       \/ /\ ~task[t].cancelling /\ t \in fresh[p]
          /\ EndTask(t, "completed")
          /\ run' = [run EXCEPT ![t] = "completed"]
          /\ fresh' = OnlyFresh(p, t)
    /\ EndJob(p, t)
    /\ UNCHANGED <<hints, mode, deferred, faults>>

Fail(p, t) ==
    /\ job[p][t] = "failing"
    /\ \/ /\ task[t].status \in {"completed", "cancelled"}
          /\ UNCHANGED <<task, run, fresh>>
       \/ /\ task[t].status \notin {"completed", "cancelled"}
          /\ task[t].cancelling
          /\ MarkCancelled(t)
       \/ /\ task[t].status \notin {"completed", "cancelled"}
          /\ ~task[t].cancelling
          /\ EndTask(t, "failed")
          /\ FinalizeRun(t, "failed")
    /\ EndJob(p, t)
    /\ UNCHANGED <<hints, mode, deferred, faults>>

RequeueAlways(p, t) ==   \* variant: a task that is over is put back too
    /\ job[p][t] = "requeueing"
    /\ task' = [task EXCEPT ![t].status = "queued", ![t].owner = NoOwner,
                            ![t].leased = FALSE]
    /\ UNCHANGED <<run, fresh>>
    /\ EndJob(p, t)
    /\ UNCHANGED <<hints, mode, deferred, faults>>

RequeueAfterShutdown(p, t) ==
    /\ job[p][t] = "requeueing"
    /\ \/ /\ task[t].status \in Over
          /\ UNCHANGED <<task, run, fresh>>
       \/ /\ task[t].status \notin Over /\ task[t].cancelling
          /\ MarkCancelled(t)
       \/ /\ task[t].status \notin Over /\ ~task[t].cancelling
          /\ task' = [task EXCEPT ![t].status = "queued", ![t].owner = NoOwner,
                                  ![t].leased = FALSE]
          /\ UNCHANGED <<run, fresh>>
    /\ EndJob(p, t)
    /\ UNCHANGED <<hints, mode, deferred, faults>>

-----------------------------------------------------------------------------
(* Leases, recovery, shutdown, crash and restart.                          *)

(* The heartbeat ends for good when it finds the task not running or not   *)
(* its own.                                                                *)
HeartbeatEnds(p, t) ==
    /\ t \in beating[p]
    /\ task[t].status # "running" \/ task[t].owner # p
    /\ beating' = [beating EXCEPT ![p] = @ \ {t}]
    /\ UNCHANGED <<task, run, hints, mode, job, deferred, fresh, faults>>

LeaseLapses(t) ==
    /\ task[t].leased
    /\ \A p \in Proc : task[t].owner = p => t \notin beating[p]
    /\ task' = [task EXCEPT ![t].leased = FALSE]
    /\ UNCHANGED <<run, hints, mode, job, deferred, fresh, beating, faults>>

(* A heartbeat comes later than the lease lasts. *)
HeartbeatLate(t) ==
    /\ faults < MaxFaults
    /\ \E p \in Proc : task[t].owner = p /\ t \in beating[p]
    /\ task[t].leased
    /\ task' = [task EXCEPT ![t].leased = FALSE]
    /\ faults' = faults + 1
    /\ UNCHANGED <<run, hints, mode, job, deferred, fresh, beating>>

RecoverableQueued ==   \* variant: running tasks are not looked at
    {t \in Task : task[t].status = "queued" /\ (task[t].owner = NoOwner \/ ~task[t].leased)}

Recoverable == {t \in Task :
    \/ task[t].status = "queued" /\ (task[t].owner = NoOwner \/ ~task[t].leased)
    \/ task[t].status = "running" /\ ~task[t].leased}

RecoverTasks(p) ==
    /\ Recoverable # {}
    /\ task' = [t \in Task |-> IF t \in Recoverable
                               THEN [task[t] EXCEPT !.status = "queued",
                                                    !.owner = p, !.leased = TRUE]
                               ELSE task[t]]
    /\ SubmitAll(p, Recoverable)
    /\ UNCHANGED <<run, hints, fresh, beating, faults>>

Recover(p) ==
    /\ mode[p] = "up"
    /\ RecoverTasks(p)
    /\ UNCHANGED mode

(* coordinator.shutdown: every job is cancelled where it awaits.  A job    *)
(* that waits for capacity, or is inside an exception handler, just ends;  *)
(* a suspended one may be hit before or after its exception is handled.    *)
Cancelled(state) ==
    CASE state \in {"none", "done", "requeueing"} -> {state}
      [] state \in {"ready", "failing"} -> {"done"}
      [] state = "suspending" -> {"requeueing", "done"}
      [] OTHER -> {"requeueing"}

Shutdown(p) ==
    /\ faults < MaxFaults
    /\ mode[p] = "up"
    /\ mode' = [mode EXCEPT ![p] = "stopping"]
    /\ \E j \in [Task -> JobState] :
          /\ \A t \in Task : j[t] \in Cancelled(job[p][t])
          /\ job' = [job EXCEPT ![p] = j]
    /\ beating' = [beating EXCEPT ![p] = {t \in @ : job'[p][t] # "done"}]
    /\ faults' = faults + 1
    /\ UNCHANGED <<task, run, hints, deferred, fresh>>

(* What a process owned stays owned by a name nobody bears any more. *)
Orphan(p) ==
    task' = [t \in Task |-> IF task[t].owner = p THEN [task[t] EXCEPT !.owner = Gone]
                            ELSE task[t]]

ProcessGone(p) ==
    /\ mode' = [mode EXCEPT ![p] = "down"]
    /\ job' = [job EXCEPT ![p] = [t \in Task |-> "none"]]
    /\ deferred' = [deferred EXCEPT ![p] = {}]
    /\ fresh' = [fresh EXCEPT ![p] = {}]
    /\ beating' = [beating EXCEPT ![p] = {}]
    /\ Orphan(p)

Stop(p) ==
    /\ mode[p] = "stopping"
    /\ \A t \in Task : Idle(p, t)
    /\ ProcessGone(p)
    /\ UNCHANGED <<run, hints, faults>>

Crash(p) ==
    /\ faults < MaxFaults
    /\ mode[p] # "down"
    /\ ProcessGone(p)
    /\ faults' = faults + 1
    /\ UNCHANGED <<run, hints>>

(* A new process recovers once before it serves. *)
Restart(p) ==
    /\ mode[p] = "down"
    /\ mode' = [mode EXCEPT ![p] = "up"]
    /\ IF Recoverable # {} THEN RecoverTasks(p)
       ELSE UNCHANGED <<task, run, hints, job, deferred, fresh, beating, faults>>

LoseHint(t) ==
    /\ faults < MaxFaults
    /\ t \in hints
    /\ hints' = hints \ {t}
    /\ faults' = faults + 1
    /\ UNCHANGED <<task, run, mode, job, deferred, fresh, beating>>

-----------------------------------------------------------------------------
(* The API: each handler is one transaction and then, where a task is      *)
(* queued, one submission.                                                 *)
Create(t) ==
    /\ task[t].status = "absent"
    /\ Cardinality({u \in Task : task[u].status # "absent" /\ task[u].attempt = 1}) < MaxRequests
    /\ task' = [task EXCEPT ![t] = NewTask(1, NoTask)]
    /\ hints' = hints \cup {t}
    /\ UNCHANGED <<run, mode, job, deferred, fresh, beating, faults>>

Retry(t, u) ==
    /\ task[t].status = "failed"
    /\ task[t].attempt < MaxAttempts
    /\ task[u].status = "absent"
    /\ task' = [task EXCEPT ![u] = NewTask(task[t].attempt + 1, t)]
    /\ hints' = hints \cup {u}
    /\ UNCHANGED <<run, mode, job, deferred, fresh, beating, faults>>

CancelRun(t) ==   \* variant: stopping a waiting task ends its run only
    /\ task[t].status \notin Over \cup {"absent"}
    /\ task' = [task EXCEPT ![t].cancelling = TRUE]
    /\ IF task[t].status = "running" \/ run[t] \in Over THEN UNCHANGED <<run, fresh>>
       ELSE FinalizeRun(t, "cancelled")
    /\ UNCHANGED <<hints, mode, job, deferred, beating, faults>>

Cancel(t) ==
    /\ task[t].status \notin Over \cup {"absent"}
    /\ IF task[t].status \in {"queued", "waiting"}
       THEN /\ task' = [task EXCEPT ![t].status = "cancelled", ![t].cancelling = TRUE]
            /\ IF run[t] \in Over THEN UNCHANGED <<run, fresh>>
               ELSE FinalizeRun(t, "cancelled")
       ELSE /\ task' = [task EXCEPT ![t].cancelling = TRUE]
            /\ UNCHANGED <<run, fresh>>
    /\ UNCHANGED <<hints, mode, job, deferred, beating, faults>>

(* approve, resume and submit_input look at the run, not at the task. *)
Answer(t) ==
    /\ run[t] = "waiting"
    /\ task' = [task EXCEPT ![t].status = "queued"]
    /\ hints' = hints \cup {t}
    /\ UNCHANGED <<run, mode, job, deferred, fresh, beating, faults>>

-----------------------------------------------------------------------------
Execute(p, t) ==
    \/ Enter(p, t) \/ Prepare(p, t)
    \/ Advance(p, t) \/ Suspend(p, t) \/ RunEnds(p, t) \/ RunWasOver(p, t)
    \/ Conflict(p, t) \/ Suspended(p, t) \/ Commit(p, t) \/ Fail(p, t)
    \/ RequeueAfterShutdown(p, t) \/ JobFinished(p, t)

User ==
    \E t \in Task :
        \/ Create(t) \/ Cancel(t) \/ Answer(t)
        \/ \E u \in Task : Retry(t, u)

(* Nothing is left to do: every task is over and every job has ended. *)
Rest ==
    /\ \A t \in Task : task[t].status \in Over \cup {"absent"}
    /\ \A p \in Proc, t \in Task : job[p][t] = "none"
    /\ UNCHANGED vars

Next ==
    \/ \E p \in Proc :
          \/ \E t \in Task : Deliver(p, t) \/ Execute(p, t) \/ PrepareFails(p, t)
                             \/ HeartbeatEnds(p, t)
          \/ Recover(p) \/ Shutdown(p) \/ Stop(p) \/ Crash(p) \/ Restart(p)
    \/ \E t \in Task : LeaseLapses(t) \/ HeartbeatLate(t) \/ LoseHint(t)
    \/ User \/ Rest

Spec == Init /\ [][Next]_vars

(***************************************************************************)
(* A coroutine that can take a step takes one, callbacks run, submissions  *)
(* arrive, time passes, the recovery loop goes round, a process that has   *)
(* stopped is started again.  Nothing is assumed of users or of faults.    *)
(***************************************************************************)
Fairness ==
    /\ \A p \in Proc : \A t \in Task :
          WF_vars(Execute(p, t)) /\ WF_vars(HeartbeatEnds(p, t))
    /\ \A p \in Proc : WF_vars(Recover(p)) /\ WF_vars(Stop(p)) /\ WF_vars(Restart(p))
    /\ \A t \in Task :
          WF_vars(LeaseLapses(t)) /\ WF_vars(\E p \in Proc : Deliver(p, t))

FairSpec == Spec /\ Fairness

-----------------------------------------------------------------------------
TaskRow == [status : TaskStatus, cancelling : BOOLEAN,
            owner : Proc \cup {NoOwner, Gone}, leased : BOOLEAN,
            attempt : 1 .. MaxAttempts, parent : Task \cup {NoTask}]

(* Every variable keeps its type. *)
TypeOK ==
    /\ task \in [Task -> TaskRow]
    /\ run \in [Task -> RunStatus]
    /\ hints \in SUBSET Task
    /\ mode \in [Proc -> {"up", "stopping", "down"}]
    /\ job \in [Proc -> [Task -> JobState]]
    /\ deferred \in [Proc -> SUBSET Task]
    /\ fresh \in [Proc -> SUBSET Task]
    /\ beating \in [Proc -> SUBSET Task]
    /\ faults \in Nat

(* A task that is over left its run over, and with the same outcome unless *)
(* a cancellation came after the run's end, whichever of commit, fail,     *)
(* cancel and the shutdown path got there first: no suspended run is left  *)
(* behind for a later answer to revive.                                    *)
OverSettled ==
    \A t \in Task :
        /\ task[t].status = "completed" => run[t] = "completed"
        /\ task[t].status = "failed" => run[t] \in {"absent", "failed"}
        /\ task[t].status = "cancelled" => run[t] \in {"absent"} \cup Over

(* A requested cancellation is never overtaken by a result or a failure:   *)
(* commit, fail, prepare and requeue_after_shutdown all look at the flag   *)
(* under the row lock (task_completion.py 68, task_failure_service.py 154).*)
CancelWins ==
    \A t \in Task : task[t].cancelling => task[t].status \notin {"completed", "failed"}

(* A task that waits has a run that accepts the user's answer: whatever    *)
(* late worker, shutdown or cancellation came by, it is not stranded.      *)
WaitingAnswerable ==
    \A t \in Task : task[t].status = "waiting" => run[t] = "waiting"

(* No submission is lost while a job for the task is unwinding: a queued   *)
(* task nobody recovers is announced, deferred or being picked up, unless  *)
(* a fault took the announcement (coordinator.submit, _on_task_finished).  *)
Announced(t) ==
    \/ t \in hints
    \/ \E p \in Proc : t \in deferred[p] \/ job[p][t] \in Inside \cup {"ready"}

NothingLost ==
    faults = 0 => \A t \in Task : task[t].status = "queued" => Announced(t)

(* At most Limit executions are inside the engine of one process, across   *)
(* submissions, deferred ones, recovery and shutdown.                      *)
Bounded == \A p \in Proc : Cardinality({t \in Task : job[p][t] \in Inside}) <= Limit

(* The result of a task is committed once: a process that carried the same *)
(* run to its end late finds a newer version and fails, and the failure    *)
(* leaves the completed task alone.                                        *)
NoSecondCommit ==
    [][\A p \in Proc, t \in Task :
          task[t].status = "completed" /\ job[p][t] = "finished"
              => job'[p][t] # "done"]_vars

(* Queued and running tasks settle: over, or waiting for their user. *)
Settles ==
    \A t \in Task : task[t].status \in {"queued", "running"}
                       ~> task[t].status \notin {"queued", "running"}

Durable == INSTANCE DurableTask
    WITH phase <- [t \in Task |-> task[t].status],
         wanted <- {t \in Task : task[t].cancelling}

(* The processes together keep the promise of DurableTask. *)
Refines == Durable!Spec

=============================================================================
