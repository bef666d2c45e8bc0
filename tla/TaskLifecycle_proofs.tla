------------------------- MODULE TaskLifecycle_proofs -------------------------
(***************************************************************************)
(* Theorems about TaskLifecycle, for any number of tasks, processes and    *)
(* faults: the types, what its rows promise (an inductive invariant about  *)
(* who holds the stored version of a run), the refinement of DurableTask,  *)
(* the capacity of a process and the single commit of a result.            *)
(***************************************************************************)
EXTENDS TaskLifecycle, FiniteSetTheorems, TLAPS

-----------------------------------------------------------------------------
(* What the shared parts of the actions do to the types.                   *)
LEMMA RowType ==
    ASSUME NEW r \in TaskRow
    PROVE  /\ \A l \in BOOLEAN : [r EXCEPT !.leased = l] \in TaskRow
           /\ \A o \in Proc \cup {NoOwner, Gone} : [r EXCEPT !.owner = o] \in TaskRow
           /\ \A s \in TaskStatus : [r EXCEPT !.status = s] \in TaskRow
           /\ \A c \in BOOLEAN : [r EXCEPT !.cancelling = c] \in TaskRow
           /\ \A s \in TaskStatus, c \in BOOLEAN :
                 [r EXCEPT !.status = s, !.cancelling = c] \in TaskRow
           /\ \A s \in TaskStatus, o \in Proc \cup {NoOwner, Gone}, l \in BOOLEAN :
                 [r EXCEPT !.status = s, !.owner = o, !.leased = l] \in TaskRow
  BY DEF TaskRow

LEMMA EndTaskType ==
    ASSUME task \in [Task -> TaskRow], NEW t \in Task, NEW s \in TaskStatus,
           EndTask(t, s)
    PROVE  task' \in [Task -> TaskRow]
  BY DEF EndTask, TaskRow

LEMMA FinalizeType ==
    ASSUME run \in [Task -> RunStatus], fresh \in [Proc -> SUBSET Task],
           NEW t \in Task, NEW s \in RunStatus, FinalizeRun(t, s)
    PROVE  run' \in [Task -> RunStatus] /\ fresh' \in [Proc -> SUBSET Task]
  BY DEF FinalizeRun, NoneFresh

LEMMA CancelledType ==
    ASSUME TypeOK, NEW t \in Task, MarkCancelled(t)
    PROVE  /\ task' \in [Task -> TaskRow]
           /\ run' \in [Task -> RunStatus] /\ fresh' \in [Proc -> SUBSET Task]
  <1>. "cancelled" \in TaskStatus /\ "cancelled" \in RunStatus
    BY DEF TaskStatus, RunStatus, Over
  <1>. QED  BY EndTaskType, FinalizeType DEF MarkCancelled, TypeOK

LEMMA CheckpointType ==
    ASSUME run \in [Task -> RunStatus], fresh \in [Proc -> SUBSET Task],
           task \in [Task -> TaskRow], NEW p \in Proc, NEW t \in Task,
           NEW s \in RunStatus, NEW projected \in TaskStatus,
           Checkpoint(p, t, s, projected)
    PROVE  /\ run' \in [Task -> RunStatus]
           /\ fresh' \in [Proc -> SUBSET Task]
           /\ task' \in [Task -> TaskRow]
  <1>1. task' \in [Task -> TaskRow]
    BY DEF Checkpoint, TaskRow
  <1>2. fresh' \in [Proc -> SUBSET Task]
    BY DEF Checkpoint, OnlyFresh
  <1>. QED  BY <1>1, <1>2 DEF Checkpoint

LEMMA EndJobType ==
    ASSUME job \in [Proc -> [Task -> JobState]], beating \in [Proc -> SUBSET Task],
           NEW p \in Proc, NEW t \in Task, EndJob(p, t)
    PROVE  job' \in [Proc -> [Task -> JobState]] /\ beating' \in [Proc -> SUBSET Task]
  BY DEF EndJob, JobState

LEMMA GoToType ==
    ASSUME job \in [Proc -> [Task -> JobState]], beating \in [Proc -> SUBSET Task],
           NEW p \in Proc, NEW t \in Task, NEW s \in JobState, GoTo(p, t, s)
    PROVE  job' \in [Proc -> [Task -> JobState]] /\ beating' \in [Proc -> SUBSET Task]
  BY DEF GoTo

LEMMA SubmitType ==
    ASSUME job \in [Proc -> [Task -> JobState]], deferred \in [Proc -> SUBSET Task],
           NEW p \in Proc, NEW S \in SUBSET Task, SubmitAll(p, S)
    PROVE  job' \in [Proc -> [Task -> JobState]] /\ deferred' \in [Proc -> SUBSET Task]
  BY DEF SubmitAll, JobState

LEMMA RecoverType ==
    ASSUME TypeOK, NEW p \in Proc, RecoverTasks(p)
    PROVE  /\ task' \in [Task -> TaskRow]
           /\ job' \in [Proc -> [Task -> JobState]]
           /\ deferred' \in [Proc -> SUBSET Task]
           /\ UNCHANGED <<run, hints, fresh, beating, faults>>
  <1>0. p \in Proc \cup {NoOwner, Gone} /\ TRUE \in BOOLEAN /\ "queued" \in TaskStatus
    BY DEF TaskStatus
  <1>1. task' \in [Task -> TaskRow]
    <2>1. \A t \in Task : [task[t] EXCEPT !.status = "queued", !.owner = p, !.leased = TRUE]
                             \in TaskRow
      BY <1>0, RowType DEF TypeOK
    <2>. QED  BY <2>1 DEF TypeOK, RecoverTasks
  <1>2. Recoverable \in SUBSET Task
    BY DEF Recoverable
  <1>. QED  BY <1>1, <1>2, SubmitType DEF TypeOK, RecoverTasks

LEMMA GoneType ==
    ASSUME TypeOK, NEW p \in Proc, ProcessGone(p)
    PROVE  /\ task' \in [Task -> TaskRow]
           /\ mode' \in [Proc -> {"up", "stopping", "down"}]
           /\ job' \in [Proc -> [Task -> JobState]]
           /\ deferred' \in [Proc -> SUBSET Task]
           /\ fresh' \in [Proc -> SUBSET Task]
           /\ beating' \in [Proc -> SUBSET Task]
  <1>1. task' \in [Task -> TaskRow]
    <2>1. \A t \in Task : [task[t] EXCEPT !.owner = Gone] \in TaskRow
      BY RowType DEF TypeOK
    <2>. QED  BY <2>1 DEF TypeOK, ProcessGone, Orphan
  <1>2. job' \in [Proc -> [Task -> JobState]]
    BY DEF TypeOK, ProcessGone, JobState
  <1>. QED  BY <1>1, <1>2 DEF TypeOK, ProcessGone

-----------------------------------------------------------------------------
LEMMA InitType == Init => TypeOK
  <1>. SUFFICES ASSUME Init
                PROVE  TypeOK
    OBVIOUS
  <1>1. NewTask(1, NoTask) \in TaskRow
    BY LifecycleAssumption DEF NewTask, TaskRow, TaskStatus
  <1>2. Absent \in TaskRow
    BY <1>1 DEF Absent, TaskRow, TaskStatus
  <1>3. task \in [Task -> TaskRow]
    BY <1>2 DEF Init
  <1>4. job \in [Proc -> [Task -> JobState]]
    BY DEF Init, JobState
  <1>. QED  BY <1>3, <1>4 DEF Init, TypeOK, RunStatus

LEMMA NextType == TypeOK /\ [Next]_vars => TypeOK'
  <1>. SUFFICES ASSUME TypeOK, [Next]_vars
                PROVE  TypeOK'
    OBVIOUS
  <1>1. ASSUME NEW p \in Proc, NEW t \in Task, Deliver(p, t)
        PROVE  TypeOK'
    BY <1>1, SubmitType DEF Deliver, TypeOK
  <1>2. ASSUME NEW p \in Proc, NEW t \in Task, JobFinished(p, t)
        PROVE  TypeOK'
    <2>1. job' \in [Proc -> [Task -> JobState]]
      <3>1. GoTo(p, t, "ready") \/ GoTo(p, t, "none")
        BY <1>2 DEF JobFinished, GoTo
      <3>. QED  BY <3>1, GoToType DEF TypeOK, JobState
    <2>2. deferred' \in [Proc -> SUBSET Task]
      BY <1>2 DEF JobFinished, TypeOK
    <2>. QED  BY <1>2, <2>1, <2>2 DEF JobFinished, TypeOK
  <1>3. ASSUME NEW p \in Proc, NEW t \in Task, Enter(p, t)
        PROVE  TypeOK'
    BY <1>3, GoToType DEF Enter, TypeOK, JobState
  <1>4. ASSUME NEW p \in Proc, NEW t \in Task, Prepare(p, t)
        PROVE  TypeOK'
    <2>1. CASE EndJob(p, t) /\ UNCHANGED <<task, run, fresh>>
      BY <1>4, <2>1, EndJobType DEF Prepare, TypeOK
    <2>2. CASE MarkCancelled(t) /\ EndJob(p, t)
      BY <1>4, <2>2, CancelledType, EndJobType DEF Prepare, TypeOK
    <2>3. CASE /\ task' = [task EXCEPT ![t].status = "running", ![t].owner = p,
                                       ![t].leased = TRUE]
               /\ run' = [run EXCEPT ![t] = IF @ = "absent" THEN "live" ELSE @]
               /\ fresh' = [fresh EXCEPT ![p] = @ \cup {t}]
               /\ job' = [job EXCEPT ![p][t] = "running"]
               /\ beating' = [beating EXCEPT ![p] = @ \cup {t}]
      <3>1. task' \in [Task -> TaskRow]
        BY <2>3, RowType DEF TypeOK, TaskStatus
      <3>2. job' \in [Proc -> [Task -> JobState]]
        BY <2>3 DEF TypeOK, JobState
      <3>3. run' \in [Task -> RunStatus]
        BY <2>3 DEF TypeOK, RunStatus
      <3>. QED  BY <1>4, <2>3, <3>1, <3>2, <3>3 DEF Prepare, TypeOK
    <2>. QED  BY <1>4, <2>1, <2>2, <2>3 DEF Prepare
  <1>5. ASSUME NEW p \in Proc, NEW t \in Task, PrepareFails(p, t)
        PROVE  TypeOK'
    BY <1>5, GoToType DEF PrepareFails, TypeOK, JobState
  <1>6. ASSUME NEW p \in Proc, NEW t \in Task, Advance(p, t)
        PROVE  TypeOK'
    <2>1. /\ run' \in [Task -> RunStatus]
          /\ fresh' \in [Proc -> SUBSET Task]
          /\ task' \in [Task -> TaskRow]
      <3>. DEFINE s == IF task[t].status = "waiting" THEN "running" ELSE task[t].status
      <3>1. s \in TaskStatus /\ "live" \in RunStatus
        BY DEF TypeOK, TaskRow, TaskStatus, RunStatus
      <3>2. Checkpoint(p, t, "live", s)
        BY <1>6 DEF Advance
      <3>. HIDE DEF s
      <3>. QED  BY <3>1, <3>2, CheckpointType DEF TypeOK
    <2>. QED  BY <1>6, <2>1 DEF Advance, TypeOK
  <1>7. ASSUME NEW p \in Proc, NEW t \in Task, Suspend(p, t)
        PROVE  TypeOK'
    <2>1. "waiting" \in RunStatus /\ "waiting" \in TaskStatus /\ "suspending" \in JobState
      BY DEF RunStatus, TaskStatus, JobState
    <2>. QED  BY <1>7, <2>1, CheckpointType, GoToType DEF Suspend, TypeOK
  <1>8. ASSUME NEW p \in Proc, NEW t \in Task, Suspended(p, t)
        PROVE  TypeOK'
    BY <1>8, EndJobType DEF Suspended, TypeOK
  <1>9. ASSUME NEW p \in Proc, NEW t \in Task, RunEnds(p, t)
        PROVE  TypeOK'
    <2>1. PICK s \in {"completed", "failed"} :
             /\ Checkpoint(p, t, s, task[t].status)
             /\ GoTo(p, t, IF s = "completed" THEN "finished" ELSE "failing")
      BY <1>9 DEF RunEnds
    <2>2. s \in RunStatus /\ task[t].status \in TaskStatus
      BY DEF RunStatus, TypeOK, TaskRow, Over
    <2>3. "finished" \in JobState /\ "failing" \in JobState
      BY DEF JobState
    <2>4. job' \in [Proc -> [Task -> JobState]] /\ beating' \in [Proc -> SUBSET Task]
      BY <2>1, <2>3, GoToType DEF TypeOK
    <2>. QED  BY <1>9, <2>1, <2>2, <2>4, CheckpointType DEF RunEnds, TypeOK
  <1>10. ASSUME NEW p \in Proc, NEW t \in Task, RunWasOver(p, t)
         PROVE  TypeOK'
    BY <1>10, GoToType DEF RunWasOver, TypeOK, JobState
  <1>11. ASSUME NEW p \in Proc, NEW t \in Task, Conflict(p, t)
         PROVE  TypeOK'
    BY <1>11, GoToType DEF Conflict, TypeOK, JobState
  <1>12. ASSUME NEW p \in Proc, NEW t \in Task, Commit(p, t)
         PROVE  TypeOK'
    <2>1. task' \in [Task -> TaskRow]
      BY <1>12, EndTaskType DEF Commit, MarkCancelled, TypeOK, TaskStatus, Over
    <2>2. run' \in [Task -> RunStatus] /\ fresh' \in [Proc -> SUBSET Task]
      BY <1>12, FinalizeType
         DEF Commit, MarkCancelled, OnlyFresh, TypeOK, RunStatus, Over
    <2>. QED  BY <1>12, <2>1, <2>2, EndJobType DEF Commit, TypeOK
  <1>13. ASSUME NEW p \in Proc, NEW t \in Task, Fail(p, t)
         PROVE  TypeOK'
    <2>1. task' \in [Task -> TaskRow]
      BY <1>13, EndTaskType DEF Fail, MarkCancelled, TypeOK, TaskStatus, Over
    <2>2. run' \in [Task -> RunStatus] /\ fresh' \in [Proc -> SUBSET Task]
      BY <1>13, FinalizeType DEF Fail, MarkCancelled, TypeOK, RunStatus, Over
    <2>. QED  BY <1>13, <2>1, <2>2, EndJobType DEF Fail, TypeOK
  <1>14. ASSUME NEW p \in Proc, NEW t \in Task, RequeueAfterShutdown(p, t)
         PROVE  TypeOK'
    <2>1. CASE UNCHANGED <<task, run, fresh>>
      BY <1>14, <2>1, EndJobType DEF RequeueAfterShutdown, TypeOK
    <2>2. CASE MarkCancelled(t)
      BY <1>14, <2>2, CancelledType, EndJobType DEF RequeueAfterShutdown, TypeOK
    <2>3. CASE /\ task' = [task EXCEPT ![t].status = "queued", ![t].owner = NoOwner,
                                       ![t].leased = FALSE]
               /\ UNCHANGED <<run, fresh>>
      <3>1. task' \in [Task -> TaskRow]
        BY <2>3, RowType DEF TypeOK, TaskStatus
      <3>. QED  BY <1>14, <2>3, <3>1, EndJobType DEF RequeueAfterShutdown, TypeOK
    <2>. QED  BY <1>14, <2>1, <2>2, <2>3 DEF RequeueAfterShutdown
  <1>15. ASSUME NEW p \in Proc, NEW t \in Task, HeartbeatEnds(p, t)
         PROVE  TypeOK'
    BY <1>15 DEF HeartbeatEnds, TypeOK
  <1>16. ASSUME NEW t \in Task, LeaseLapses(t)
         PROVE  TypeOK'
    <2>1. task' = [task EXCEPT ![t].leased = FALSE]
      BY <1>16 DEF LeaseLapses
    <2>2. task' \in [Task -> TaskRow]
      BY <2>1, RowType DEF TypeOK, TaskStatus
    <2>. QED  BY <1>16, <2>2 DEF LeaseLapses, TypeOK
  <1>17. ASSUME NEW t \in Task, HeartbeatLate(t)
         PROVE  TypeOK'
    <2>1. task' = [task EXCEPT ![t].leased = FALSE]
      BY <1>17 DEF HeartbeatLate
    <2>2. task' \in [Task -> TaskRow]
      BY <2>1, RowType DEF TypeOK, TaskStatus
    <2>. QED  BY <1>17, <2>2 DEF HeartbeatLate, TypeOK
  <1>18. ASSUME NEW t \in Task, LoseHint(t)
         PROVE  TypeOK'
    BY <1>18 DEF LoseHint, TypeOK
  <1>19. ASSUME NEW t \in Task, Create(t)
         PROVE  TypeOK'
    BY <1>19, LifecycleAssumption DEF Create, TypeOK, NewTask, TaskRow, TaskStatus
  <1>20. ASSUME NEW t \in Task, Cancel(t)
         PROVE  TypeOK'
    <2>1. task' \in [Task -> TaskRow]
      <3>1. \/ task' = [task EXCEPT ![t].status = "cancelled", ![t].cancelling = TRUE]
            \/ task' = [task EXCEPT ![t].cancelling = TRUE]
        BY <1>20 DEF Cancel
      <3>2. [task EXCEPT ![t].status = "cancelled", ![t].cancelling = TRUE] \in [Task -> TaskRow]
        BY RowType DEF TypeOK, TaskStatus, Over
      <3>3. [task EXCEPT ![t].cancelling = TRUE] \in [Task -> TaskRow]
        BY RowType DEF TypeOK
      <3>. QED  BY <3>1, <3>2, <3>3
    <2>2. run' \in [Task -> RunStatus] /\ fresh' \in [Proc -> SUBSET Task]
      BY <1>20, FinalizeType DEF Cancel, TypeOK, RunStatus, Over
    <2>. QED  BY <1>20, <2>1, <2>2 DEF Cancel, TypeOK
  <1>21. ASSUME NEW t \in Task, Answer(t)
         PROVE  TypeOK'
    <2>1. task' = [task EXCEPT ![t].status = "queued"]
      BY <1>21 DEF Answer
    <2>2. task' \in [Task -> TaskRow]
      BY <2>1, RowType DEF TypeOK, TaskStatus
    <2>. QED  BY <1>21, <2>2 DEF Answer, TypeOK
  <1>22. ASSUME NEW p \in Proc, Recover(p)
         PROVE  TypeOK'
    BY <1>22, RecoverType DEF Recover, TypeOK
  <1>23. ASSUME NEW p \in Proc, Shutdown(p)
         PROVE  TypeOK'
    BY <1>23 DEF Shutdown, TypeOK, JobState
  <1>24. ASSUME NEW p \in Proc, Stop(p)
         PROVE  TypeOK'
    BY <1>24, GoneType DEF Stop, TypeOK
  <1>25. ASSUME NEW p \in Proc, Crash(p)
         PROVE  TypeOK'
    BY <1>25, GoneType DEF Crash, TypeOK
  <1>26. ASSUME NEW p \in Proc, Restart(p)
         PROVE  TypeOK'
    BY <1>26, RecoverType DEF Restart, TypeOK
  <1>27. ASSUME NEW t \in Task, NEW u \in Task, Retry(t, u)
         PROVE  TypeOK'
    BY <1>27, LifecycleAssumption DEF Retry, TypeOK, NewTask, TaskRow, TaskStatus
  <1>28. CASE UNCHANGED vars
    BY <1>28 DEF TypeOK, vars
  <1>. QED
    BY <1>1, <1>2, <1>3, <1>4, <1>5, <1>6, <1>7, <1>8, <1>9, <1>10, <1>11,
       <1>12, <1>13, <1>14, <1>15, <1>16, <1>17, <1>18, <1>19, <1>20, <1>21,
       <1>22, <1>23, <1>24, <1>25, <1>26, <1>27, <1>28
       DEF Next, Execute, User, Rest

(* Every reachable state has the types TypeOK gives. *)
THEOREM TypeCorrect == Spec => []TypeOK
  <1>. QED  BY InitType, NextType, PTL DEF Spec

-----------------------------------------------------------------------------
(***************************************************************************)
(* The inductive invariant.  The properties speak of the rows alone; what  *)
(* keeps them is who may still hold the stored version of a run.           *)
(***************************************************************************)

(* What a user may rely on, of one task; nobody has touched one that was   *)
(* never created.                                                          *)
Settled(t) ==
    /\ task[t].status = "absent" => run[t] = "absent" /\ ~task[t].cancelling /\ t \notin hints
    /\ task[t].cancelling => task[t].status \notin {"completed", "failed"}
    /\ task[t].status = "completed" => run[t] = "completed"
    /\ task[t].status = "failed" => run[t] \in {"absent", "failed"}
    /\ task[t].status = "cancelled" => run[t] \in {"absent"} \cup Over
    /\ task[t].status = "waiting" => run[t] = "waiting"

(* A process that holds the stored version of a run has its task open, or  *)
(* finds the run over and a cancellation requested before it can commit.   *)
Held(p, t) ==
    /\ task[t].status = "absent" => t \notin deferred[p] /\ job[p][t] = "none"
    /\ t \in fresh[p] =>
          /\ run[t] # "absent"
          /\ task[t].status \in Over =>
                /\ run[t] \in Over
                /\ job[p][t] \in {"running", "finished"} => task[t].cancelling
          /\ job[p][t] = "running" => task[t].status # "waiting"

IInv ==
    /\ TypeOK
    /\ \A t \in Task : Settled(t)
    /\ \A p \in Proc, t \in Task : Held(p, t)

LEMMA InitInv == Init => IInv
  <1>. SUFFICES ASSUME Init
                PROVE  IInv
    OBVIOUS
  <1>1. Absent.status = "absent" /\ ~Absent.cancelling
    BY DEF Absent, NewTask
  <1>2. \A t \in Task : Settled(t)
    BY <1>1 DEF Init, Settled
  <1>3. \A p \in Proc, t \in Task : Held(p, t)
    BY DEF Init, Held
  <1>. QED  BY InitType, <1>2, <1>3 DEF IInv

(* A task whose cancellation was requested is cancelled with its run, and  *)
(* no process can commit a result of it any more.                          *)
LEMMA CancelledKeeps ==
    ASSUME IInv, NEW p \in Proc, NEW t \in Task, task[t].cancelling,
           MarkCancelled(t), EndJob(p, t), UNCHANGED <<hints, deferred>>
    PROVE  (\A v \in Task : Settled(v)') /\ (\A q \in Proc, v \in Task : Held(q, v)')
  <1>1. \A v \in Task : Settled(v)'
    BY DEF IInv, TypeOK, TaskRow, Over, Settled, MarkCancelled, EndTask, FinalizeRun
  <1>2. \A q \in Proc, v \in Task : v # t => Held(q, v)'
    BY DEF IInv, TypeOK, TaskRow, Over, Held, MarkCancelled, EndTask, EndJob,
           FinalizeRun, NoneFresh
  <1>3. \A q \in Proc : Held(q, t)'
    BY DEF IInv, TypeOK, TaskRow, Over, Held, MarkCancelled, EndTask, EndJob,
           FinalizeRun, NoneFresh
  <1>. QED  BY <1>1, <1>2, <1>3

(* Recovery hands out queued and running tasks only. *)
LEMMA RecoverKeeps ==
    ASSUME IInv, NEW p \in Proc, RecoverTasks(p)
    PROVE  (\A v \in Task : Settled(v)') /\ (\A q \in Proc, v \in Task : Held(q, v)')
  <1>1. \A v \in Task : /\ task'[v].cancelling = task[v].cancelling
                        /\ \/ task'[v].status = task[v].status
                           \/ /\ task[v].status \in {"queued", "running"}
                              /\ task'[v].status = "queued"
    BY DEF IInv, TypeOK, TaskRow, RecoverTasks, Recoverable
  <1>2. UNCHANGED <<run, hints, fresh>>
    BY DEF RecoverTasks
  <1>3. \A v \in Task : Settled(v)'
    BY <1>1, <1>2 DEF IInv, Settled, Over
  <1>4. \A q \in Proc, v \in Task :
           /\ job'[q][v] \in {job[q][v], "ready"}
           /\ v \notin Recoverable =>
                 /\ job'[q][v] = job[q][v]
                 /\ v \in deferred'[q] => v \in deferred[q]
    BY DEF IInv, TypeOK, RecoverTasks, SubmitAll
  <1>5. \A v \in Recoverable : task[v].status # "absent"
    BY DEF Recoverable
  <1>6. \A q \in Proc, v \in Task : Held(q, v)'
    BY <1>1, <1>2, <1>4, <1>5 DEF IInv, Held, Over
  <1>. QED  BY <1>3, <1>6

LEMMA NextInv == IInv /\ [Next]_vars => IInv'
  <1>. SUFFICES ASSUME IInv, [Next]_vars
                PROVE  (\A v \in Task : Settled(v)') /\ (\A q \in Proc, v \in Task : Held(q, v)')
    BY NextType DEF IInv
  <1>1. ASSUME NEW p \in Proc, NEW t \in Task, Deliver(p, t)
        PROVE  (\A v \in Task : Settled(v)') /\ (\A q \in Proc, v \in Task : Held(q, v)')
    <2>1. \A v \in Task : Settled(v)'
      BY <1>1
         DEF IInv, TypeOK, TaskRow, Over, Settled, Held, Deliver, SubmitAll,
             Idle
    <2>2. \A q \in Proc, v \in Task : Held(q, v)'
      BY <1>1
         DEF IInv, TypeOK, TaskRow, Over, Settled, Held, Deliver, SubmitAll,
             Idle
    <2>. QED  BY <2>1, <2>2
  <1>2. ASSUME NEW p \in Proc, NEW t \in Task, JobFinished(p, t)
        PROVE  (\A v \in Task : Settled(v)') /\ (\A q \in Proc, v \in Task : Held(q, v)')
    <2>1. \A v \in Task : Settled(v)'
      BY <1>2 DEF IInv, TypeOK, TaskRow, Over, Settled, Held, JobFinished
    <2>2. \A q \in Proc, v \in Task : Held(q, v)'
      BY <1>2 DEF IInv, TypeOK, TaskRow, Over, Settled, Held, JobFinished
    <2>. QED  BY <2>1, <2>2
  <1>3. ASSUME NEW p \in Proc, NEW t \in Task, Enter(p, t)
        PROVE  (\A v \in Task : Settled(v)') /\ (\A q \in Proc, v \in Task : Held(q, v)')
    <2>1. \A v \in Task : Settled(v)'
      BY <1>3 DEF IInv, TypeOK, TaskRow, Over, Settled, Held, Enter, GoTo
    <2>2. \A q \in Proc, v \in Task : Held(q, v)'
      BY <1>3 DEF IInv, TypeOK, TaskRow, Over, Settled, Held, Enter, GoTo
    <2>. QED  BY <2>1, <2>2
  <1>4. ASSUME NEW p \in Proc, NEW t \in Task, Prepare(p, t)
        PROVE  (\A v \in Task : Settled(v)') /\ (\A q \in Proc, v \in Task : Held(q, v)')
    <2>1. CASE ~CanStart(p, t)
      <3>1. job[p][t] # "none" /\ job' = [job EXCEPT ![p][t] = "done"] /\ UNCHANGED <<task, run, fresh, hints, deferred>>
        BY <1>4, <2>1 DEF Prepare, EndJob
      <3>2. \A v \in Task : Settled(v)'
        BY <2>1, <3>1 DEF IInv, TypeOK, TaskRow, Over, Settled, Held
      <3>3. \A q \in Proc, v \in Task : v # t => Held(q, v)'
        BY <2>1, <3>1 DEF IInv, TypeOK, TaskRow, Over, Settled, Held
      <3>4. \A q \in Proc : Held(q, t)'
        BY <2>1, <3>1 DEF IInv, TypeOK, TaskRow, Over, Settled, Held
      <3>. QED  BY <3>2, <3>3, <3>4
    <2>2. CASE CanStart(p, t) /\ task[t].cancelling
      BY <1>4, <2>2, CancelledKeeps DEF Prepare, IInv, TypeOK
    <2>3. CASE CanStart(p, t) /\ ~task[t].cancelling
      <3>1. /\ task[t].status = "queued"
            /\ task' = [task EXCEPT ![t].status = "running", ![t].owner = p,
                                    ![t].leased = TRUE]
            /\ run' = [run EXCEPT ![t] = IF @ = "absent" THEN "live" ELSE @]
            /\ fresh' = [fresh EXCEPT ![p] = @ \cup {t}]
            /\ job' = [job EXCEPT ![p][t] = "running"]
            /\ UNCHANGED <<hints, deferred>>
        BY <1>4, <2>3 DEF Prepare, CanStart
      <3>2. \A v \in Task : Settled(v)'
        BY <2>3, <3>1 DEF IInv, TypeOK, TaskRow, Over, Settled, Held
      <3>3. \A q \in Proc, v \in Task : v # t => Held(q, v)'
        BY <2>3, <3>1 DEF IInv, TypeOK, TaskRow, Over, Settled, Held
      <3>4. \A q \in Proc : Held(q, t)'
        BY <2>3, <3>1 DEF IInv, TypeOK, TaskRow, Over, Settled, Held
      <3>. QED  BY <3>2, <3>3, <3>4
    <2>. QED  BY <1>4, <2>1, <2>2, <2>3 DEF Prepare
  <1>5. ASSUME NEW p \in Proc, NEW t \in Task, PrepareFails(p, t)
        PROVE  (\A v \in Task : Settled(v)') /\ (\A q \in Proc, v \in Task : Held(q, v)')
    <2>1. \A v \in Task : Settled(v)'
      BY <1>5 DEF IInv, TypeOK, TaskRow, Over, Settled, Held, PrepareFails, GoTo
    <2>2. \A q \in Proc, v \in Task : Held(q, v)'
      BY <1>5 DEF IInv, TypeOK, TaskRow, Over, Settled, Held, PrepareFails, GoTo
    <2>. QED  BY <2>1, <2>2
  <1>6. ASSUME NEW p \in Proc, NEW t \in Task, Advance(p, t)
        PROVE  (\A v \in Task : Settled(v)') /\ (\A q \in Proc, v \in Task : Held(q, v)')
    <2>1. \A v \in Task : Settled(v)'
      BY <1>6
         DEF IInv, TypeOK, TaskRow, Over, Settled, Held, Advance, Running,
             Checkpoint, OnlyFresh
    <2>2. \A q \in Proc, v \in Task : Held(q, v)'
      BY <1>6
         DEF IInv, TypeOK, TaskRow, Over, Settled, Held, Advance, Running,
             Checkpoint, OnlyFresh
    <2>. QED  BY <2>1, <2>2
  <1>7. ASSUME NEW p \in Proc, NEW t \in Task, Suspend(p, t)
        PROVE  (\A v \in Task : Settled(v)') /\ (\A q \in Proc, v \in Task : Held(q, v)')
    <2>1. \A v \in Task : Settled(v)'
      BY <1>7
         DEF IInv, TypeOK, TaskRow, Over, Settled, Held, Suspend, Running,
             Checkpoint, OnlyFresh, GoTo
    <2>2. \A q \in Proc, v \in Task : Held(q, v)'
      BY <1>7
         DEF IInv, TypeOK, TaskRow, Over, Settled, Held, Suspend, Running,
             Checkpoint, OnlyFresh, GoTo
    <2>. QED  BY <2>1, <2>2
  <1>8. ASSUME NEW p \in Proc, NEW t \in Task, Suspended(p, t)
        PROVE  (\A v \in Task : Settled(v)') /\ (\A q \in Proc, v \in Task : Held(q, v)')
    <2>1. \A v \in Task : Settled(v)'
      BY <1>8 DEF IInv, TypeOK, TaskRow, Over, Settled, Held, Suspended, EndJob
    <2>2. \A q \in Proc, v \in Task : Held(q, v)'
      BY <1>8 DEF IInv, TypeOK, TaskRow, Over, Settled, Held, Suspended, EndJob
    <2>. QED  BY <2>1, <2>2
  <1>9. ASSUME NEW p \in Proc, NEW t \in Task, RunEnds(p, t)
        PROVE  (\A v \in Task : Settled(v)') /\ (\A q \in Proc, v \in Task : Held(q, v)')
    <2>1. \A v \in Task : Settled(v)'
      BY <1>9
         DEF IInv, TypeOK, TaskRow, Over, Settled, Held, RunEnds, Running,
             Checkpoint, OnlyFresh, GoTo
    <2>2. \A q \in Proc, v \in Task : Held(q, v)'
      BY <1>9
         DEF IInv, TypeOK, TaskRow, Over, Settled, Held, RunEnds, Running,
             Checkpoint, OnlyFresh, GoTo
    <2>. QED  BY <2>1, <2>2
  <1>10. ASSUME NEW p \in Proc, NEW t \in Task, RunWasOver(p, t)
         PROVE  (\A v \in Task : Settled(v)') /\ (\A q \in Proc, v \in Task : Held(q, v)')
    <2>1. \A v \in Task : Settled(v)'
      BY <1>10
         DEF IInv, TypeOK, TaskRow, Over, Settled, Held, RunWasOver, Running,
             GoTo
    <2>2. \A q \in Proc, v \in Task : Held(q, v)'
      BY <1>10
         DEF IInv, TypeOK, TaskRow, Over, Settled, Held, RunWasOver, Running,
             GoTo
    <2>. QED  BY <2>1, <2>2
  <1>11. ASSUME NEW p \in Proc, NEW t \in Task, Conflict(p, t)
         PROVE  (\A v \in Task : Settled(v)') /\ (\A q \in Proc, v \in Task : Held(q, v)')
    <2>1. \A v \in Task : Settled(v)'
      BY <1>11 DEF IInv, TypeOK, TaskRow, Over, Settled, Held, Conflict, GoTo
    <2>2. \A q \in Proc, v \in Task : Held(q, v)'
      BY <1>11 DEF IInv, TypeOK, TaskRow, Over, Settled, Held, Conflict, GoTo
    <2>. QED  BY <2>1, <2>2
  <1>12. ASSUME NEW p \in Proc, NEW t \in Task, Commit(p, t)
         PROVE  (\A v \in Task : Settled(v)') /\ (\A q \in Proc, v \in Task : Held(q, v)')
    <2>1. CASE task[t].cancelling
      BY <1>12, <2>1, CancelledKeeps DEF Commit, IInv, TypeOK
    <2>2. CASE ~task[t].cancelling
      <3>1. /\ t \in fresh[p] /\ job[p][t] = "finished"
            /\ task' = [task EXCEPT ![t].status = "completed", ![t].leased = FALSE]
            /\ run' = [run EXCEPT ![t] = "completed"]
            /\ fresh' = OnlyFresh(p, t)
            /\ job' = [job EXCEPT ![p][t] = "done"]
            /\ UNCHANGED <<hints, deferred>>
        BY <1>12, <2>2 DEF Commit, EndTask, EndJob
      <3>2. \A v \in Task : Settled(v)'
        BY <2>2, <3>1 DEF IInv, TypeOK, TaskRow, Over, Settled, Held, OnlyFresh
      <3>3. \A q \in Proc, v \in Task : v # t => Held(q, v)'
        BY <2>2, <3>1 DEF IInv, TypeOK, TaskRow, Over, Settled, Held, OnlyFresh
      <3>4. \A q \in Proc : Held(q, t)'
        BY <2>2, <3>1 DEF IInv, TypeOK, TaskRow, Over, Settled, Held, OnlyFresh
      <3>. QED  BY <3>2, <3>3, <3>4
    <2>. QED  BY <1>12, <2>1, <2>2 DEF Commit
  <1>13. ASSUME NEW p \in Proc, NEW t \in Task, Fail(p, t)
         PROVE  (\A v \in Task : Settled(v)') /\ (\A q \in Proc, v \in Task : Held(q, v)')
    <2>1. CASE task[t].status \in {"completed", "cancelled"}
      <3>1. \A v \in Task : Settled(v)'
        BY <1>13, <2>1 DEF IInv, TypeOK, TaskRow, Over, Settled, Held, Fail, EndJob
      <3>2. \A q \in Proc, v \in Task : Held(q, v)'
        BY <1>13, <2>1 DEF IInv, TypeOK, TaskRow, Over, Settled, Held, Fail, EndJob
      <3>. QED  BY <3>1, <3>2
    <2>2. CASE task[t].status \notin {"completed", "cancelled"} /\ task[t].cancelling
      BY <1>13, <2>2, CancelledKeeps DEF Fail, IInv, TypeOK
    <2>3. CASE task[t].status \notin {"completed", "cancelled"} /\ ~task[t].cancelling
      <3>1. /\ job[p][t] = "failing"
            /\ task' = [task EXCEPT ![t].status = "failed", ![t].leased = FALSE]
            /\ FinalizeRun(t, "failed")
            /\ job' = [job EXCEPT ![p][t] = "done"]
            /\ UNCHANGED <<hints, deferred>>
        BY <1>13, <2>3 DEF Fail, EndTask, EndJob
      <3>2. \A v \in Task : Settled(v)'
        BY <2>3, <3>1
           DEF IInv, TypeOK, TaskRow, Over, Settled, Held, FinalizeRun,
               NoneFresh
      <3>3. \A q \in Proc, v \in Task : v # t => Held(q, v)'
        BY <2>3, <3>1
           DEF IInv, TypeOK, TaskRow, Over, Settled, Held, FinalizeRun,
               NoneFresh
      <3>4. \A q \in Proc : Held(q, t)'
        BY <2>3, <3>1
           DEF IInv, TypeOK, TaskRow, Over, Settled, Held, FinalizeRun,
               NoneFresh
      <3>. QED  BY <3>2, <3>3, <3>4
    <2>. QED  BY <1>13, <2>1, <2>2, <2>3 DEF Fail
  <1>14. ASSUME NEW p \in Proc, NEW t \in Task, RequeueAfterShutdown(p, t)
         PROVE  (\A v \in Task : Settled(v)') /\ (\A q \in Proc, v \in Task : Held(q, v)')
    <2>1. \A v \in Task : Settled(v)'
      BY <1>14
         DEF IInv, TypeOK, TaskRow, Over, Settled, Held, RequeueAfterShutdown,
             EndJob, MarkCancelled, EndTask, FinalizeRun, NoneFresh
    <2>2. \A q \in Proc, v \in Task : Held(q, v)'
      BY <1>14
         DEF IInv, TypeOK, TaskRow, Over, Settled, Held, RequeueAfterShutdown,
             EndJob, MarkCancelled, EndTask, FinalizeRun, NoneFresh
    <2>. QED  BY <2>1, <2>2
  <1>15. ASSUME NEW p \in Proc, NEW t \in Task, HeartbeatEnds(p, t)
         PROVE  (\A v \in Task : Settled(v)') /\ (\A q \in Proc, v \in Task : Held(q, v)')
    <2>1. \A v \in Task : Settled(v)'
      BY <1>15 DEF IInv, TypeOK, TaskRow, Over, Settled, Held, HeartbeatEnds
    <2>2. \A q \in Proc, v \in Task : Held(q, v)'
      BY <1>15 DEF IInv, TypeOK, TaskRow, Over, Settled, Held, HeartbeatEnds
    <2>. QED  BY <2>1, <2>2
  <1>16. ASSUME NEW t \in Task, LeaseLapses(t)
         PROVE  (\A v \in Task : Settled(v)') /\ (\A q \in Proc, v \in Task : Held(q, v)')
    <2>1. \A v \in Task : Settled(v)'
      BY <1>16 DEF IInv, TypeOK, TaskRow, Over, Settled, Held, LeaseLapses
    <2>2. \A q \in Proc, v \in Task : Held(q, v)'
      BY <1>16 DEF IInv, TypeOK, TaskRow, Over, Settled, Held, LeaseLapses
    <2>. QED  BY <2>1, <2>2
  <1>17. ASSUME NEW t \in Task, HeartbeatLate(t)
         PROVE  (\A v \in Task : Settled(v)') /\ (\A q \in Proc, v \in Task : Held(q, v)')
    <2>1. \A v \in Task : Settled(v)'
      BY <1>17 DEF IInv, TypeOK, TaskRow, Over, Settled, Held, HeartbeatLate
    <2>2. \A q \in Proc, v \in Task : Held(q, v)'
      BY <1>17 DEF IInv, TypeOK, TaskRow, Over, Settled, Held, HeartbeatLate
    <2>. QED  BY <2>1, <2>2
  <1>18. ASSUME NEW t \in Task, LoseHint(t)
         PROVE  (\A v \in Task : Settled(v)') /\ (\A q \in Proc, v \in Task : Held(q, v)')
    <2>1. \A v \in Task : Settled(v)'
      BY <1>18 DEF IInv, TypeOK, TaskRow, Over, Settled, Held, LoseHint
    <2>2. \A q \in Proc, v \in Task : Held(q, v)'
      BY <1>18 DEF IInv, TypeOK, TaskRow, Over, Settled, Held, LoseHint
    <2>. QED  BY <2>1, <2>2
  <1>19. ASSUME NEW t \in Task, Create(t)
         PROVE  (\A v \in Task : Settled(v)') /\ (\A q \in Proc, v \in Task : Held(q, v)')
    <2>1. \A v \in Task : Settled(v)'
      BY <1>19 DEF IInv, TypeOK, TaskRow, Over, Settled, Held, Create, NewTask
    <2>2. \A q \in Proc, v \in Task : Held(q, v)'
      BY <1>19 DEF IInv, TypeOK, TaskRow, Over, Settled, Held, Create, NewTask
    <2>. QED  BY <2>1, <2>2
  <1>20. ASSUME NEW t \in Task, Cancel(t)
         PROVE  (\A v \in Task : Settled(v)') /\ (\A q \in Proc, v \in Task : Held(q, v)')
    <2>1. CASE task[t].status \in {"queued", "waiting"} /\ run[t] \in Over
      <3>1. /\ task' = [task EXCEPT ![t].status = "cancelled", ![t].cancelling = TRUE]
            /\ UNCHANGED <<run, fresh, job, hints, deferred>>
        BY <1>20, <2>1 DEF Cancel
      <3>2. \A v \in Task : Settled(v)'
        BY <2>1, <3>1 DEF IInv, TypeOK, TaskRow, Over, Settled, Held
      <3>3. \A q \in Proc, v \in Task : v # t => Held(q, v)'
        BY <2>1, <3>1 DEF IInv, TypeOK, TaskRow, Over, Settled, Held
      <3>4. \A q \in Proc : Held(q, t)'
        BY <2>1, <3>1 DEF IInv, TypeOK, TaskRow, Over, Settled, Held
      <3>. QED  BY <3>2, <3>3, <3>4
    <2>2. CASE task[t].status \in {"queued", "waiting"} /\ run[t] \notin Over
      <3>1. \A v \in Task : Settled(v)'
        BY <1>20, <2>2
           DEF IInv, TypeOK, TaskRow, Over, Settled, Held, Cancel, FinalizeRun,
               NoneFresh
      <3>2. \A q \in Proc, v \in Task : Held(q, v)'
        BY <1>20, <2>2
           DEF IInv, TypeOK, TaskRow, Over, Settled, Held, Cancel, FinalizeRun,
               NoneFresh
      <3>. QED  BY <3>1, <3>2
    <2>3. CASE task[t].status \notin {"queued", "waiting"}
      <3>1. \A v \in Task : Settled(v)'
        BY <1>20, <2>3
           DEF IInv, TypeOK, TaskRow, Over, Settled, Held, Cancel, FinalizeRun
      <3>2. \A q \in Proc, v \in Task : Held(q, v)'
        BY <1>20, <2>3
           DEF IInv, TypeOK, TaskRow, Over, Settled, Held, Cancel, FinalizeRun
      <3>. QED  BY <3>1, <3>2
    <2>. QED  BY <1>20, <2>1, <2>2, <2>3 DEF Cancel
  <1>21. ASSUME NEW t \in Task, Answer(t)
         PROVE  (\A v \in Task : Settled(v)') /\ (\A q \in Proc, v \in Task : Held(q, v)')
    <2>1. \A v \in Task : Settled(v)'
      BY <1>21 DEF IInv, TypeOK, TaskRow, Over, Settled, Held, Answer
    <2>2. \A q \in Proc, v \in Task : Held(q, v)'
      BY <1>21 DEF IInv, TypeOK, TaskRow, Over, Settled, Held, Answer
    <2>. QED  BY <2>1, <2>2
  <1>22. ASSUME NEW p \in Proc, Recover(p)
         PROVE  (\A v \in Task : Settled(v)') /\ (\A q \in Proc, v \in Task : Held(q, v)')
    BY <1>22, RecoverKeeps DEF Recover
  <1>23. ASSUME NEW p \in Proc, Shutdown(p)
         PROVE  (\A v \in Task : Settled(v)') /\ (\A q \in Proc, v \in Task : Held(q, v)')
    <2>1. \A v \in Task : Settled(v)'
      BY <1>23 DEF IInv, TypeOK, TaskRow, Over, Settled, Held, Shutdown
    <2>2. PICK j \in [Task -> JobState] :
             /\ \A v \in Task : j[v] \in Cancelled(job[p][v])
             /\ job' = [job EXCEPT ![p] = j]
      BY <1>23 DEF Shutdown
    <2>3. \A v \in Task : /\ j[v] \notin {"running", "finished"}
                          /\ job[p][v] = "none" => j[v] = "none"
      BY <2>2 DEF Cancelled, IInv, TypeOK, JobState
    <2>4. \A q \in Proc, v \in Task : Held(q, v)'
      BY <1>23, <2>2, <2>3 DEF IInv, TypeOK, TaskRow, Over, Held, Shutdown
    <2>. QED  BY <2>1, <2>4
  <1>24. ASSUME NEW p \in Proc, Stop(p)
         PROVE  (\A v \in Task : Settled(v)') /\ (\A q \in Proc, v \in Task : Held(q, v)')
    <2>1. \A v \in Task : Settled(v)'
      BY <1>24
         DEF IInv, TypeOK, TaskRow, Over, Settled, Held, Stop, ProcessGone,
             Orphan
    <2>2. \A q \in Proc, v \in Task : Held(q, v)'
      BY <1>24
         DEF IInv, TypeOK, TaskRow, Over, Settled, Held, Stop, ProcessGone,
             Orphan
    <2>. QED  BY <2>1, <2>2
  <1>25. ASSUME NEW p \in Proc, Crash(p)
         PROVE  (\A v \in Task : Settled(v)') /\ (\A q \in Proc, v \in Task : Held(q, v)')
    <2>1. \A v \in Task : Settled(v)'
      BY <1>25
         DEF IInv, TypeOK, TaskRow, Over, Settled, Held, Crash, ProcessGone,
             Orphan
    <2>2. \A q \in Proc, v \in Task : Held(q, v)'
      BY <1>25
         DEF IInv, TypeOK, TaskRow, Over, Settled, Held, Crash, ProcessGone,
             Orphan
    <2>. QED  BY <2>1, <2>2
  <1>26. ASSUME NEW p \in Proc, Restart(p)
         PROVE  (\A v \in Task : Settled(v)') /\ (\A q \in Proc, v \in Task : Held(q, v)')
    BY <1>26, RecoverKeeps DEF Restart, IInv, Settled, Held
  <1>27. ASSUME NEW t \in Task, NEW u \in Task, Retry(t, u)
         PROVE  (\A v \in Task : Settled(v)') /\ (\A q \in Proc, v \in Task : Held(q, v)')
    <2>1. \A v \in Task : Settled(v)'
      BY <1>27 DEF IInv, TypeOK, TaskRow, Over, Settled, Held, Retry, NewTask
    <2>2. \A q \in Proc, v \in Task : Held(q, v)'
      BY <1>27 DEF IInv, TypeOK, TaskRow, Over, Settled, Held, Retry, NewTask
    <2>. QED  BY <2>1, <2>2
  <1>28. CASE UNCHANGED vars
    BY <1>28 DEF IInv, TypeOK, Settled, Held, vars
  <1>. QED
    BY <1>1, <1>2, <1>3, <1>4, <1>5, <1>6, <1>7, <1>8, <1>9, <1>10, <1>11,
       <1>12, <1>13, <1>14, <1>15, <1>16, <1>17, <1>18, <1>19, <1>20, <1>21,
       <1>22, <1>23, <1>24, <1>25, <1>26, <1>27, <1>28
       DEF Next, Execute, User, Rest


-----------------------------------------------------------------------------
(* The refinement of DurableTask: what a step does to one row, or to all   *)
(* the rows recovery hands out, is one step of the abstract task.          *)
Live == {"queued", "running", "waiting"}

Abstract == Durable!Next \/ UNCHANGED <<[t \in Task |-> task[t].status],
                                        {t \in Task : task[t].cancelling}>>

Legal(t) ==
    \/ task'[t].status = task[t].status /\ task'[t].cancelling = task[t].cancelling
    \/ /\ task[t].status = "absent" /\ task'[t].status = "queued"
       /\ task'[t].cancelling = task[t].cancelling
    \/ /\ task[t].status \in Live /\ task'[t].status \in Live
       /\ task'[t].cancelling = task[t].cancelling
    \/ /\ task[t].status \in Live /\ task'[t].status \in Over
       /\ task'[t].cancelling = task[t].cancelling
       /\ task'[t].status = "cancelled" <=> task[t].cancelling
    \/ /\ task[t].status \in Live /\ task'[t].cancelling
       /\ task'[t].status \in {task[t].status, "cancelled"}

LEMMA RowRefines ==
    ASSUME TypeOK, TypeOK', NEW t \in Task, Legal(t),
           \A v \in Task \ {t} : task'[v].status = task[v].status
                                 /\ task'[v].cancelling = task[v].cancelling
    PROVE  Abstract
  <1>. DEFINE phase == [v \in Task |-> task[v].status]
              wanted == {v \in Task : task[v].cancelling}
  <1>1. phase' = [phase EXCEPT ![t] = task'[t].status]
    OBVIOUS
  <1>2. \/ task'[t].cancelling = task[t].cancelling /\ wanted' = wanted
        \/ task'[t].cancelling /\ wanted' = wanted \cup {t}
    <2>1. \/ task'[t].cancelling = task[t].cancelling
          \/ task'[t].cancelling
      BY DEF Legal
    <2>2. task'[t].cancelling = task[t].cancelling => wanted' = wanted
      OBVIOUS
    <2>3. task'[t].cancelling => wanted' = wanted \cup {t}
      OBVIOUS
    <2>. QED  BY <2>1, <2>2, <2>3
  <1>3. CASE task'[t].status = task[t].status /\ task'[t].cancelling = task[t].cancelling
    BY <1>1, <1>2, <1>3 DEF Abstract
  <1>4. CASE /\ task[t].status = "absent" /\ task'[t].status = "queued"
             /\ task'[t].cancelling = task[t].cancelling
    <2>. Durable!Accept(t)
      BY <1>1, <1>2, <1>4 DEF Durable!Accept
    <2>. QED  BY DEF Abstract, Durable!Next
  <1>5. CASE /\ task[t].status \in Live /\ task'[t].status \in Live
             /\ task'[t].cancelling = task[t].cancelling
    <2>1. PICK p \in Durable!Live : task'[t].status = p
      BY <1>5 DEF Durable!Live, Live
    <2>2. Durable!Move(t, p)
      BY <1>1, <1>2, <1>5, <2>1 DEF Durable!Move, Durable!Live, Live
    <2>. QED  BY <2>2 DEF Abstract, Durable!Next
  <1>6. CASE /\ task[t].status \in Live /\ task'[t].status \in Over
             /\ task'[t].cancelling = task[t].cancelling
             /\ task'[t].status = "cancelled" <=> task[t].cancelling
    <2>1. PICK outcome \in Durable!Ended : task'[t].status = outcome
      BY <1>6 DEF Durable!Ended, Over
    <2>2. Durable!End(t, outcome)
      BY <1>1, <1>2, <1>6, <2>1 DEF Durable!End, Durable!Live, Live
    <2>. QED  BY <2>2 DEF Abstract, Durable!Next
  <1>7. CASE /\ task[t].status \in Live /\ task'[t].cancelling
             /\ task'[t].status \in {task[t].status, "cancelled"}
    <2>. Durable!WantCancelled(t)
      BY <1>1, <1>2, <1>7 DEF Durable!WantCancelled, Durable!Live, Live
    <2>. QED  BY DEF Abstract, Durable!Next
  <1>. QED  BY <1>3, <1>4, <1>5, <1>6, <1>7 DEF Legal

LEMMA RecoverRefines ==
    ASSUME IInv, NEW p \in Proc, RecoverTasks(p)
    PROVE  Abstract
  <1>1. \A v \in Recoverable : task[v].status \in Durable!Live
    BY DEF Recoverable, Durable!Live
  <1>2. \A v \in Task :
           /\ task'[v].cancelling = task[v].cancelling
           /\ task'[v].status = IF v \in Recoverable THEN "queued" ELSE task[v].status
    BY DEF IInv, TypeOK, TaskRow, RecoverTasks
  <1>3. PICK S \in SUBSET Task : S = Recoverable
    BY DEF Recoverable
  <1>4. Durable!Requeue(S)
    BY <1>1, <1>2, <1>3 DEF Durable!Requeue
  <1>. QED  BY <1>4 DEF Abstract, Durable!Next

LEMMA GoneRefines ==
    ASSUME IInv, NEW p \in Proc, ProcessGone(p)
    PROVE  Abstract
  <1>. \A v \in Task : /\ task'[v].cancelling = task[v].cancelling
                       /\ task'[v].status = task[v].status
    BY DEF IInv, TypeOK, TaskRow, ProcessGone, Orphan
  <1>. QED  BY DEF Abstract

LEMMA StepRefines == IInv /\ IInv' /\ [Next]_vars => Abstract
  <1>. SUFFICES ASSUME IInv, IInv', [Next]_vars
                PROVE  Abstract
    OBVIOUS
  <1>1. ASSUME NEW p \in Proc, NEW t \in Task, Deliver(p, t)
        PROVE  Abstract
    BY <1>1 DEF Deliver, Abstract
  <1>2. ASSUME NEW p \in Proc, NEW t \in Task, JobFinished(p, t)
        PROVE  Abstract
    BY <1>2 DEF JobFinished, Abstract
  <1>3. ASSUME NEW p \in Proc, NEW t \in Task, Enter(p, t)
        PROVE  Abstract
    BY <1>3 DEF Enter, Abstract
  <1>4. ASSUME NEW p \in Proc, NEW t \in Task, Prepare(p, t)
        PROVE  Abstract
    <2>1. \A v \in Task \ {t} : task'[v].status = task[v].status
                              /\ task'[v].cancelling = task[v].cancelling
      BY <1>4 DEF IInv, TypeOK, TaskRow, Prepare, CanStart, MarkCancelled, EndTask
    <2>2. Legal(t)
      BY <1>4
         DEF IInv, TypeOK, TaskRow, TaskStatus, Settled, Held, Legal, Live,
             Over, Prepare, CanStart, MarkCancelled, EndTask
    <2>. QED  BY <2>1, <2>2, RowRefines DEF IInv
  <1>5. ASSUME NEW p \in Proc, NEW t \in Task, PrepareFails(p, t)
        PROVE  Abstract
    BY <1>5 DEF PrepareFails, Abstract
  <1>6. ASSUME NEW p \in Proc, NEW t \in Task, Advance(p, t)
        PROVE  Abstract
    <2>1. \A v \in Task \ {t} : task'[v].status = task[v].status
                              /\ task'[v].cancelling = task[v].cancelling
      BY <1>6 DEF IInv, TypeOK, TaskRow, Advance, Running, Checkpoint
    <2>2. Legal(t)
      BY <1>6
         DEF IInv, TypeOK, TaskRow, TaskStatus, Settled, Held, Legal, Live,
             Over, Advance, Running, Checkpoint
    <2>. QED  BY <2>1, <2>2, RowRefines DEF IInv
  <1>7. ASSUME NEW p \in Proc, NEW t \in Task, Suspend(p, t)
        PROVE  Abstract
    <2>1. \A v \in Task \ {t} : task'[v].status = task[v].status
                              /\ task'[v].cancelling = task[v].cancelling
      BY <1>7 DEF IInv, TypeOK, TaskRow, Suspend, Running, Checkpoint
    <2>2. task[t].status \in Live
      <3>1. task[t].status \in TaskStatus /\ Settled(t)
        BY DEF IInv, TypeOK, TaskRow
      <3>2. t \in fresh[p] /\ run[t] \notin Over /\ Held(p, t)
        BY <1>7 DEF IInv, Suspend, Running, Over
      <3>. QED  BY <3>1, <3>2 DEF Settled, Held, TaskStatus, Live, Over
    <2>3. task'[t].status = "waiting" /\ task'[t].cancelling = task[t].cancelling
      BY <1>7 DEF IInv, TypeOK, TaskRow, Settled, Suspend, Running, Checkpoint
    <2>4. Legal(t)
      BY <2>2, <2>3 DEF Legal, Live
    <2>. QED  BY <2>1, <2>4, RowRefines DEF IInv
  <1>8. ASSUME NEW p \in Proc, NEW t \in Task, Suspended(p, t)
        PROVE  Abstract
    BY <1>8 DEF Suspended, Abstract
  <1>9. ASSUME NEW p \in Proc, NEW t \in Task, RunEnds(p, t)
        PROVE  Abstract
    <2>1. \A v \in Task \ {t} : task'[v].status = task[v].status
                              /\ task'[v].cancelling = task[v].cancelling
      BY <1>9 DEF IInv, TypeOK, TaskRow, RunEnds, Running, Checkpoint
    <2>2. Legal(t)
      BY <1>9
         DEF IInv, TypeOK, TaskRow, TaskStatus, Settled, Held, Legal, Live,
             Over, RunEnds, Running, Checkpoint
    <2>. QED  BY <2>1, <2>2, RowRefines DEF IInv
  <1>10. ASSUME NEW p \in Proc, NEW t \in Task, RunWasOver(p, t)
         PROVE  Abstract
    BY <1>10 DEF RunWasOver, Abstract
  <1>11. ASSUME NEW p \in Proc, NEW t \in Task, Conflict(p, t)
         PROVE  Abstract
    BY <1>11 DEF Conflict, Abstract
  <1>12. ASSUME NEW p \in Proc, NEW t \in Task, Commit(p, t)
         PROVE  Abstract
    <2>1. \A v \in Task \ {t} : task'[v].status = task[v].status
                              /\ task'[v].cancelling = task[v].cancelling
      BY <1>12 DEF IInv, TypeOK, TaskRow, Commit, MarkCancelled, EndTask
    <2>2. Legal(t)
      BY <1>12
         DEF IInv, TypeOK, TaskRow, TaskStatus, Settled, Held, Legal, Live,
             Over, Commit, MarkCancelled, EndTask
    <2>. QED  BY <2>1, <2>2, RowRefines DEF IInv
  <1>13. ASSUME NEW p \in Proc, NEW t \in Task, Fail(p, t)
         PROVE  Abstract
    <2>1. \A v \in Task \ {t} : task'[v].status = task[v].status
                              /\ task'[v].cancelling = task[v].cancelling
      BY <1>13 DEF IInv, TypeOK, TaskRow, Fail, MarkCancelled, EndTask
    <2>2. Legal(t)
      BY <1>13
         DEF IInv, TypeOK, TaskRow, TaskStatus, Settled, Held, Legal, Live,
             Over, Fail, MarkCancelled, EndTask
    <2>. QED  BY <2>1, <2>2, RowRefines DEF IInv
  <1>14. ASSUME NEW p \in Proc, NEW t \in Task, RequeueAfterShutdown(p, t)
         PROVE  Abstract
    <2>1. \A v \in Task \ {t} : task'[v].status = task[v].status
                              /\ task'[v].cancelling = task[v].cancelling
      BY <1>14
         DEF IInv, TypeOK, TaskRow, RequeueAfterShutdown, MarkCancelled, EndTask
    <2>2. Legal(t)
      BY <1>14
         DEF IInv, TypeOK, TaskRow, TaskStatus, Settled, Held, Legal, Live,
             Over, RequeueAfterShutdown, MarkCancelled, EndTask
    <2>. QED  BY <2>1, <2>2, RowRefines DEF IInv
  <1>15. ASSUME NEW p \in Proc, NEW t \in Task, HeartbeatEnds(p, t)
         PROVE  Abstract
    BY <1>15 DEF HeartbeatEnds, Abstract
  <1>16. ASSUME NEW t \in Task, LeaseLapses(t)
         PROVE  Abstract
    <2>1. \A v \in Task \ {t} : task'[v].status = task[v].status
                              /\ task'[v].cancelling = task[v].cancelling
      BY <1>16 DEF IInv, TypeOK, TaskRow, LeaseLapses
    <2>2. Legal(t)
      BY <1>16
         DEF IInv, TypeOK, TaskRow, TaskStatus, Settled, Held, Legal, Live,
             Over, LeaseLapses
    <2>. QED  BY <2>1, <2>2, RowRefines DEF IInv
  <1>17. ASSUME NEW t \in Task, HeartbeatLate(t)
         PROVE  Abstract
    <2>1. \A v \in Task \ {t} : task'[v].status = task[v].status
                              /\ task'[v].cancelling = task[v].cancelling
      BY <1>17 DEF IInv, TypeOK, TaskRow, HeartbeatLate
    <2>2. Legal(t)
      BY <1>17
         DEF IInv, TypeOK, TaskRow, TaskStatus, Settled, Held, Legal, Live,
             Over, HeartbeatLate
    <2>. QED  BY <2>1, <2>2, RowRefines DEF IInv
  <1>18. ASSUME NEW t \in Task, LoseHint(t)
         PROVE  Abstract
    BY <1>18 DEF LoseHint, Abstract
  <1>19. ASSUME NEW t \in Task, Create(t)
         PROVE  Abstract
    <2>1. \A v \in Task \ {t} : task'[v].status = task[v].status
                              /\ task'[v].cancelling = task[v].cancelling
      BY <1>19 DEF IInv, TypeOK, TaskRow, Create, NewTask
    <2>2. task[t].status = "absent" /\ task[t].cancelling = FALSE
      BY <1>19
         DEF IInv, TypeOK, TaskRow, TaskStatus, Settled, Held, Live, Over,
             Create, NewTask
    <2>3. task'[t].status = "queued" /\ task'[t].cancelling = FALSE
      BY <1>19, <2>2 DEF IInv, TypeOK, TaskRow, Settled, Create, NewTask
    <2>4. Legal(t)
      BY <2>2, <2>3 DEF Legal, Live
    <2>. QED  BY <2>1, <2>4, RowRefines DEF IInv
  <1>20. ASSUME NEW t \in Task, Cancel(t)
         PROVE  Abstract
    <2>1. \A v \in Task \ {t} : task'[v].status = task[v].status
                              /\ task'[v].cancelling = task[v].cancelling
      BY <1>20 DEF IInv, TypeOK, TaskRow, Cancel
    <2>2. Legal(t)
      BY <1>20
         DEF IInv, TypeOK, TaskRow, TaskStatus, Settled, Held, Legal, Live,
             Over, Cancel
    <2>. QED  BY <2>1, <2>2, RowRefines DEF IInv
  <1>21. ASSUME NEW t \in Task, Answer(t)
         PROVE  Abstract
    <2>1. \A v \in Task \ {t} : task'[v].status = task[v].status
                              /\ task'[v].cancelling = task[v].cancelling
      BY <1>21 DEF IInv, TypeOK, TaskRow, Answer
    <2>2. task[t].status \in Live
      <3>1. task[t].status \in TaskStatus /\ Settled(t)
        BY DEF IInv, TypeOK, TaskRow
      <3>2. run[t] = "waiting"
        BY <1>21 DEF Answer
      <3>. QED  BY <3>1, <3>2 DEF Settled, Held, TaskStatus, Live, Over
    <2>3. task'[t].status = "queued" /\ task'[t].cancelling = task[t].cancelling
      BY <1>21 DEF IInv, TypeOK, TaskRow, Settled, Answer
    <2>4. Legal(t)
      BY <2>2, <2>3 DEF Legal, Live
    <2>. QED  BY <2>1, <2>4, RowRefines DEF IInv
  <1>22. ASSUME NEW p \in Proc, Recover(p)
         PROVE  Abstract
    BY <1>22, RecoverRefines DEF Recover
  <1>23. ASSUME NEW p \in Proc, Shutdown(p)
         PROVE  Abstract
    BY <1>23 DEF Shutdown, Abstract
  <1>24. ASSUME NEW p \in Proc, Stop(p)
         PROVE  Abstract
    BY <1>24, GoneRefines DEF Stop
  <1>25. ASSUME NEW p \in Proc, Crash(p)
         PROVE  Abstract
    BY <1>25, GoneRefines DEF Crash
  <1>26. ASSUME NEW p \in Proc, Restart(p)
         PROVE  Abstract
    BY <1>26, RecoverRefines DEF Restart, Abstract
  <1>27. ASSUME NEW t \in Task, NEW u \in Task, Retry(t, u)
         PROVE  Abstract
    <2>1. \A v \in Task \ {u} : task'[v].status = task[v].status
                              /\ task'[v].cancelling = task[v].cancelling
      BY <1>27 DEF IInv, TypeOK, TaskRow, Retry, NewTask
    <2>2. task[u].status = "absent" /\ task[u].cancelling = FALSE
      BY <1>27
         DEF IInv, TypeOK, TaskRow, TaskStatus, Settled, Held, Live, Over,
             Retry, NewTask
    <2>3. task'[u].status = "queued" /\ task'[u].cancelling = FALSE
      BY <1>27, <2>2 DEF IInv, TypeOK, TaskRow, Settled, Retry, NewTask
    <2>4. Legal(u)
      BY <2>2, <2>3 DEF Legal, Live
    <2>. QED  BY <2>1, <2>4, RowRefines DEF IInv
  <1>28. CASE UNCHANGED vars
    BY <1>28 DEF Abstract, vars
  <1>. QED
    BY <1>1, <1>2, <1>3, <1>4, <1>5, <1>6, <1>7, <1>8, <1>9, <1>10, <1>11,
       <1>12, <1>13, <1>14, <1>15, <1>16, <1>17, <1>18, <1>19, <1>20, <1>21,
       <1>22, <1>23, <1>24, <1>25, <1>26, <1>27, <1>28
       DEF Next, Execute, User, Rest

-----------------------------------------------------------------------------
LEMMA Inductive == Spec => []IInv
  <1>. QED  BY InitInv, NextInv, PTL DEF Spec

(* Whichever of commit, fail, cancel and the shutdown path gets there      *)
(* first, a task that is over leaves its run over with the same outcome,   *)
(* for any number of processes, tasks and faults.                          *)
THEOREM RunsSettle == Spec => []OverSettled
  <1>1. IInv => OverSettled
    BY DEF IInv, Settled, OverSettled
  <1>. QED  BY <1>1, Inductive, PTL

(* A requested cancellation is never overtaken by a result or a failure. *)
THEOREM CancellationWins == Spec => []CancelWins
  <1>1. IInv => CancelWins
    BY DEF IInv, Settled, CancelWins
  <1>. QED  BY <1>1, Inductive, PTL

(* A task that waits for its user has a run that accepts the answer. *)
THEOREM NobodyStranded == Spec => []WaitingAnswerable
  <1>1. IInv => WaitingAnswerable
    BY DEF IInv, Settled, WaitingAnswerable
  <1>. QED  BY <1>1, Inductive, PTL

(* The processes together, crashing and restarting as they may, keep the   *)
(* promise of DurableTask: accepted once, over at most once and for good,  *)
(* cancelled if and only if that was asked for.                            *)
THEOREM LifecycleRefines == Spec => Refines
  <1>1. Init => Durable!Init
    BY DEF Init, Durable!Init, Absent, NewTask
  <1>2. IInv /\ IInv' /\ [Next]_vars
           => [Durable!Next]_<<[t \in Task |-> task[t].status],
                               {t \in Task : task[t].cancelling}>>
    BY StepRefines DEF Abstract
  <1>. QED  BY <1>1, <1>2, Inductive, PTL DEF Spec, Refines, Durable!Spec

-----------------------------------------------------------------------------
(* The capacity of a process: only Enter puts one more execution inside,   *)
(* and it counts those that are.                                           *)
Narrower == \A q \in Proc, v \in Task : job'[q][v] \in Inside => job[q][v] \in Inside

LEMMA OneJob ==
    ASSUME job \in [Proc -> [Task -> JobState]], NEW p \in Proc, NEW t \in Task, NEW s,
           job' = [job EXCEPT ![p][t] = s]
    PROVE  \A q \in Proc, v \in Task :
              job'[q][v] = IF q = p /\ v = t THEN s ELSE job[q][v]
  OBVIOUS

LEMMA RecoverJobs ==
    ASSUME job \in [Proc -> [Task -> JobState]], NEW p \in Proc, RecoverTasks(p)
    PROVE  \A q \in Proc, v \in Task : job'[q][v] \in {job[q][v], "ready"}
  BY DEF RecoverTasks, SubmitAll

LEMMA OnlyEnterAdds ==
    TypeOK /\ [Next]_vars => Narrower \/ \E q \in Proc, v \in Task : Enter(q, v)
  <1>. SUFFICES ASSUME TypeOK, [Next]_vars
                PROVE  Narrower \/ \E q \in Proc, v \in Task : Enter(q, v)
    OBVIOUS
  <1>1. ASSUME NEW p \in Proc, NEW t \in Task, Deliver(p, t)
        PROVE  Narrower \/ \E q \in Proc, v \in Task : Enter(q, v)
    BY <1>1 DEF Narrower, TypeOK, JobState, Deliver, SubmitAll, Idle, Inside
  <1>2. ASSUME NEW p \in Proc, NEW t \in Task, JobFinished(p, t)
        PROVE  Narrower \/ \E q \in Proc, v \in Task : Enter(q, v)
    <2>1. job[p][t] = "done"
      BY <1>2 DEF JobFinished, Running
    <2>2. \/ job' = [job EXCEPT ![p][t] = "ready"]
          \/ job' = [job EXCEPT ![p][t] = "none"]
      BY <1>2 DEF JobFinished
    <2>3. CASE job' = [job EXCEPT ![p][t] = "ready"]
      BY <2>1, <2>3, OneJob DEF Narrower, TypeOK, JobState, Inside
    <2>4. CASE job' = [job EXCEPT ![p][t] = "none"]
      BY <2>1, <2>4, OneJob DEF Narrower, TypeOK, JobState, Inside
    <2>. QED  BY <2>2, <2>3, <2>4
  <1>3. ASSUME NEW p \in Proc, NEW t \in Task, Enter(p, t)
        PROVE  Narrower \/ \E q \in Proc, v \in Task : Enter(q, v)
    BY <1>3
  <1>4. ASSUME NEW p \in Proc, NEW t \in Task, Prepare(p, t)
        PROVE  Narrower \/ \E q \in Proc, v \in Task : Enter(q, v)
    BY <1>4 DEF Narrower, TypeOK, JobState, Prepare, EndJob, Inside
  <1>5. ASSUME NEW p \in Proc, NEW t \in Task, PrepareFails(p, t)
        PROVE  Narrower \/ \E q \in Proc, v \in Task : Enter(q, v)
    BY <1>5 DEF Narrower, TypeOK, JobState, PrepareFails, GoTo, Inside
  <1>6. ASSUME NEW p \in Proc, NEW t \in Task, Advance(p, t)
        PROVE  Narrower \/ \E q \in Proc, v \in Task : Enter(q, v)
    BY <1>6 DEF Narrower, TypeOK, JobState, Advance
  <1>7. ASSUME NEW p \in Proc, NEW t \in Task, Suspend(p, t)
        PROVE  Narrower \/ \E q \in Proc, v \in Task : Enter(q, v)
    <2>1. job[p][t] = "running"
      BY <1>7 DEF Suspend, Running
    <2>2. job' = [job EXCEPT ![p][t] = "suspending"]
      BY <1>7 DEF Suspend, GoTo
    <2>. QED  BY <2>1, <2>2 DEF Narrower, TypeOK, JobState, Inside
  <1>8. ASSUME NEW p \in Proc, NEW t \in Task, Suspended(p, t)
        PROVE  Narrower \/ \E q \in Proc, v \in Task : Enter(q, v)
    BY <1>8 DEF Narrower, TypeOK, JobState, Suspended, EndJob, Inside
  <1>9. ASSUME NEW p \in Proc, NEW t \in Task, RunEnds(p, t)
        PROVE  Narrower \/ \E q \in Proc, v \in Task : Enter(q, v)
    <2>1. job[p][t] = "running"
      BY <1>9 DEF RunEnds, Running
    <2>2. \/ job' = [job EXCEPT ![p][t] = "finished"]
          \/ job' = [job EXCEPT ![p][t] = "failing"]
      BY <1>9 DEF RunEnds, GoTo
    <2>3. CASE job' = [job EXCEPT ![p][t] = "finished"]
      BY <2>1, <2>3, OneJob DEF Narrower, TypeOK, JobState, Inside
    <2>4. CASE job' = [job EXCEPT ![p][t] = "failing"]
      BY <2>1, <2>4, OneJob DEF Narrower, TypeOK, JobState, Inside
    <2>. QED  BY <2>2, <2>3, <2>4
  <1>10. ASSUME NEW p \in Proc, NEW t \in Task, RunWasOver(p, t)
         PROVE  Narrower \/ \E q \in Proc, v \in Task : Enter(q, v)
    <2>1. job[p][t] = "running"
      BY <1>10 DEF RunWasOver, Running
    <2>2. \/ job' = [job EXCEPT ![p][t] = "finished"]
          \/ job' = [job EXCEPT ![p][t] = "failing"]
      BY <1>10 DEF RunWasOver, GoTo
    <2>3. CASE job' = [job EXCEPT ![p][t] = "finished"]
      BY <2>1, <2>3, OneJob DEF Narrower, TypeOK, JobState, Inside
    <2>4. CASE job' = [job EXCEPT ![p][t] = "failing"]
      BY <2>1, <2>4, OneJob DEF Narrower, TypeOK, JobState, Inside
    <2>. QED  BY <2>2, <2>3, <2>4
  <1>11. ASSUME NEW p \in Proc, NEW t \in Task, Conflict(p, t)
         PROVE  Narrower \/ \E q \in Proc, v \in Task : Enter(q, v)
    BY <1>11 DEF Narrower, TypeOK, JobState, Conflict, GoTo, Inside
  <1>12. ASSUME NEW p \in Proc, NEW t \in Task, Commit(p, t)
         PROVE  Narrower \/ \E q \in Proc, v \in Task : Enter(q, v)
    BY <1>12 DEF Narrower, TypeOK, JobState, Commit, EndJob, Inside
  <1>13. ASSUME NEW p \in Proc, NEW t \in Task, Fail(p, t)
         PROVE  Narrower \/ \E q \in Proc, v \in Task : Enter(q, v)
    BY <1>13 DEF Narrower, TypeOK, JobState, Fail, EndJob, Inside
  <1>14. ASSUME NEW p \in Proc, NEW t \in Task, RequeueAfterShutdown(p, t)
         PROVE  Narrower \/ \E q \in Proc, v \in Task : Enter(q, v)
    BY <1>14 DEF Narrower, TypeOK, JobState, RequeueAfterShutdown, EndJob, Inside
  <1>15. ASSUME NEW p \in Proc, NEW t \in Task, HeartbeatEnds(p, t)
         PROVE  Narrower \/ \E q \in Proc, v \in Task : Enter(q, v)
    BY <1>15 DEF Narrower, TypeOK, JobState, HeartbeatEnds
  <1>16. ASSUME NEW t \in Task, LeaseLapses(t)
         PROVE  Narrower \/ \E q \in Proc, v \in Task : Enter(q, v)
    BY <1>16 DEF Narrower, TypeOK, JobState, LeaseLapses
  <1>17. ASSUME NEW t \in Task, HeartbeatLate(t)
         PROVE  Narrower \/ \E q \in Proc, v \in Task : Enter(q, v)
    BY <1>17 DEF Narrower, TypeOK, JobState, HeartbeatLate
  <1>18. ASSUME NEW t \in Task, LoseHint(t)
         PROVE  Narrower \/ \E q \in Proc, v \in Task : Enter(q, v)
    BY <1>18 DEF Narrower, TypeOK, JobState, LoseHint
  <1>19. ASSUME NEW t \in Task, Create(t)
         PROVE  Narrower \/ \E q \in Proc, v \in Task : Enter(q, v)
    BY <1>19 DEF Narrower, TypeOK, JobState, Create
  <1>20. ASSUME NEW t \in Task, Cancel(t)
         PROVE  Narrower \/ \E q \in Proc, v \in Task : Enter(q, v)
    BY <1>20 DEF Narrower, TypeOK, JobState, Cancel
  <1>21. ASSUME NEW t \in Task, Answer(t)
         PROVE  Narrower \/ \E q \in Proc, v \in Task : Enter(q, v)
    BY <1>21 DEF Narrower, TypeOK, JobState, Answer
  <1>22. ASSUME NEW p \in Proc, Recover(p)
         PROVE  Narrower \/ \E q \in Proc, v \in Task : Enter(q, v)
    BY <1>22
       DEF Narrower, TypeOK, JobState, Recover, RecoverTasks, SubmitAll, Idle,
           Inside
  <1>23. ASSUME NEW p \in Proc, Shutdown(p)
         PROVE  Narrower \/ \E q \in Proc, v \in Task : Enter(q, v)
    <2>1. PICK j \in [Task -> JobState] :
             /\ \A v \in Task : j[v] \in Cancelled(job[p][v])
             /\ job' = [job EXCEPT ![p] = j]
      BY <1>23 DEF Shutdown
    <2>2. \A v \in Task : j[v] \in Inside => job[p][v] \in Inside
      BY <2>1 DEF Cancelled, TypeOK, JobState, Inside
    <2>. QED  BY <2>1, <2>2 DEF Narrower, TypeOK
  <1>24. ASSUME NEW p \in Proc, Stop(p)
         PROVE  Narrower \/ \E q \in Proc, v \in Task : Enter(q, v)
    BY <1>24 DEF Narrower, TypeOK, JobState, Stop, ProcessGone, Inside
  <1>25. ASSUME NEW p \in Proc, Crash(p)
         PROVE  Narrower \/ \E q \in Proc, v \in Task : Enter(q, v)
    BY <1>25 DEF Narrower, TypeOK, JobState, Crash, ProcessGone, Inside
  <1>26. ASSUME NEW p \in Proc, Restart(p)
         PROVE  Narrower \/ \E q \in Proc, v \in Task : Enter(q, v)
    <2>1. CASE Recoverable # {}
      BY <1>26, <2>1, RecoverJobs DEF Narrower, TypeOK, Restart, Inside
    <2>2. CASE Recoverable = {}
      BY <1>26, <2>2 DEF Narrower, Restart
    <2>. QED  BY <2>1, <2>2
  <1>27. ASSUME NEW t \in Task, NEW u \in Task, Retry(t, u)
         PROVE  Narrower \/ \E q \in Proc, v \in Task : Enter(q, v)
    BY <1>27 DEF Narrower, TypeOK, JobState, Retry
  <1>28. CASE UNCHANGED vars
    BY <1>28 DEF Narrower, vars
  <1>. QED
    BY <1>1, <1>2, <1>3, <1>4, <1>5, <1>6, <1>7, <1>8, <1>9, <1>10, <1>11,
       <1>12, <1>13, <1>14, <1>15, <1>16, <1>17, <1>18, <1>19, <1>20, <1>21,
       <1>22, <1>23, <1>24, <1>25, <1>26, <1>27, <1>28
       DEF Next, Execute, User, Rest

LEMMA CapacityKept == TypeOK /\ Bounded /\ [Next]_vars => Bounded'
  <1>. SUFFICES ASSUME TypeOK, Bounded, [Next]_vars, NEW q \in Proc
                PROVE  Cardinality({v \in Task : job'[q][v] \in Inside}) <= Limit
    BY DEF Bounded
  <1>. DEFINE before == {v \in Task : job[q][v] \in Inside}
              after == {v \in Task : job'[q][v] \in Inside}
  <1>1. IsFiniteSet(before) /\ Cardinality(before) \in Nat /\ Cardinality(before) <= Limit
    BY LifecycleAssumption, FS_Subset, FS_CardinalityType DEF Bounded
  <1>2. CASE after \subseteq before
    <2>1. Cardinality(after) <= Cardinality(before) /\ Cardinality(after) \in Nat
      BY <1>1, <1>2, FS_Subset, FS_CardinalityType
    <2>. HIDE DEF before, after
    <2>2. Cardinality(after) <= Limit
      BY <1>1, <2>1, LifecycleAssumption
    <2>. QED  BY <2>2 DEF after
  <1>3. ASSUME NEW p \in Proc, NEW t \in Task, Enter(p, t), ~(after \subseteq before)
        PROVE  Cardinality(after) <= Limit
    <2>1. job' = [job EXCEPT ![p][t] = "preparing"] /\ job[p][t] = "ready"
      BY <1>3 DEF Enter, GoTo
    <2>2. p = q /\ after = before \cup {t} /\ t \notin before
      BY <1>3, <2>1 DEF TypeOK, Inside, JobState
    <2>3. Cardinality(before) < Limit
      BY <1>3, <2>2 DEF Enter
    <2>. HIDE DEF before, after
    <2>4. Cardinality(after) = Cardinality(before) + 1
      BY <1>1, <2>2, FS_AddElement
    <2>. QED  BY <1>1, <2>3, <2>4, LifecycleAssumption
  <1>. QED  BY <1>2, <1>3, OnlyEnterAdds DEF Narrower

(* A process never runs more executions at once than its capacity, across  *)
(* submissions, deferred ones, recovery, shutdown and restart              *)
(* (task_max_concurrency in TaskExecutionCoordinator).                     *)
THEOREM CapacityHolds == Spec => []Bounded
  <1>1. Init => Bounded
    <2>. SUFFICES ASSUME Init, NEW p \in Proc
                  PROVE  Cardinality({t \in Task : job[p][t] \in Inside}) <= Limit
      BY DEF Bounded
    <2>1. {t \in Task : job[p][t] \in Inside} = {}
      BY DEF Init, Inside
    <2>. QED  BY <2>1, FS_EmptySet, LifecycleAssumption
  <1>. QED  BY <1>1, CapacityKept, TypeCorrect, PTL DEF Spec

-----------------------------------------------------------------------------
(* The action of NoSecondCommit. *)
Once == \A q \in Proc, v \in Task :
           task[v].status = "completed" /\ job[q][v] = "finished" => job'[q][v] # "done"

LEMMA StepOnce == IInv /\ [Next]_vars => Once
  <1>. SUFFICES ASSUME IInv, [Next]_vars
                PROVE  Once
    OBVIOUS
  <1>1. ASSUME NEW p \in Proc, NEW t \in Task, Deliver(p, t)
        PROVE  Once
    BY <1>1 DEF Once, IInv, TypeOK, Deliver, SubmitAll, Idle
  <1>2. ASSUME NEW p \in Proc, NEW t \in Task, JobFinished(p, t)
        PROVE  Once
    <2>1. job[p][t] = "done"
      BY <1>2 DEF JobFinished, Running
    <2>2. \/ job' = [job EXCEPT ![p][t] = "ready"]
          \/ job' = [job EXCEPT ![p][t] = "none"]
      BY <1>2 DEF JobFinished
    <2>3. CASE job' = [job EXCEPT ![p][t] = "ready"]
      BY <2>1, <2>3, OneJob DEF Once, IInv, TypeOK
    <2>4. CASE job' = [job EXCEPT ![p][t] = "none"]
      BY <2>1, <2>4, OneJob DEF Once, IInv, TypeOK
    <2>. QED  BY <2>2, <2>3, <2>4
  <1>3. ASSUME NEW p \in Proc, NEW t \in Task, Enter(p, t)
        PROVE  Once
    BY <1>3 DEF Once, IInv, TypeOK, Enter, GoTo
  <1>4. ASSUME NEW p \in Proc, NEW t \in Task, Prepare(p, t)
        PROVE  Once
    <2>1. job[p][t] = "preparing"
      BY <1>4 DEF Prepare, Running
    <2>2. \/ job' = [job EXCEPT ![p][t] = "done"]
          \/ job' = [job EXCEPT ![p][t] = "running"]
      BY <1>4 DEF Prepare, EndJob
    <2>3. CASE job' = [job EXCEPT ![p][t] = "done"]
      BY <2>1, <2>3, OneJob DEF Once, IInv, TypeOK
    <2>4. CASE job' = [job EXCEPT ![p][t] = "running"]
      BY <2>1, <2>4, OneJob DEF Once, IInv, TypeOK
    <2>. QED  BY <2>2, <2>3, <2>4
  <1>5. ASSUME NEW p \in Proc, NEW t \in Task, PrepareFails(p, t)
        PROVE  Once
    BY <1>5 DEF Once, IInv, TypeOK, PrepareFails, GoTo
  <1>6. ASSUME NEW p \in Proc, NEW t \in Task, Advance(p, t)
        PROVE  Once
    BY <1>6 DEF Once, IInv, TypeOK, Advance
  <1>7. ASSUME NEW p \in Proc, NEW t \in Task, Suspend(p, t)
        PROVE  Once
    <2>1. job[p][t] = "running"
      BY <1>7 DEF Suspend, Running
    <2>2. job' = [job EXCEPT ![p][t] = "suspending"]
      BY <1>7 DEF Suspend, GoTo
    <2>. QED  BY <2>1, <2>2 DEF Once, IInv, TypeOK
  <1>8. ASSUME NEW p \in Proc, NEW t \in Task, Suspended(p, t)
        PROVE  Once
    BY <1>8 DEF Once, IInv, TypeOK, Suspended, EndJob
  <1>9. ASSUME NEW p \in Proc, NEW t \in Task, RunEnds(p, t)
        PROVE  Once
    <2>1. job[p][t] = "running"
      BY <1>9 DEF RunEnds, Running
    <2>2. \/ job' = [job EXCEPT ![p][t] = "finished"]
          \/ job' = [job EXCEPT ![p][t] = "failing"]
      BY <1>9 DEF RunEnds, GoTo
    <2>3. CASE job' = [job EXCEPT ![p][t] = "finished"]
      BY <2>1, <2>3, OneJob DEF Once, IInv, TypeOK
    <2>4. CASE job' = [job EXCEPT ![p][t] = "failing"]
      BY <2>1, <2>4, OneJob DEF Once, IInv, TypeOK
    <2>. QED  BY <2>2, <2>3, <2>4
  <1>10. ASSUME NEW p \in Proc, NEW t \in Task, RunWasOver(p, t)
         PROVE  Once
    <2>1. job[p][t] = "running"
      BY <1>10 DEF RunWasOver, Running
    <2>2. \/ job' = [job EXCEPT ![p][t] = "finished"]
          \/ job' = [job EXCEPT ![p][t] = "failing"]
      BY <1>10 DEF RunWasOver, GoTo
    <2>3. CASE job' = [job EXCEPT ![p][t] = "finished"]
      BY <2>1, <2>3, OneJob DEF Once, IInv, TypeOK
    <2>4. CASE job' = [job EXCEPT ![p][t] = "failing"]
      BY <2>1, <2>4, OneJob DEF Once, IInv, TypeOK
    <2>. QED  BY <2>2, <2>3, <2>4
  <1>11. ASSUME NEW p \in Proc, NEW t \in Task, Conflict(p, t)
         PROVE  Once
    BY <1>11 DEF Once, IInv, TypeOK, Conflict, GoTo
  <1>12. ASSUME NEW p \in Proc, NEW t \in Task, Commit(p, t)
         PROVE  Once
    <2>1. task[t].status # "completed"
      BY <1>12 DEF Commit, IInv, Settled, Held, Over
    <2>. QED  BY <1>12, <2>1 DEF Commit, EndJob, Once, IInv, TypeOK
  <1>13. ASSUME NEW p \in Proc, NEW t \in Task, Fail(p, t)
         PROVE  Once
    BY <1>13 DEF Once, IInv, TypeOK, Fail, EndJob
  <1>14. ASSUME NEW p \in Proc, NEW t \in Task, RequeueAfterShutdown(p, t)
         PROVE  Once
    BY <1>14 DEF Once, IInv, TypeOK, RequeueAfterShutdown, EndJob
  <1>15. ASSUME NEW p \in Proc, NEW t \in Task, HeartbeatEnds(p, t)
         PROVE  Once
    BY <1>15 DEF Once, IInv, TypeOK, HeartbeatEnds
  <1>16. ASSUME NEW t \in Task, LeaseLapses(t)
         PROVE  Once
    BY <1>16 DEF Once, IInv, TypeOK, LeaseLapses
  <1>17. ASSUME NEW t \in Task, HeartbeatLate(t)
         PROVE  Once
    BY <1>17 DEF Once, IInv, TypeOK, HeartbeatLate
  <1>18. ASSUME NEW t \in Task, LoseHint(t)
         PROVE  Once
    BY <1>18 DEF Once, IInv, TypeOK, LoseHint
  <1>19. ASSUME NEW t \in Task, Create(t)
         PROVE  Once
    BY <1>19 DEF Once, IInv, TypeOK, Create
  <1>20. ASSUME NEW t \in Task, Cancel(t)
         PROVE  Once
    BY <1>20 DEF Once, IInv, TypeOK, Cancel
  <1>21. ASSUME NEW t \in Task, Answer(t)
         PROVE  Once
    BY <1>21 DEF Once, IInv, TypeOK, Answer
  <1>22. ASSUME NEW p \in Proc, Recover(p)
         PROVE  Once
    BY <1>22 DEF Once, IInv, TypeOK, Recover, RecoverTasks, SubmitAll, Idle
  <1>23. ASSUME NEW p \in Proc, Shutdown(p)
         PROVE  Once
    <2>1. PICK j \in [Task -> JobState] :
             /\ \A v \in Task : j[v] \in Cancelled(job[p][v])
             /\ job' = [job EXCEPT ![p] = j]
      BY <1>23 DEF Shutdown
    <2>2. \A v \in Task : job[p][v] = "finished" => j[v] = "requeueing"
      BY <2>1 DEF Cancelled
    <2>. QED  BY <2>1, <2>2 DEF Once, IInv, TypeOK
  <1>24. ASSUME NEW p \in Proc, Stop(p)
         PROVE  Once
    BY <1>24 DEF Once, IInv, TypeOK, Stop, ProcessGone
  <1>25. ASSUME NEW p \in Proc, Crash(p)
         PROVE  Once
    BY <1>25 DEF Once, IInv, TypeOK, Crash, ProcessGone
  <1>26. ASSUME NEW p \in Proc, Restart(p)
         PROVE  Once
    <2>1. CASE Recoverable # {}
      BY <1>26, <2>1, RecoverJobs DEF Once, IInv, TypeOK, Restart
    <2>2. CASE Recoverable = {}
      BY <1>26, <2>2 DEF Once, Restart
    <2>. QED  BY <2>1, <2>2
  <1>27. ASSUME NEW t \in Task, NEW u \in Task, Retry(t, u)
         PROVE  Once
    BY <1>27 DEF Once, IInv, TypeOK, Retry
  <1>28. CASE UNCHANGED vars
    BY <1>28 DEF Once, vars
  <1>. QED
    BY <1>1, <1>2, <1>3, <1>4, <1>5, <1>6, <1>7, <1>8, <1>9, <1>10, <1>11,
       <1>12, <1>13, <1>14, <1>15, <1>16, <1>17, <1>18, <1>19, <1>20, <1>21,
       <1>22, <1>23, <1>24, <1>25, <1>26, <1>27, <1>28
       DEF Next, Execute, User, Rest

(* The result of a task is committed once, however many processes carried  *)
(* the same run to its end (the version check in task_completion).         *)
THEOREM ResultOnce == Spec => NoSecondCommit
  <1>1. IInv /\ [Next]_vars => [\A p \in Proc, t \in Task :
                                   task[t].status = "completed" /\ job[p][t] = "finished"
                                       => job'[p][t] # "done"]_vars
    BY StepOnce DEF Once
  <1>. QED  BY <1>1, Inductive, PTL DEF Spec, NoSecondCommit

-----------------------------------------------------------------------------
(***************************************************************************)
(* The strengthening of NothingLost, for one process.  Not every job keeps *)
(* a queued task from being lost, since a job that unwinds leaves it       *)
(* behind; those that still start, or fail, it do (Due).  Until a fault    *)
(* happens the process is up, none of its jobs puts a task back, and no    *)
(* owner is gone (Orderly).  With two processes the property fails: an     *)
(* answered task, announced to the process that does not own it, is passed *)
(* over until the lease has run out and recovery finds it.                 *)
(***************************************************************************)
OneProcess == \A p, q \in Proc : p = q

Starting == {"ready", "preparing", "failing"}

Due(t) == \/ t \in hints
          \/ \E p \in Proc : t \in deferred[p] \/ job[p][t] \in Starting

Orderly ==
    /\ \A p \in Proc : mode[p] = "up"
    /\ \A t \in Task : task[t].owner # Gone /\ \A p \in Proc : job[p][t] # "requeueing"

QueuedDue == \A t \in Task : task[t].status = "queued" => Due(t)

LostInv == faults = 0 => Orderly /\ QueuedDue

(* A step about one task leaves the other tasks as they are. *)
About(t) ==
    /\ mode' = mode
    /\ \A u \in Task \ {t} : /\ task'[u] = task[u]
                             /\ u \in hints => u \in hints'
                             /\ \A p \in Proc : /\ job'[p][u] = job[p][u]
                                                /\ u \in deferred[p] => u \in deferred'[p]

LEMMA AboutOne ==
    ASSUME Orderly, QueuedDue, NEW t \in Task, About(t), task'[t].owner # Gone,
           \A p \in Proc : job'[p][t] # "requeueing",
           task'[t].status = "queued" => Due(t)'
    PROVE  Orderly' /\ QueuedDue'
  <1>1. Orderly'
    BY DEF Orderly, About
  <1>2. ASSUME NEW u \in Task \ {t}, task'[u].status = "queued" PROVE Due(u)'
    BY <1>2 DEF QueuedDue, Due, About
  <1>. QED BY <1>1, <1>2 DEF QueuedDue

(* One coroutine of the process: its job moves, and its task's row may.    *)
LEMMA JobDue ==
    ASSUME TypeOK, OneProcess, Orderly, QueuedDue, NEW p \in Proc, NEW t \in Task,
           NEW state \in JobState \ {"requeueing"}, job' = [job EXCEPT ![p][t] = state],
           mode' = mode, hints \subseteq hints', \A q \in Proc : deferred[q] \subseteq deferred'[q],
           \A u \in Task \ {t} : task'[u] = task[u],
           task'[t].owner # Gone,
           task'[t].status = "queued" => /\ task[t].status = "queued"
                                         /\ state \in Starting \/ job[p][t] \notin Starting
    PROVE  Orderly' /\ QueuedDue'
  <1>1. \A q \in Proc, u \in Task : job'[q][u] = IF u = t THEN state ELSE job[q][u]
    BY DEF TypeOK, OneProcess
  <1>2. About(t)
    BY <1>1 DEF About
  <1>3. task'[t].status = "queued" => Due(t)'
    BY <1>1 DEF QueuedDue, Due, OneProcess
  <1>. QED BY <1>1, <1>2, <1>3, AboutOne

(* A step that leaves no fault behind it had none before it.               *)
LEMMA NoFaultBefore ==
    ASSUME TypeOK, [Next]_vars, faults' = 0
    PROVE  faults = 0
  <1>1. ASSUME NEW p \in Proc, NEW t \in Task, Execute(p, t) PROVE faults' = faults
    BY <1>1 DEF Execute, Enter, Prepare, Advance, Suspend, RunEnds, RunWasOver, Conflict,
       Suspended, Commit, Fail, RequeueAfterShutdown, JobFinished
  <1>2. ASSUME NEW p \in Proc, NEW t \in Task,
               Deliver(p, t) \/ PrepareFails(p, t) \/ HeartbeatEnds(p, t)
        PROVE  faults' = faults
    BY <1>2 DEF Deliver, PrepareFails, HeartbeatEnds
  <1>3. ASSUME NEW p \in Proc, Recover(p) \/ Stop(p) \/ Restart(p) PROVE faults' = faults
    BY <1>3 DEF Recover, Stop, Restart, RecoverTasks
  <1>4. ASSUME NEW p \in Proc, Shutdown(p) \/ Crash(p) PROVE faults' = faults + 1
    BY <1>4 DEF Shutdown, Crash
  <1>5. ASSUME NEW t \in Task, HeartbeatLate(t) \/ LoseHint(t) PROVE faults' = faults + 1
    BY <1>5 DEF HeartbeatLate, LoseHint
  <1>6. ASSUME NEW t \in Task, LeaseLapses(t) PROVE faults' = faults
    BY <1>6 DEF LeaseLapses
  <1>7. ASSUME User \/ Rest \/ UNCHANGED vars PROVE faults' = faults
    BY <1>7 DEF User, Rest, vars, Create, Cancel, Answer, Retry
  <1>8. faults' = faults \/ faults' = faults + 1
    BY <1>1, <1>2, <1>3, <1>4, <1>5, <1>6, <1>7 DEF Next
  <1>9. faults \in Nat
    BY DEF TypeOK
  <1>. QED BY <1>8, <1>9

LEMMA StepLost == OneProcess /\ TypeOK /\ LostInv /\ [Next]_vars => LostInv'
  <1>. SUFFICES ASSUME OneProcess, TypeOK, LostInv, [Next]_vars, faults' = 0
                PROVE  Orderly' /\ QueuedDue'
    BY DEF LostInv
  <1>0. NoOwner # Gone /\ \A p \in Proc : p # Gone
    BY LifecycleAssumption
  <1>1. faults = 0
    BY NoFaultBefore
  <1>2. Orderly /\ QueuedDue
    BY <1>1 DEF LostInv
  <1>3. ~ \E p \in Proc : Shutdown(p) \/ Crash(p) \/ Stop(p) \/ Restart(p)
    BY <1>1, <1>2 DEF Shutdown, Crash, Stop, Restart, Orderly
  <1>4. ~ \E t \in Task : HeartbeatLate(t) \/ LoseHint(t)
    BY <1>1 DEF HeartbeatLate, LoseHint
  <1>5. \A t \in Task : task[t] \in TaskRow /\ task[t].owner # Gone
    BY <1>2 DEF TypeOK, Orderly
  <1>. USE DEF GoTo, EndJob
  <1>6. ASSUME NEW p \in Proc, NEW t \in Task, Deliver(p, t)
        PROVE  Orderly' /\ QueuedDue'
    <2>1. /\ mode' = mode /\ task' = task /\ hints' = hints \ {t}
          /\ \A u \in Task \ {t} : \A q \in Proc : /\ job'[q][u] = job[q][u]
                                                   /\ u \in deferred[q] => u \in deferred'[q]
          /\ job'[p][t] = "ready" \/ t \in deferred'[p]
          /\ \A q \in Proc : job'[q][t] \in {job[q][t], "ready"}
      BY <1>6 DEF Deliver, SubmitAll, TypeOK
    <2>2. About(t)
      BY <2>1 DEF About
    <2>3. Due(t)'
      BY <2>1 DEF Due, Starting
    <2>4. \A q \in Proc : job'[q][t] # "requeueing"
      BY <1>2, <2>1 DEF Orderly
    <2>. QED BY <1>2, <1>5, <2>1, <2>2, <2>3, <2>4, AboutOne
  <1>7. ASSUME NEW p \in Proc, NEW t \in Task, JobFinished(p, t)
        PROVE  Orderly' /\ QueuedDue'
    <2>1. mode[p] = "up" /\ job[p][t] = "done"
      BY <1>2, <1>7 DEF JobFinished, Orderly
    <2>2. /\ mode' = mode /\ task' = task /\ hints' = hints
          /\ job' = [job EXCEPT ![p][t] = IF t \in deferred[p] THEN "ready" ELSE "none"]
          /\ deferred' = [deferred EXCEPT ![p] = @ \ {t}]
      BY <1>7, <2>1 DEF JobFinished
    <2>3. \A q \in Proc, u \in Task :
             /\ job'[q][u] = IF u = t THEN (IF t \in deferred[p] THEN "ready" ELSE "none")
                             ELSE job[q][u]
             /\ deferred'[q] = deferred[q] \ {t}
      BY <2>2 DEF TypeOK, OneProcess
    <2>4. About(t)
      BY <2>2, <2>3 DEF About
    <2>5. task'[t].status = "queued" => Due(t)'
      BY <1>2, <2>1, <2>2, <2>3 DEF QueuedDue, Due, Starting, OneProcess
    <2>6. \A q \in Proc : job'[q][t] # "requeueing"
      BY <2>3
    <2>. QED BY <1>2, <1>5, <2>2, <2>4, <2>5, <2>6, AboutOne
  <1>8. ASSUME NEW p \in Proc, NEW t \in Task,
               Enter(p, t) \/ PrepareFails(p, t) \/ RunWasOver(p, t) \/ Conflict(p, t)
               \/ Suspended(p, t)
        PROVE  Orderly' /\ QueuedDue'
    <2>1. PICK state \in JobState \ {"requeueing"} :
             /\ job' = [job EXCEPT ![p][t] = state]
             /\ state \in Starting \/ job[p][t] \notin Starting
             /\ UNCHANGED <<mode, hints, deferred, task>>
      BY <1>8 DEF Enter, PrepareFails, RunWasOver, Conflict, Suspended, Running, JobState, Starting
    <2>. QED BY <1>2, <1>5, <2>1, JobDue
  <1>9. ASSUME NEW p \in Proc, NEW t \in Task, Prepare(p, t)
        PROVE  Orderly' /\ QueuedDue'
    <2>1. /\ UNCHANGED <<mode, hints, deferred>>
          /\ task[t].owner \in {NoOwner, p}
      <3>1. task[t].owner \in Proc \cup {NoOwner}
        BY <1>5 DEF TaskRow
      <3>. QED BY <1>9, <3>1 DEF Prepare, OneProcess
    <2>2. CASE ~CanStart(p, t)
      <3>1. job' = [job EXCEPT ![p][t] = "done"] /\ task' = task /\ task[t].status # "queued"
        BY <1>9, <2>1, <2>2 DEF Prepare, CanStart
      <3>. QED BY <1>2, <1>5, <2>1, <3>1, JobDue DEF JobState
    <2>3. CASE CanStart(p, t) /\ task[t].cancelling
      <3>1. /\ job' = [job EXCEPT ![p][t] = "done"]
            /\ task' = [task EXCEPT ![t].status = "cancelled", ![t].leased = FALSE]
        BY <1>9, <2>3 DEF Prepare, MarkCancelled, EndTask
      <3>2. /\ task'[t].status = "cancelled" /\ task'[t].owner = task[t].owner
            /\ \A u \in Task \ {t} : task'[u] = task[u]
        BY <1>5, <3>1 DEF TypeOK, TaskRow
      <3>. QED BY <1>2, <1>5, <2>1, <3>1, <3>2, JobDue DEF JobState
    <2>4. CASE CanStart(p, t) /\ ~task[t].cancelling
      <3>1. /\ job' = [job EXCEPT ![p][t] = "running"]
            /\ task' = [task EXCEPT ![t].status = "running", ![t].owner = p, ![t].leased = TRUE]
        BY <1>9, <2>4 DEF Prepare
      <3>2. /\ task'[t].status = "running" /\ task'[t].owner = p
            /\ \A u \in Task \ {t} : task'[u] = task[u]
        BY <1>5, <3>1 DEF TypeOK, TaskRow
      <3>. QED BY <1>0, <1>2, <2>1, <3>1, <3>2, JobDue DEF JobState
    <2>. QED BY <2>2, <2>3, <2>4
  <1>10. ASSUME NEW p \in Proc, NEW t \in Task, Suspend(p, t) \/ RunEnds(p, t)
         PROVE  Orderly' /\ QueuedDue'
    <2>1. PICK state \in {"suspending", "finished", "failing"}, projected \in {"waiting", task[t].status} :
             /\ job' = [job EXCEPT ![p][t] = state] /\ job[p][t] = "running"
             /\ task' = [task EXCEPT ![t].status = projected]
             /\ UNCHANGED <<mode, hints, deferred>>
      BY <1>10 DEF Suspend, RunEnds, Running, Checkpoint
    <2>2. /\ task'[t].status = projected /\ task'[t].owner = task[t].owner
          /\ \A u \in Task \ {t} : task'[u] = task[u]
      BY <1>5, <2>1 DEF TypeOK, TaskRow
    <2>. QED BY <1>2, <1>5, <2>1, <2>2, JobDue DEF JobState, Starting
  <1>11. ASSUME NEW p \in Proc, NEW t \in Task, Commit(p, t) \/ Fail(p, t)
         PROVE  Orderly' /\ QueuedDue'
    <2>1. /\ job' = [job EXCEPT ![p][t] = "done"]
          /\ UNCHANGED <<mode, hints, deferred>>
          /\ \/ task' = task /\ task[t].status \in {"completed", "cancelled"}
             \/ \E status \in {"completed", "cancelled", "failed"} :
                   task' = [task EXCEPT ![t].status = status, ![t].leased = FALSE]
      BY <1>11 DEF Commit, Fail, MarkCancelled, EndTask
    <2>2. /\ task'[t].status # "queued" /\ task'[t].owner = task[t].owner
          /\ \A u \in Task \ {t} : task'[u] = task[u]
      BY <1>5, <2>1 DEF TypeOK, TaskRow
    <2>. QED BY <1>2, <1>5, <2>1, <2>2, JobDue DEF JobState
  <1>12. ASSUME NEW p \in Proc, NEW t \in Task, RequeueAfterShutdown(p, t)
         PROVE  FALSE
    BY <1>2, <1>12 DEF RequeueAfterShutdown, Orderly
  <1>13. ASSUME NEW t \in Task, About(t), hints \subseteq hints',
                \A q \in Proc : job'[q][t] = job[q][t] /\ deferred[q] \subseteq deferred'[q],
                task'[t].owner # Gone,
                task'[t].status = "queued" => task[t].status = "queued" \/ t \in hints'
         PROVE  Orderly' /\ QueuedDue'
    <2>1. task'[t].status = "queued" => Due(t)'
      BY <1>2, <1>13 DEF QueuedDue, Due
    <2>. QED BY <1>2, <1>13, <2>1, AboutOne DEF Orderly
  <1>14. ASSUME NEW p \in Proc, NEW t \in Task, Advance(p, t)
         PROVE  Orderly' /\ QueuedDue'
    <2>1. /\ UNCHANGED <<mode, hints, deferred, job>>
          /\ task' = [task EXCEPT ![t].status = IF task[t].status = "waiting" THEN "running"
                                                ELSE task[t].status]
      BY <1>14 DEF Advance, Checkpoint
    <2>2. /\ task'[t].status = "queued" => task[t].status = "queued"
          /\ task'[t].owner = task[t].owner
          /\ \A u \in Task \ {t} : task'[u] = task[u]
      BY <1>5, <2>1 DEF TypeOK, TaskRow
    <2>. QED BY <1>5, <1>13, <2>1, <2>2 DEF About
  <1>15. ASSUME NEW t \in Task, LeaseLapses(t) \/ Cancel(t) \/ \E p \in Proc : HeartbeatEnds(p, t)
         PROVE  Orderly' /\ QueuedDue'
    <2>1. /\ UNCHANGED <<mode, hints, deferred, job>>
          /\ \/ task' = task
             \/ task' = [task EXCEPT ![t].leased = FALSE]
             \/ task' = [task EXCEPT ![t].status = "cancelled", ![t].cancelling = TRUE]
             \/ task' = [task EXCEPT ![t].cancelling = TRUE]
      BY <1>15 DEF LeaseLapses, Cancel, HeartbeatEnds
    <2>2. /\ task'[t].status = "queued" => task[t].status = "queued"
          /\ task'[t].owner = task[t].owner
          /\ \A u \in Task \ {t} : task'[u] = task[u]
      BY <1>5, <2>1 DEF TypeOK, TaskRow
    <2>. QED BY <1>5, <1>13, <2>1, <2>2 DEF About
  <1>16. ASSUME NEW t \in Task, Create(t) \/ Answer(t) \/ \E u \in Task : Retry(u, t)
         PROVE  Orderly' /\ QueuedDue'
    <2>1. /\ UNCHANGED <<mode, deferred, job>> /\ hints' = hints \cup {t}
          /\ \/ \E n, u : task' = [task EXCEPT ![t] = NewTask(n, u)]
             \/ task' = [task EXCEPT ![t].status = "queued"]
      BY <1>16 DEF Create, Answer, Retry
    <2>2. /\ task'[t].owner \in {NoOwner, task[t].owner}
          /\ \A u \in Task \ {t} : task'[u] = task[u]
      BY <1>5, <2>1 DEF TypeOK, TaskRow, NewTask
    <2>. QED BY <1>0, <1>5, <1>13, <2>1, <2>2 DEF About
  <1>17. ASSUME NEW p \in Proc, Recover(p)
         PROVE  Orderly' /\ QueuedDue'
    <2>1. /\ mode' = mode /\ hints' = hints
          /\ \A t \in Task : task'[t] = IF t \in Recoverable
                                        THEN [task[t] EXCEPT !.status = "queued", !.owner = p,
                                                             !.leased = TRUE]
                                        ELSE task[t]
          /\ SubmitAll(p, Recoverable)
      BY <1>17 DEF Recover, RecoverTasks
    <2>2. \A q \in Proc, t \in Task :
             /\ job'[q][t] = job[q][t] \/ job'[q][t] = "ready"
             /\ t \in deferred[q] => t \in deferred'[q]
             /\ job[q][t] \in Starting => job'[q][t] = job[q][t]
             /\ t \in Recoverable => job'[p][t] = "ready" \/ t \in deferred'[p]
      BY <2>1 DEF SubmitAll, TypeOK, Idle, Starting
    <2>3. \A t \in Task : task'[t].owner \in {p, task[t].owner}
      BY <1>5, <2>1 DEF TaskRow
    <2>4. Orderly'
      <3>1. \A q \in Proc : mode'[q] = "up"
        BY <1>2, <2>1 DEF Orderly
      <3>2. \A t \in Task : task'[t].owner # Gone
        BY <1>0, <1>5, <2>3
      <3>3. \A q \in Proc, t \in Task : job'[q][t] # "requeueing"
        BY <1>2, <2>2 DEF Orderly
      <3>. QED BY <3>1, <3>2, <3>3 DEF Orderly
    <2>5. ASSUME NEW t \in Task, task'[t].status = "queued" PROVE Due(t)'
      <3>1. CASE t \in Recoverable
        BY <2>2, <3>1 DEF Due, Starting
      <3>2. CASE t \notin Recoverable
        BY <1>2, <2>1, <2>2, <2>5, <3>2 DEF QueuedDue, Due
      <3>. QED BY <3>1, <3>2
    <2>. QED BY <2>4, <2>5 DEF QueuedDue
  <1>18. CASE UNCHANGED vars
    BY <1>2, <1>18 DEF vars, Orderly, QueuedDue, Due
  <1>. QED
    BY <1>3, <1>4, <1>6, <1>7, <1>8, <1>9, <1>10, <1>11, <1>12, <1>14, <1>15, <1>16, <1>17,
       <1>18 DEF Next, User, Execute, Rest

(* Without faults a queued task is announced, deferred or being picked up  *)
(* by the one process there is, in every behaviour: no submission is lost  *)
(* while a job for the task unwinds (coordinator.submit and its callback   *)
(* _on_task_finished).                                                     *)
THEOREM NoSubmissionLost == OneProcess => (Spec => []NothingLost)
  <1>. SUFFICES ASSUME OneProcess
                PROVE  Spec => []NothingLost
    OBVIOUS
  <1>1. Init => LostInv
    <2>1. Init => \A t \in Task : task[t].status = "absent" /\ task[t].owner = NoOwner
      BY DEF Init, Absent, NewTask
    <2>. QED BY <2>1, LifecycleAssumption DEF Init, LostInv, Orderly, QueuedDue
  <1>2. LostInv => NothingLost
    <2>1. \A t \in Task : Due(t) => Announced(t)
      BY DEF Due, Announced, Starting, Inside, JobState
    <2>. QED BY <2>1 DEF LostInv, QueuedDue, NothingLost
  <1>. QED  BY <1>1, <1>2, StepLost, TypeCorrect, PTL DEF Spec

-----------------------------------------------------------------------------
(***************************************************************************)
(* What holds with any number of processes: a task nobody has claimed yet  *)
(* is not lost.  The job of a process that has not claimed it cannot pass  *)
(* it over, so only a task that is owned can wait for a lease to run out.  *)
(***************************************************************************)
Unowned == {"none", "ready", "preparing", "failing", "done"}

Unclaimed(t) ==
    /\ task[t].owner = NoOwner =>
          /\ \A p \in Proc : job[p][t] \in Unowned
          /\ task[t].status = "queued" =>
                t \in hints \/ \E p \in Proc : job[p][t] \in Starting
    /\ task[t].status = "absent" => task[t].owner = NoOwner

Undisturbed ==
    /\ \A p \in Proc : mode[p] = "up"
    /\ \A p \in Proc, t \in Task : job[p][t] # "requeueing"

FirstInv == faults = 0 => Undisturbed /\ \A t \in Task : Unclaimed(t)

LEMMA Unconcerned ==
    ASSUME NEW t \in Task, Unclaimed(t), task'[t] = task[t], t \in hints => t \in hints',
           \A p \in Proc : job'[p][t] = job[p][t]
    PROVE  Unclaimed(t)'
  BY DEF Unclaimed

(* A step of one coroutine. *)
LEMMA FirstJob ==
    ASSUME TypeOK, Undisturbed, \A t \in Task : Unclaimed(t), NEW p \in Proc, NEW t \in Task,
           NEW state \in JobState \ {"requeueing"}, job' = [job EXCEPT ![p][t] = state],
           mode' = mode, hints \subseteq hints',
           \A u \in Task \ {t} : task'[u] = task[u],
           task'[t].status = "absent" => task'[t].owner = NoOwner,
           task'[t].owner = NoOwner =>
              /\ task[t].owner = NoOwner
              /\ state \in Unowned
              /\ task'[t].status = "queued" =>
                    task[t].status = "queued" /\ (state \in Starting \/ job[p][t] \notin Starting)
    PROVE  Undisturbed' /\ \A u \in Task : Unclaimed(u)'
  <1>1. \A q \in Proc, u \in Task : job'[q][u] = IF q = p /\ u = t THEN state ELSE job[q][u]
    BY DEF TypeOK
  <1>2. Undisturbed'
    BY <1>1 DEF Undisturbed
  <1>3. ASSUME NEW u \in Task \ {t} PROVE Unclaimed(u)'
    <2>1. \A q \in Proc : job'[q][u] = job[q][u]
      BY <1>1
    <2>. QED BY <2>1, Unconcerned
  <1>4. Unclaimed(t)'
    <2>. SUFFICES ASSUME task'[t].owner = NoOwner
                  PROVE  /\ \A q \in Proc : job'[q][t] \in Unowned
                         /\ task'[t].status = "queued" =>
                               t \in hints' \/ \E q \in Proc : job'[q][t] \in Starting
      BY DEF Unclaimed
    <2>1. \A q \in Proc : job'[q][t] \in Unowned
      BY <1>1 DEF Unclaimed
    <2>2. ASSUME task'[t].status = "queued"
          PROVE  t \in hints' \/ \E q \in Proc : job'[q][t] \in Starting
      <3>1. t \in hints \/ \E q \in Proc : job[q][t] \in Starting
        BY <2>2 DEF Unclaimed
      <3>2. CASE t \in hints
        BY <3>2
      <3>3. ASSUME NEW q \in Proc, job[q][t] \in Starting
            PROVE  \E r \in Proc : job'[r][t] \in Starting
        <4>1. CASE q = p
          BY <1>1, <2>2, <3>3, <4>1
        <4>2. CASE q # p
          BY <1>1, <3>3, <4>2
        <4>. QED BY <4>1, <4>2
      <3>. QED BY <3>1, <3>2, <3>3
    <2>. QED BY <2>1, <2>2
  <1>. QED BY <1>2, <1>3, <1>4

(* A step that starts no job and ends none. *)
LEMMA FirstRow ==
    ASSUME Undisturbed, \A t \in Task : Unclaimed(t), NEW t \in Task,
           job' = job, mode' = mode, hints \subseteq hints',
           \A u \in Task \ {t} : task'[u] = task[u],
           task'[t].status = "absent" => task'[t].owner = NoOwner,
           task'[t].owner = NoOwner =>
              /\ task[t].owner = NoOwner
              /\ task'[t].status = "queued" => task[t].status = "queued" \/ t \in hints'
    PROVE  Undisturbed' /\ \A u \in Task : Unclaimed(u)'
  <1>1. Undisturbed'
    BY DEF Undisturbed
  <1>2. ASSUME NEW u \in Task \ {t} PROVE Unclaimed(u)'
    BY Unconcerned
  <1>3. Unclaimed(t)'
    BY DEF Unclaimed
  <1>. QED BY <1>1, <1>2, <1>3

LEMMA StepFirst == TypeOK /\ FirstInv /\ [Next]_vars => FirstInv'
  <1>. SUFFICES ASSUME TypeOK, FirstInv, [Next]_vars, faults' = 0
                PROVE  Undisturbed' /\ \A t \in Task : Unclaimed(t)'
    BY DEF FirstInv
  <1>1. faults = 0
    BY NoFaultBefore
  <1>2. Undisturbed /\ \A t \in Task : Unclaimed(t)
    BY <1>1 DEF FirstInv
  <1>3. ~ \E p \in Proc : Shutdown(p) \/ Crash(p) \/ Stop(p) \/ Restart(p)
    BY <1>1, <1>2 DEF Shutdown, Crash, Stop, Restart, Undisturbed
  <1>4. ~ \E t \in Task : HeartbeatLate(t) \/ LoseHint(t)
    BY <1>1 DEF HeartbeatLate, LoseHint
  <1>5. \A t \in Task : task[t] \in TaskRow /\ (task[t].status = "absent" => task[t].owner = NoOwner)
    BY <1>2 DEF TypeOK, Unclaimed
  <1>6. NoOwner \notin Proc
    BY LifecycleAssumption
  <1>. USE DEF GoTo, EndJob
  <1>7. ASSUME NEW p \in Proc, NEW t \in Task, Deliver(p, t)
        PROVE  Undisturbed' /\ \A u \in Task : Unclaimed(u)'
    <2>1. /\ mode' = mode /\ task' = task /\ hints' = hints \ {t}
          /\ \A q \in Proc, u \in Task :
                job'[q][u] = IF q = p /\ u = t /\ Idle(p, t) THEN "ready" ELSE job[q][u]
      BY <1>7 DEF Deliver, SubmitAll, TypeOK
    <2>2. Undisturbed'
      BY <1>2, <2>1 DEF Undisturbed
    <2>3. ASSUME NEW u \in Task \ {t} PROVE Unclaimed(u)'
      BY <1>2, <2>1, Unconcerned
    <2>4. Unclaimed(t)'
      <3>. SUFFICES ASSUME task[t].owner = NoOwner
                    PROVE  /\ \A q \in Proc : job'[q][t] \in Unowned
                           /\ \E q \in Proc : job'[q][t] \in Starting
        BY <1>5, <2>1 DEF Unclaimed
      <3>1. \A q \in Proc : job[q][t] \in Unowned
        BY <1>2 DEF Unclaimed
      <3>2. job'[p][t] \in Starting
        BY <2>1, <3>1 DEF Starting, Unowned, Idle
      <3>. QED BY <2>1, <3>1, <3>2 DEF Unowned
    <2>. QED BY <2>2, <2>3, <2>4
  <1>8. ASSUME NEW p \in Proc, NEW t \in Task, JobFinished(p, t)
        PROVE  Undisturbed' /\ \A u \in Task : Unclaimed(u)'
    <2>1. PICK state \in {"ready", "none"} :
             /\ job' = [job EXCEPT ![p][t] = state] /\ job[p][t] = "done"
             /\ UNCHANGED <<mode, hints, task>>
      BY <1>8 DEF JobFinished
    <2>. QED BY <1>2, <1>5, <2>1, FirstJob DEF JobState, Unowned, Starting
  <1>9. ASSUME NEW p \in Proc, NEW t \in Task, Enter(p, t) \/ PrepareFails(p, t)
        PROVE  Undisturbed' /\ \A u \in Task : Unclaimed(u)'
    <2>1. PICK state \in {"preparing", "failing"} :
             /\ job' = [job EXCEPT ![p][t] = state]
             /\ UNCHANGED <<mode, hints, task>>
      BY <1>9 DEF Enter, PrepareFails
    <2>. QED BY <1>2, <1>5, <2>1, FirstJob DEF JobState, Unowned, Starting
  <1>10. ASSUME NEW p \in Proc, NEW t \in Task, Prepare(p, t)
         PROVE  Undisturbed' /\ \A u \in Task : Unclaimed(u)'
    <2>1. UNCHANGED <<mode, hints>>
      BY <1>10 DEF Prepare
    <2>2. CASE ~CanStart(p, t)
      <3>1. job' = [job EXCEPT ![p][t] = "done"] /\ task' = task
            /\ (task[t].owner = NoOwner => task[t].status # "queued")
        BY <1>10, <2>2 DEF Prepare, CanStart
      <3>. QED BY <1>2, <1>5, <2>1, <3>1, FirstJob DEF JobState, Unowned
    <2>3. CASE CanStart(p, t) /\ task[t].cancelling
      <3>1. /\ job' = [job EXCEPT ![p][t] = "done"]
            /\ task' = [task EXCEPT ![t].status = "cancelled", ![t].leased = FALSE]
        BY <1>10, <2>3 DEF Prepare, MarkCancelled, EndTask
      <3>2. /\ task'[t].status = "cancelled" /\ task'[t].owner = task[t].owner
            /\ \A u \in Task \ {t} : task'[u] = task[u]
        BY <1>5, <3>1 DEF TypeOK, TaskRow
      <3>. QED BY <1>2, <2>1, <3>1, <3>2, FirstJob DEF JobState, Unowned
    <2>4. CASE CanStart(p, t) /\ ~task[t].cancelling
      <3>1. /\ job' = [job EXCEPT ![p][t] = "running"]
            /\ task' = [task EXCEPT ![t].status = "running", ![t].owner = p, ![t].leased = TRUE]
        BY <1>10, <2>4 DEF Prepare
      <3>2. /\ task'[t].status = "running" /\ task'[t].owner = p
            /\ \A u \in Task \ {t} : task'[u] = task[u]
        BY <1>5, <3>1 DEF TypeOK, TaskRow
      <3>. QED BY <1>2, <1>6, <2>1, <3>1, <3>2, FirstJob DEF JobState
    <2>. QED BY <2>2, <2>3, <2>4
  <1>11. ASSUME NEW p \in Proc, NEW t \in Task,
                \/ Advance(p, t) \/ Suspend(p, t) \/ RunEnds(p, t) \/ RunWasOver(p, t)
                \/ Conflict(p, t) \/ Suspended(p, t) \/ Commit(p, t)
         PROVE  Undisturbed' /\ \A u \in Task : Unclaimed(u)'
    <2>1. job[p][t] \in {"running", "suspending", "finished"}
      BY <1>11 DEF Advance, Suspend, RunEnds, RunWasOver, Conflict, Suspended, Commit, Running
    <2>2. task[t].owner # NoOwner
      BY <1>2, <2>1 DEF Unclaimed, Unowned
    <2>3. UNCHANGED <<mode, hints>>
      BY <1>11 DEF Advance, Suspend, RunEnds, RunWasOver, Conflict, Suspended, Commit
    <2>4. \E state \in JobState \ {"requeueing"} : job' = [job EXCEPT ![p][t] = state]
      <3>1. CASE Advance(p, t)
        <4>1. job' = [job EXCEPT ![p][t] = job[p][t]]
          BY <3>1 DEF Advance, TypeOK
        <4>2. job[p][t] \in JobState \ {"requeueing"}
          BY <2>1 DEF JobState
        <4>. QED BY <4>1, <4>2
      <3>2. CASE ~Advance(p, t)
        BY <1>11, <3>2 DEF Suspend, RunEnds, RunWasOver, Conflict, Suspended, Commit, JobState
      <3>. QED BY <3>1, <3>2
    <2>5. /\ task'[t].owner = task[t].owner /\ task'[t].status # "absent"
          /\ \A u \in Task \ {t} : task'[u] = task[u]
      <3>1. \/ task' = task
            \/ \E status \in {"waiting", "running", "completed", "cancelled", task[t].status} :
                  \/ task' = [task EXCEPT ![t].status = status]
                  \/ task' = [task EXCEPT ![t].status = status, ![t].leased = FALSE]
        BY <1>11 DEF Advance, Suspend, RunEnds, RunWasOver, Conflict, Suspended, Commit,
                     Checkpoint, MarkCancelled, EndTask
      <3>. QED BY <1>5, <2>2, <3>1 DEF TypeOK, TaskRow
    <2>. QED BY <1>2, <2>2, <2>3, <2>4, <2>5, FirstJob
  <1>12. ASSUME NEW p \in Proc, NEW t \in Task, Fail(p, t)
         PROVE  Undisturbed' /\ \A u \in Task : Unclaimed(u)'
    <2>1. /\ job' = [job EXCEPT ![p][t] = "done"]
          /\ UNCHANGED <<mode, hints>>
          /\ \/ task' = task /\ task[t].status \in {"completed", "cancelled"}
             \/ \E status \in {"cancelled", "failed"} :
                   task' = [task EXCEPT ![t].status = status, ![t].leased = FALSE]
      BY <1>12 DEF Fail, MarkCancelled, EndTask
    <2>2. /\ task'[t].status \in {"completed", "cancelled", "failed"}
          /\ task'[t].owner = task[t].owner
          /\ \A u \in Task \ {t} : task'[u] = task[u]
      BY <1>5, <2>1 DEF TypeOK, TaskRow
    <2>. QED BY <1>2, <2>1, <2>2, FirstJob DEF JobState, Unowned
  <1>13. ASSUME NEW p \in Proc, NEW t \in Task, RequeueAfterShutdown(p, t)
         PROVE  FALSE
    BY <1>2, <1>13 DEF RequeueAfterShutdown, Undisturbed
  <1>14. ASSUME NEW t \in Task, LeaseLapses(t) \/ Cancel(t) \/ \E p \in Proc : HeartbeatEnds(p, t)
         PROVE  Undisturbed' /\ \A u \in Task : Unclaimed(u)'
    <2>1. /\ UNCHANGED <<mode, hints, job>>
          /\ \/ task' = task
             \/ task' = [task EXCEPT ![t].leased = FALSE]
             \/ task' = [task EXCEPT ![t].status = "cancelled", ![t].cancelling = TRUE]
             \/ task' = [task EXCEPT ![t].cancelling = TRUE]
      BY <1>14 DEF LeaseLapses, Cancel, HeartbeatEnds
    <2>2. /\ task'[t].status \in {"cancelled", task[t].status}
          /\ task'[t].owner = task[t].owner
          /\ \A u \in Task \ {t} : task'[u] = task[u]
      BY <1>5, <2>1 DEF TypeOK, TaskRow
    <2>. QED BY <1>2, <1>5, <2>1, <2>2, FirstRow
  <1>15. ASSUME NEW t \in Task, Create(t) \/ Answer(t) \/ \E u \in Task : Retry(u, t)
         PROVE  Undisturbed' /\ \A u \in Task : Unclaimed(u)'
    <2>1. /\ UNCHANGED <<mode, job>> /\ hints' = hints \cup {t}
          /\ \/ task[t].status = "absent" /\ \E n, u : task' = [task EXCEPT ![t] = NewTask(n, u)]
             \/ task' = [task EXCEPT ![t].status = "queued"]
      BY <1>15 DEF Create, Answer, Retry
    <2>2. /\ task'[t].owner = task[t].owner /\ task'[t].status = "queued"
          /\ \A u \in Task \ {t} : task'[u] = task[u]
      BY <1>5, <2>1 DEF TypeOK, TaskRow, NewTask
    <2>. QED BY <1>2, <2>1, <2>2, FirstRow
  <1>16. ASSUME NEW p \in Proc, Recover(p)
         PROVE  Undisturbed' /\ \A u \in Task : Unclaimed(u)'
    <2>1. /\ mode' = mode /\ hints' = hints
          /\ \A t \in Task : task'[t] = IF t \in Recoverable
                                        THEN [task[t] EXCEPT !.status = "queued", !.owner = p,
                                                             !.leased = TRUE]
                                        ELSE task[t]
          /\ SubmitAll(p, Recoverable)
      BY <1>16 DEF Recover, RecoverTasks
    <2>2. \A q \in Proc, t \in Task :
             /\ job'[q][t] \in {job[q][t], "ready"}
             /\ t \notin Recoverable => job'[q][t] = job[q][t]
      BY <2>1 DEF SubmitAll, TypeOK
    <2>3. Undisturbed'
      <3>1. \A q \in Proc, t \in Task : job'[q][t] # "requeueing"
        BY <1>2, <2>2 DEF Undisturbed
      <3>. QED BY <1>2, <2>1, <3>1 DEF Undisturbed
    <2>4. ASSUME NEW t \in Recoverable PROVE Unclaimed(t)'
      <3>1. t \in Task /\ task[t] \in TaskRow
        BY <1>5 DEF Recoverable
      <3>2. task'[t].owner = p /\ task'[t].status = "queued"
        BY <2>1, <3>1 DEF TaskRow
      <3>. QED BY <1>6, <3>2 DEF Unclaimed
    <2>5. ASSUME NEW t \in Task \ Recoverable PROVE Unclaimed(t)'
      BY <1>2, <2>1, <2>2, Unconcerned
    <2>. QED BY <2>3, <2>4, <2>5
  <1>17. CASE UNCHANGED vars
    BY <1>2, <1>17 DEF vars, Undisturbed, Unclaimed
  <1>. QED
    BY <1>3, <1>4, <1>7, <1>8, <1>9, <1>10, <1>11, <1>12, <1>13, <1>14, <1>15, <1>16, <1>17
       DEF Next, User, Execute, Rest

(* Without faults a queued task that no process has claimed yet is         *)
(* announced, deferred or being picked up, however many processes there    *)
(* are and whichever hears of it: what coordinator.submit takes on, prepare*)
(* does not pass over.                                                     *)
THEOREM UnclaimedNotLost ==
    Spec => [](faults = 0 => \A t \in Task :
                  task[t].status = "queued" /\ task[t].owner = NoOwner => Announced(t))
  <1>1. Init => FirstInv
    <2>1. Init => \A t \in Task : task[t].status = "absent" /\ task[t].owner = NoOwner
      BY DEF Init, Absent, NewTask
    <2>. QED BY <2>1 DEF Init, FirstInv, Undisturbed, Unclaimed, Unowned
  <1>2. FirstInv => (faults = 0 => \A t \in Task :
                       task[t].status = "queued" /\ task[t].owner = NoOwner => Announced(t))
    <2>1. \A p \in Proc, t \in Task : job[p][t] \in Starting => job[p][t] \in Inside \cup {"ready"}
      BY DEF Starting, Inside, JobState
    <2>. QED BY <2>1 DEF FirstInv, Unclaimed, Announced
  <1>. QED  BY <1>1, <1>2, StepFirst, TypeCorrect, PTL DEF Spec
=============================================================================
