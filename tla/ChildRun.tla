-------------------------------- MODULE ChildRun --------------------------------
(***************************************************************************)
(* A node of a run that is a run of its own: the parent's executor starts  *)
(* the node, the child run service finds or creates the child run, the     *)
(* child calls the sub-agent, and its result and its budget go back to the *)
(* parent.  Either run is checkpointed on its own; the user pauses,        *)
(* resumes and approves either.                                            *)
(*                                                                         *)
(* The parent is modelled from the node on: nodes before it are done, and  *)
(* a failed node fails the run (replanning is PlanProposal).  Sub-agents   *)
(* are without side effects and replay safe, as are all that main.py and   *)
(* general_question_runtime.py register.                                   *)
(***************************************************************************)
EXTENDS Integers, Sequences

CONSTANTS
    Worker,
    Approval,      \* definition.requires_approval
    Named,         \* the user names the run a control is for
    MaxRetries,    \* node.max_retries of the parent's node
    MaxSubagents,  \* parent budget.max_subagent_runs
    MaxCalls,      \* parent budget.max_model_calls
    MaxFaults,     \* bound: crashes, lost leases and timeouts
    MaxRequests    \* bound: requests of the user

ASSUME ChildAssumption ==
    /\ Approval \in BOOLEAN /\ Named \in BOOLEAN
    /\ {MaxRetries, MaxSubagents, MaxCalls, MaxFaults, MaxRequests} \subseteq Nat

VARIABLES
    task,        \* task.status
    cancelling,  \* task.cancellation_requested
    parent,      \* the stored parent run
    children,    \* the stored child runs, oldest first
    mem,         \* each worker: where it is, its parent copy, its child copy
    faults, requests

vars == <<task, cancelling, parent, children, mem, faults, requests>>

Over == {"completed", "failed", "cancelled"}
Suspended == {"waiting", "paused"}
Places == {"idle", "deciding", "starting", "looking", "creating", "nested", "denied",
           "calling", "noting", "suspending", "returning", "erring", "finished", "failing"}

NewParent ==
    [version |-> 1, status |-> "running", node |-> "ready", attempt |-> 0,
     paid |-> FALSE, subagents |-> 0, spent |-> 0, absorbed |-> {}, link |-> 0,
     pause |-> FALSE, approved |-> FALSE]

NewChild(allotted) ==
    [version |-> 1, status |-> "running", node |-> "ready", paid |-> FALSE,
     calls |-> 0, allotted |-> allotted, pause |-> FALSE, approved |-> FALSE]

Idle == [pc |-> "idle", run |-> NewParent, id |-> 0, child |-> NewChild(0)]

Child == 1 .. Len(children)

Init ==
    /\ task = "queued" /\ cancelling = FALSE
    /\ parent = NewParent
    /\ children = <<>>
    /\ mem = [w \in Worker |-> Idle]
    /\ faults = 0 /\ requests = 0

-----------------------------------------------------------------------------
(* Checkpoints: RuntimePersistenceHooks.checkpoint of either run.          *)

ProjectedOnce(status) ==         \* variant: a run that goes on leaves the task waiting
    CASE status = "waiting" -> "review"
      [] status = "paused" -> "user"
      [] OTHER -> task
Projected(status) ==
    CASE status = "waiting" -> "review"
      [] status = "paused" -> "user"
      [] status = "running" /\ task \in {"review", "user"} -> "running"
      [] OTHER -> task

(* What the row holds of the controls: a pause is answered by pausing, a   *)
(* grant is spent by running without it.                                   *)
Merged(run, row) ==
    LET spent == run.status = "running" /\ row.approved /\ ~run.approved
    IN [run EXCEPT !.version = row.version + 1,
                   !.pause = row.pause /\ run.status # "paused" /\ ~spent,
                   !.approved = @ \/ (row.approved /\ ~spent)]

SaveParent(w, run, place) ==
    IF parent.version # run.version
    THEN /\ mem' = [mem EXCEPT ![w].pc = "failing"]
         /\ UNCHANGED <<task, parent>>
    ELSE LET saved == [Merged(run, parent) EXCEPT
                          !.link = IF run.link = 0 THEN parent.link ELSE run.link]
         IN /\ parent' = saved
            /\ task' = Projected(run.status)
            /\ mem' = [mem EXCEPT ![w] =
                          IF place = "idle" THEN Idle ELSE [@ EXCEPT !.pc = place, !.run = saved]]

SaveChildUnversioned(w, run, place) ==   \* variant: any stored version is overwritten
    LET c == mem[w].id
    IN /\ children' = [children EXCEPT ![c] = Merged(run, children[c])]
       /\ task' = Projected(run.status)
       /\ mem' = [mem EXCEPT ![w].pc = place, ![w].child = children'[c]]

SaveChildRetrying(w, run, place) ==   \* variant: a conflict is tried again with the same copy
    LET c == mem[w].id
    IN IF children[c].version # run.version
       THEN UNCHANGED <<task, children, mem>>
       ELSE /\ children' = [children EXCEPT ![c] = Merged(run, children[c])]
            /\ task' = Projected(run.status)
            /\ mem' = [mem EXCEPT ![w].pc = place, ![w].child = children'[c]]

(* A conflict is an error of the handler, which the parent handles. *)
SaveChild(w, run, place) ==
    LET c == mem[w].id
    IN IF children[c].version # run.version
       THEN /\ mem' = [mem EXCEPT ![w].pc = "erring"]
            /\ UNCHANGED <<task, children>>
       ELSE /\ children' = [children EXCEPT ![c] = Merged(run, children[c])]
            /\ task' = Projected(run.status)
            /\ mem' = [mem EXCEPT ![w].pc = place, ![w].child = children'[c]]

(* The task's end is the parent's; a node left open is closed with it. *)
Finalized(status) ==
    [parent EXCEPT !.status = status, !.version = @ + 1,
                   !.node = IF @ = "succeeded" THEN @ ELSE "failed"]

-----------------------------------------------------------------------------
(* The parent run.                                                         *)

Claim(w) ==
    /\ mem[w].pc = "idle" /\ task = "queued"
    /\ IF cancelling
       THEN /\ task' = "cancelled" /\ parent' = Finalized("cancelled")
            /\ UNCHANGED mem
       ELSE /\ task' = "running"
            /\ mem' = [mem EXCEPT ![w] = [Idle EXCEPT !.pc = "deciding", !.run = parent]]
            /\ UNCHANGED parent
    /\ UNCHANGED <<cancelling, children, faults, requests>>

(* One turn of the controller.  Executing a node found running recovers it *)
(* as the replay of a paid attempt.                                        *)
Decide(w) ==
    LET run == mem[w].run IN
    /\ mem[w].pc = "deciding"
    /\ \/ /\ parent.pause
          /\ SaveParent(w, [run EXCEPT !.status = "paused"], "idle")
       \/ /\ ~parent.pause /\ run.node = "failed"
          /\ SaveParent(w, [run EXCEPT !.status = "failed"], "failing")
       \/ /\ ~parent.pause /\ run.node = "succeeded"
          /\ SaveParent(w, [run EXCEPT !.status = "completed"], "finished")
       \/ /\ ~parent.pause /\ run.node \in {"ready", "running"}
          /\ mem' = [mem EXCEPT ![w].pc = "starting",
                        ![w].run = [run EXCEPT !.status = "running", !.node = "ready",
                                               !.paid = @ \/ run.node = "running"]]
          /\ UNCHANGED <<task, parent>>
    /\ UNCHANGED <<cancelling, children, faults, requests>>

(* The node is stored as running, reserved unless it is a replay; refused  *)
(* by the budget it is stored as running too. Attempts count to where      *)
(* there is no retry.                                                      *)
Reserved(run) == run.paid \/ run.subagents < MaxSubagents

Charged(run) ==
    [run EXCEPT !.paid = FALSE,
                !.subagents = IF run.paid THEN @ ELSE IF @ < MaxSubagents THEN @ + 1 ELSE @]

Start(w) ==
    LET run == mem[w].run IN
    /\ mem[w].pc = "starting"
    /\ SaveParent(w, [Charged(run) EXCEPT !.status = "running", !.node = "running",
                         !.attempt = IF @ > MaxRetries THEN @ ELSE @ + 1],
                  IF Reserved(run) THEN "looking" ELSE "erring")
    /\ UNCHANGED <<cancelling, children, faults, requests>>

(* _handle_failure: another attempt of the node, or its end. *)
Err(w) ==
    LET run == mem[w].run IN
    /\ mem[w].pc = "erring"
    /\ IF run.attempt <= MaxRetries
       THEN SaveParent(w, [run EXCEPT !.node = "ready", !.status = "running"], "starting")
       ELSE SaveParent(w, [run EXCEPT !.node = "failed", !.status = "failed"], "deciding")
    /\ UNCHANGED <<cancelling, children, faults, requests>>

(* The nested run is suspended: the node is ready again, the run has the   *)
(* child's status, and the executor's loop goes on.                        *)
Suspend(w) ==
    /\ mem[w].pc = "suspending"
    /\ SaveParent(w, [mem[w].run EXCEPT !.node = "ready", !.link = mem[w].id,
                                        !.status = mem[w].child.status], "starting")
    /\ UNCHANGED <<cancelling, children, faults, requests>>

-----------------------------------------------------------------------------
(* The child run: RuntimeChildRunService.execute_with_run.                 *)

Goto(w, place) ==
    /\ mem' = [mem EXCEPT ![w].pc = place]
    /\ UNCHANGED <<task, parent, children>>

LookAgain(w) ==   \* variant: a failed child is taken up too
    /\ mem[w].pc = "looking"
    /\ IF children = <<>>
       THEN Goto(w, "creating")
       ELSE LET c == Len(children)
            IN /\ mem' = [mem EXCEPT ![w].id = c, ![w].child = children[c],
                              ![w].pc = IF children[c].status = "completed"
                                        THEN "returning" ELSE "nested"]
               /\ UNCHANGED <<task, parent, children>>
    /\ UNCHANGED <<cancelling, faults, requests>>

(* The newest child of the node is taken up, unless it failed. *)
Look(w) ==
    /\ mem[w].pc = "looking"
    /\ IF children = <<>> \/ children[Len(children)].status = "failed"
       THEN Goto(w, "creating")
       ELSE LET c == Len(children)
            IN /\ mem' = [mem EXCEPT ![w].id = c, ![w].child = children[c],
                              ![w].pc = IF children[c].status = "completed"
                                        THEN "returning" ELSE "nested"]
               /\ UNCHANGED <<task, parent, children>>
    /\ UNCHANGED <<cancelling, faults, requests>>

Create(w) ==
    /\ mem[w].pc = "creating"
    /\ children' = Append(children, NewChild(MaxCalls - mem[w].run.spent))
    /\ mem' = [mem EXCEPT ![w].pc = "nested", ![w].id = Len(children'),
                          ![w].child = children'[Len(children')]]
    /\ UNCHANGED <<task, cancelling, parent, faults, requests>>

(* One turn of the child's controller and executor: the pause of either    *)
(* run, the recovery of a call found running, the approval gate, the       *)
(* reservation.                                                            *)
Nest(w) ==
    LET run == mem[w].child
        paid == run.paid \/ run.node = "running"
        found == [run EXCEPT !.node = "ready", !.paid = paid]
        started == [found EXCEPT !.status = "running", !.node = "running",
                                 !.paid = FALSE, !.approved = FALSE]
        paused == children[mem[w].id].pause \/ parent.pause
        opened == Approval => run.approved
    IN
    /\ mem[w].pc = "nested"
    /\ \/ /\ paused
          /\ SaveChild(w, [run EXCEPT !.status = "paused"], "noting")
       \/ /\ ~paused /\ ~opened
          /\ SaveChild(w, [found EXCEPT !.status = "waiting"], "noting")
       \/ /\ ~paused /\ opened /\ paid
          /\ SaveChild(w, started, "calling")
       \/ /\ ~paused /\ opened /\ ~paid /\ run.calls < run.allotted
          /\ SaveChild(w, [started EXCEPT !.calls = @ + 1], "calling")
       \/ /\ ~paused /\ opened /\ ~paid /\ run.calls >= run.allotted
          /\ SaveChild(w, started, "denied")
    /\ UNCHANGED <<cancelling, parent, faults, requests>>

(* The suspended child is stored once more, with its event. *)
Note(w) ==
    /\ mem[w].pc = "noting"
    /\ SaveChild(w, mem[w].child, "suspending")
    /\ UNCHANGED <<cancelling, parent, faults, requests>>

Call(w) ==
    /\ \/ /\ mem[w].pc = "calling"
          /\ SaveChild(w, [mem[w].child EXCEPT !.node = "succeeded", !.status = "completed"],
                       "returning")
       \/ /\ mem[w].pc \in {"calling", "denied"}
          /\ SaveChild(w, [mem[w].child EXCEPT !.node = "failed", !.status = "failed"],
                       "returning")
    /\ UNCHANGED <<cancelling, parent, faults, requests>>

(* The child's consumption is absorbed once, and its result taken. *)
Absorbed(run, c, child) ==
    IF c \in run.absorbed THEN run
    ELSE [run EXCEPT !.spent = @ + child.calls, !.absorbed = @ \cup {c}]

Return(w) ==
    LET run == mem[w].run
        child == mem[w].child
        after == [Absorbed(run, mem[w].id, child) EXCEPT
                     !.link = IF @ = mem[w].id THEN 0 ELSE @]
        fits == mem[w].id \in run.absorbed \/ run.spent + child.calls <= MaxCalls
    IN
    /\ mem[w].pc = "returning"
    /\ \/ /\ ~fits
          /\ Goto(w, "erring")
       \/ /\ fits /\ child.status = "failed"
          /\ mem' = [mem EXCEPT ![w].pc = "erring", ![w].run = after]
          /\ UNCHANGED <<task, parent, children>>
       \/ /\ fits /\ child.status = "completed"
          /\ SaveParent(w, [after EXCEPT !.node = "succeeded", !.status = "completed"],
                        "finished")
          /\ UNCHANGED children
    /\ UNCHANGED <<cancelling, faults, requests>>

-----------------------------------------------------------------------------
(* The end of an execution, and what may go wrong.                         *)

Commit(w) ==
    /\ mem[w].pc = "finished"
    /\ \/ /\ cancelling
          /\ task' = "cancelled" /\ parent' = Finalized("cancelled")
          /\ mem' = [mem EXCEPT ![w] = Idle]
       \/ /\ ~cancelling /\ parent.version = mem[w].run.version
          /\ task' = "completed" /\ parent' = Finalized("completed")
          /\ mem' = [mem EXCEPT ![w] = Idle]
       \/ /\ ~cancelling /\ parent.version # mem[w].run.version
          /\ mem' = [mem EXCEPT ![w].pc = "failing"]
          /\ UNCHANGED <<task, parent>>
    /\ UNCHANGED <<cancelling, children, faults, requests>>

Fail(w) ==
    /\ mem[w].pc = "failing"
    /\ IF task \in {"completed", "cancelled"} THEN UNCHANGED <<task, parent>>
       ELSE LET outcome == IF cancelling THEN "cancelled" ELSE "failed"
            IN task' = outcome /\ parent' = Finalized(outcome)
    /\ mem' = [mem EXCEPT ![w] = Idle]
    /\ UNCHANGED <<cancelling, children, faults, requests>>

(* The timeout of the parent's node covers all the handler does. *)
TimeOut(w) ==
    /\ faults < MaxFaults
    /\ mem[w].pc \in {"looking", "creating", "nested", "calling", "denied", "noting"}
    /\ mem' = [mem EXCEPT ![w].pc = "erring"]
    /\ faults' = faults + 1
    /\ UNCHANGED <<task, cancelling, parent, children, requests>>

Crash(w) ==
    /\ faults < MaxFaults
    /\ mem[w].pc # "idle"
    /\ mem' = [mem EXCEPT ![w] = Idle]
    /\ faults' = faults + 1
    /\ UNCHANGED <<task, cancelling, parent, children, requests>>

Requeue ==
    /\ task = "running"
    /\ task' = "queued"
    /\ UNCHANGED <<cancelling, parent, children, mem, requests>>

Recover ==
    /\ \A w \in Worker : mem[w].pc = "idle"
    /\ Requeue
    /\ UNCHANGED faults

LoseLease ==
    /\ faults < MaxFaults
    /\ faults' = faults + 1
    /\ Requeue

-----------------------------------------------------------------------------
(* The user.  0 stands for the parent run.                                 *)

Request ==
    /\ requests < MaxRequests
    /\ requests' = requests + 1
    /\ UNCHANGED <<mem, faults>>

Pause ==
    /\ Request /\ task \notin Over
    /\ \/ /\ parent.status = "running"
          /\ parent' = [parent EXCEPT !.pause = TRUE, !.link = 0, !.approved = FALSE]
          /\ UNCHANGED children
       \/ \E c \in Child :
             /\ Named /\ children[c].status = "running"
             /\ children' = [children EXCEPT ![c].pause = TRUE, ![c].approved = FALSE]
             /\ UNCHANGED parent
    /\ UNCHANGED <<task, cancelling>>

Stored(c) == IF c = 0 THEN parent ELSE children[c]

(* The runs a control can reach: the one it names, or without a name the   *)
(* suspended child the parent is linked to, and else the parent.           *)
Reached(status) ==
    CASE Named -> {0} \cup Child
      [] ~Named /\ parent.link \in Child /\ children[parent.link].status = status
            -> {parent.link}
      [] OTHER -> {0}

Answer(c) ==
    /\ task' = "queued"
    /\ UNCHANGED cancelling
    /\ parent' = [parent EXCEPT !.pause = FALSE, !.link = IF c = 0 THEN @ ELSE 0]

Resume ==
    \E c \in Reached("paused") :
        /\ Request
        /\ Stored(c).status = "paused"
        /\ Answer(c)
        /\ children' = IF c = 0 THEN children ELSE [children EXCEPT ![c].pause = FALSE]

Approve ==
    \E c \in Reached("waiting") :
        LET run == Stored(c) IN
        /\ Request
        /\ run.status = "waiting" /\ ~run.approved
        /\ task' = "queued" /\ UNCHANGED cancelling
        /\ IF c = 0
           THEN /\ parent' = [parent EXCEPT !.pause = FALSE, !.approved = TRUE]
                /\ UNCHANGED children
           ELSE /\ parent' = [parent EXCEPT !.pause = FALSE, !.link = 0]
                /\ children' = [children EXCEPT ![c].pause = FALSE, ![c].approved = TRUE]

Reject ==
    \E c \in Reached("waiting") :
        LET run == Stored(c)
            refused == [run EXCEPT !.status = "paused", !.pause = FALSE,
                                   !.version = @ + 1]
        IN
        /\ Request
        /\ run.status = "waiting" /\ ~run.approved
        /\ task' = "user" /\ UNCHANGED cancelling
        /\ IF c = 0 THEN parent' = refused /\ UNCHANGED children
           ELSE children' = [children EXCEPT ![c] = refused] /\ UNCHANGED parent

Cancel ==
    /\ Request /\ task \notin Over
    /\ cancelling' = TRUE
    /\ IF task = "running" THEN UNCHANGED <<task, parent>>
       ELSE /\ task' = "cancelled"
            /\ parent' = IF parent.status \in Over THEN parent
                         ELSE [Finalized("cancelled") EXCEPT
                                  !.pause = FALSE, !.approved = FALSE, !.link = 0]
    /\ UNCHANGED children

-----------------------------------------------------------------------------
Work(w) ==
    \/ Claim(w) \/ Decide(w) \/ Start(w) \/ Err(w) \/ Suspend(w)
    \/ Look(w) \/ Create(w) \/ Nest(w) \/ Note(w) \/ Call(w) \/ Return(w)
    \/ Commit(w) \/ Fail(w)

Rest ==
    /\ task \in Over \cup {"review", "user"} /\ \A w \in Worker : mem[w].pc = "idle"
    /\ UNCHANGED vars

Next ==
    \/ \E w \in Worker : Work(w) \/ TimeOut(w) \/ Crash(w)
    \/ Recover \/ LoseLease
    \/ Pause \/ Resume \/ Approve \/ Reject \/ Cancel
    \/ Rest

Spec == Init /\ [][Next]_vars
FairSpec == Spec /\ (\A w \in Worker : WF_vars(Work(w))) /\ WF_vars(Recover)

-----------------------------------------------------------------------------
RunStatus == {"running"} \cup Suspended \cup Over
NodeStatus == {"ready", "running", "succeeded", "failed"}

ParentRun ==
    [version : Nat, status : RunStatus, node : NodeStatus, attempt : 0 .. MaxRetries + 1,
     paid : BOOLEAN, subagents : 0 .. MaxSubagents, spent : 0 .. MaxCalls,
     absorbed : SUBSET Child, link : {0} \cup Child, pause : BOOLEAN, approved : BOOLEAN]

ChildRecord ==
    [version : Nat, status : RunStatus, node : NodeStatus, paid : BOOLEAN,
     calls : 0 .. MaxCalls, allotted : 0 .. MaxCalls, pause : BOOLEAN, approved : BOOLEAN]

(* Every variable keeps its type; no counter of a budget passes its limit. *)
TypeOK ==
    /\ task \in {"queued", "running", "review", "user"} \cup Over
    /\ cancelling \in BOOLEAN
    /\ parent \in ParentRun
    /\ children \in Seq(ChildRecord)
    /\ mem \in [Worker -> [pc : Places, run : ParentRun,
                          id : {0} \cup Child, child : ChildRecord]]
    /\ faults \in 0 .. MaxFaults /\ requests \in 0 .. MaxRequests

(* The parent's node succeeds on the result of a completed child whose     *)
(* consumption is in the parent's budget, though the child may have been   *)
(* run by another worker, before a crash, or beside a second child of the  *)
(* same node (runtime_child_run.py 77-205).                                *)
ResultBacked ==
    parent.node = "succeeded" =>
        \E c \in parent.absorbed : children[c].status = "completed"

(* A task that nobody executes waits for its user only while a control can *)
(* reach a suspended run of it: either run projects its status onto the    *)
(* one task, whatever the other one does (runtime_persistence_hooks.py     *)
(* 183-193).  It takes a user who names the run: README.                   *)
WaitingBacked ==
    task \in {"review", "user"} /\ (\A w \in Worker : mem[w].pc = "idle") =>
        \E status \in Suspended : \E c \in Reached(status) : Stored(c).status = status

(* The result of a child run is final: a second worker with the child in   *)
(* hand, a late checkpoint or a control never moves it (what makes reusing *)
(* it in _load_or_create safe).                                            *)
DoneStaysDone ==
    [][\A c \in Child : children[c].status \in {"completed", "failed"} =>
          children'[c] = children[c]]_vars

(* A task that is queued or running comes to rest.  The executor starts a  *)
(* suspended node again at once (executor.py 206-212, 80-106), and only    *)
(* the budget ends that loop.                                              *)
Rests == task \in {"queued", "running"} ~> task \in Over \cup {"review", "user"}

(* The roadmap (docs/architecture/true_agent_runtime_roadmap.md 606-609):  *)
(* after a pause "Task resume continues the same child Run".  A task that  *)
(* waits for its user runs again only when the user asks for it.           *)
SuspensionHolds ==
    [][(task \in {"review", "user"} /\ task' = "running") => requests' # requests]_vars
=============================================================================
