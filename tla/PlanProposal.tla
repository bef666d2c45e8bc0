------------------------------ MODULE PlanProposal ------------------------------
(***************************************************************************)
(* Replanning under review: the worker whose run is broken proposes a new  *)
(* plan and suspends, a reviewer applies or rejects the proposal, and the  *)
(* run goes on from what the database holds.                               *)
(*                                                                         *)
(* The stored run and each worker's copy are records; a plan is the        *)
(* iteration it was built for.  The work under a plan is one replay-safe   *)
(* call that ends well or breaks the run.  The remaining budget is left to *)
(* chance.  Pauses and approvals of single calls are in RuntimeExecutor.   *)
(***************************************************************************)
EXTENDS Integers, Sequences, FiniteSets

CONSTANTS
    Worker,
    MaxIterations,   \* run.budget.max_iterations
    Labelled,        \* TRUE: plan versions name the iteration (goal runtime);
                     \* FALSE: every plan has the same version (the others)
    OtherApproval,   \* TRUE: reviewers also use the ordinary approval
    MaxProposals,    \* bound: proposals made
    MaxFaults        \* bound: crashes and lost leases

ASSUME ProposalAssumption ==
    /\ MaxIterations \in Nat \ {0}
    /\ Labelled \in BOOLEAN /\ OtherApproval \in BOOLEAN
    /\ MaxProposals \in Nat /\ MaxFaults \in Nat

VARIABLES
    task,       \* task.status
    cancelling, \* task.cancellation_requested
    row,        \* the stored run; of the approval in its control data, kept
                \* is what the last checkpoint has of it
    mem,        \* each worker's copy of the run
    pc,         \* where each worker is
    proposals,  \* the proposals, in the order of their creation
    screen,     \* the proposal a reviewer read last, and the state version
    faults

vars == <<task, cancelling, row, mem, pc, proposals, screen, faults>>

Over == {"completed", "failed", "cancelled"}
Places == {"idle", "deciding", "executing", "proposing", "gating", "finished", "failing"}
Iteration == 0 .. MaxIterations

Id == 1 .. Len(proposals)
NoProposal == 0
Label(plan) == IF Labelled THEN plan ELSE 0

Init ==
    /\ task = "queued" /\ cancelling = FALSE
    /\ row = [version |-> 1, status |-> "running", iteration |-> 0, plan |-> 0,
              gate |-> NoProposal, approved |-> FALSE, kept |-> FALSE,
              work |-> "open"]
    /\ mem = [w \in Worker |-> row]
    /\ pc = [w \in Worker |-> "idle"]
    /\ proposals = <<>>
    /\ screen = <<NoProposal, 0>>
    /\ faults = 0

-----------------------------------------------------------------------------
(* Checkpoints.                                                            *)

(* A checkpoint takes the pending proposal it carries along. *)
Sync(p, version) ==
    IF p = NoProposal \/ proposals[p].status # "pending" THEN proposals
    ELSE [proposals EXCEPT ![p].version = version]

Projected(status) ==
    CASE status = "waiting" -> "review"
      [] status = "paused" -> "user"
      [] status = "running" /\ task \in {"review", "user"} -> "running"
      [] OTHER -> task

CheckpointUnversioned(w, copy, place) ==   \* variant: any stored version is overwritten
    LET gate == IF copy.gate = NoProposal THEN row.gate ELSE copy.gate
        saved == [copy EXCEPT !.version = row.version + 1, !.gate = gate]
    IN /\ row' = saved
       /\ mem' = [mem EXCEPT ![w] = saved]
       /\ task' = Projected(saved.status)
       /\ proposals' = Sync(gate, saved.version)
       /\ pc' = [pc EXCEPT ![w] = place]

(* RuntimePersistenceHooks.checkpoint of a copy of the run, control data   *)
(* merged; the worker fails when the stored version is another.            *)
Checkpoint(w, copy, place) ==
    IF row.version # mem[w].version
    THEN /\ pc' = [pc EXCEPT ![w] = "failing"]
         /\ UNCHANGED <<task, row, mem, proposals>>
    ELSE LET gate == IF copy.gate = NoProposal THEN row.gate ELSE copy.gate
             approved == copy.approved \/ (row.approved /\ copy.status # "running")
             saved == [copy EXCEPT !.version = row.version + 1, !.gate = gate,
                                   !.approved = approved, !.kept = approved]
         IN /\ row' = saved
            /\ mem' = [mem EXCEPT ![w] = saved]
            /\ task' = Projected(saved.status)
            /\ proposals' = Sync(gate, saved.version)
            /\ pc' = [pc EXCEPT ![w] = place]

(* RuntimeRunLifecycleService.finalize of the stored run. *)
Finalized(status) == [row EXCEPT !.status = status, !.version = @ + 1]

-----------------------------------------------------------------------------
(* The worker.                                                             *)

Claim(w) ==
    /\ pc[w] = "idle" /\ task = "queued"
    /\ IF cancelling
       THEN /\ task' = "cancelled"
            /\ row' = Finalized("cancelled")
            /\ UNCHANGED <<mem, pc>>
       ELSE /\ task' = "running"
            /\ mem' = [mem EXCEPT ![w] = row]
            /\ pc' = [pc EXCEPT ![w] = "deciding"]
            /\ UNCHANGED row
    /\ UNCHANGED <<cancelling, proposals, screen, faults>>

Exhausted(iteration) == iteration >= MaxIterations - 1

(* The decision: give up, replan, or execute; a replan counts its          *)
(* iteration in memory and is stored with the proposal.                    *)
Decide(w) ==
    /\ pc[w] = "deciding"
    /\ \/ /\ mem[w].work = "broken" /\ Exhausted(mem[w].iteration)
          /\ Checkpoint(w, [mem[w] EXCEPT !.status = "failed"], "failing")
       \/ /\ mem[w].work = "broken" /\ ~Exhausted(mem[w].iteration)
          /\ mem' = [mem EXCEPT ![w].iteration = @ + 1, ![w].status = "running"]
          /\ pc' = [pc EXCEPT ![w] = "proposing"]
          /\ UNCHANGED <<task, row, proposals>>
       \/ /\ mem[w].work = "done"
          /\ Checkpoint(w, [mem[w] EXCEPT !.status = "completed"], "finished")
       \/ /\ mem[w].work \in {"open", "running"}
          /\ Checkpoint(w, [mem[w] EXCEPT !.status = "running", !.work = "running"],
                        "executing")
    /\ UNCHANGED <<cancelling, screen, faults>>

Execute(w) ==
    /\ pc[w] = "executing"
    /\ \/ Checkpoint(w, [mem[w] EXCEPT !.status = "completed", !.work = "done"], "finished")
       \/ Checkpoint(w, [mem[w] EXCEPT !.work = "broken"], "deciding")
    /\ UNCHANGED <<cancelling, screen, faults>>

(* RuntimePlanProposalService.create, from the stored run, in a            *)
(* transaction of its own; what it refuses fails the worker.               *)
Acceptable(w) ==
    /\ row.version = mem[w].version
    /\ row.work # "running"
    /\ mem[w].iteration > row.iteration
    /\ mem[w].iteration < MaxIterations

Propose(w) ==
    /\ pc[w] = "proposing"
    /\ Len(proposals) < MaxProposals
    /\ Acceptable(w)
    /\ LET p == Len(proposals) + 1
           version == row.version + 1
       IN /\ proposals' = Append(proposals,
                [status |-> "pending", target |-> mem[w].iteration,
                 base |-> Label(row.plan), baseVersion |-> row.version,
                 version |-> version])
          /\ row' = [row EXCEPT !.version = version, !.status = "waiting", !.gate = p,
                                !.approved = row.kept]
          /\ mem' = [mem EXCEPT ![w].version = version, ![w].gate = p]
    /\ task' = "review"
    /\ pc' = [pc EXCEPT ![w] = "gating"]
    /\ UNCHANGED <<cancelling, screen, faults>>

ProposeRefused(w) ==
    /\ pc[w] = "proposing"
    /\ pc' = [pc EXCEPT ![w] = "failing"]
    /\ UNCHANGED <<task, cancelling, row, mem, proposals, screen, faults>>

GateReplacing(w) ==   \* variant: the plan is replaced before the suspension
    /\ pc[w] = "gating"
    /\ Checkpoint(w, [mem[w] EXCEPT !.status = "waiting", !.plan = mem[w].iteration,
                                    !.work = "open"], "idle")
    /\ UNCHANGED <<cancelling, screen, faults>>

(* The controller suspends on the pending proposal with a checkpoint. *)
Gate(w) ==
    /\ pc[w] = "gating"
    /\ Checkpoint(w, [mem[w] EXCEPT !.status = "waiting"], "idle")
    /\ UNCHANGED <<cancelling, screen, faults>>

Commit(w) ==
    /\ pc[w] = "finished"
    /\ \/ /\ cancelling
          /\ task' = "cancelled" /\ row' = Finalized("cancelled")
          /\ pc' = [pc EXCEPT ![w] = "idle"]
       \/ /\ ~cancelling /\ row.version = mem[w].version
          /\ task' = "completed" /\ row' = Finalized("completed")
          /\ pc' = [pc EXCEPT ![w] = "idle"]
       \/ /\ ~cancelling /\ row.version # mem[w].version
          /\ pc' = [pc EXCEPT ![w] = "failing"]
          /\ UNCHANGED <<task, row>>
    /\ UNCHANGED <<cancelling, mem, proposals, screen, faults>>

Fail(w) ==
    /\ pc[w] = "failing"
    /\ IF task \in {"completed", "cancelled"} THEN UNCHANGED <<task, row>>
       ELSE LET outcome == IF cancelling THEN "cancelled" ELSE "failed"
            IN task' = outcome /\ row' = Finalized(outcome)
    /\ pc' = [pc EXCEPT ![w] = "idle"]
    /\ UNCHANGED <<cancelling, mem, proposals, screen, faults>>

Crash(w) ==
    /\ faults < MaxFaults
    /\ pc[w] # "idle"
    /\ pc' = [pc EXCEPT ![w] = "idle"]
    /\ faults' = faults + 1
    /\ UNCHANGED <<task, cancelling, row, mem, proposals, screen>>

Requeue ==
    /\ task = "running"
    /\ task' = "queued"
    /\ UNCHANGED <<cancelling, row, mem, pc, proposals, screen>>

Recover ==
    /\ \A w \in Worker : pc[w] = "idle"
    /\ Requeue
    /\ UNCHANGED faults

LoseLease ==
    /\ faults < MaxFaults
    /\ faults' = faults + 1
    /\ Requeue

-----------------------------------------------------------------------------
(* The reviewer and the user.                                              *)

Look ==
    /\ row.gate # NoProposal
    /\ screen' \in {<<row.gate, row.version>>, <<row.gate, proposals[row.gate].version>>}
    /\ UNCHANGED <<task, cancelling, row, mem, pc, proposals, faults>>

(* What decide accepts: the version the reviewer names may trail the       *)
(* stored one by the suspension checkpoint, and the proposal's own may,    *)
(* as long as the run still waits at the gate of this proposal.            *)
AtGate(p) == row.status = "waiting" /\ row.gate = p

CurrentExact(p, expected) ==   \* variant: the stored version and no other
    /\ expected \in {0, row.version}
    /\ row.version = proposals[p].version

Current(p, expected) ==
    /\ \/ expected \in {0, row.version}
       \/ AtGate(p) /\ expected = proposals[p].version
       \/ AtGate(p) /\ expected + 1 = row.version /\ proposals[p].version = row.version
    /\ \/ row.version = proposals[p].version
       \/ AtGate(p) /\ row.version >= proposals[p].version

Open(p) == task \notin Over /\ proposals[p].status = "pending"

(* _apply, with the assertions decide makes before it. *)
Fits(p) ==
    /\ Label(row.plan) = proposals[p].base
    /\ row.version >= proposals[p].baseVersion
    /\ row.work # "running"
    /\ Exhausted(row.iteration) => row.iteration = proposals[p].target
    /\ row.iteration <= proposals[p].target

GateAfter(p) == IF row.gate = p THEN NoProposal ELSE row.gate

Approve(p, expected) ==
    /\ Open(p) /\ Current(p, expected) /\ Fits(p)
    /\ row' = [row EXCEPT !.version = @ + 1, !.status = "running", !.work = "open",
                          !.iteration = proposals[p].target,
                          !.plan = proposals[p].target, !.gate = GateAfter(p),
                          !.approved = row.kept]
    /\ proposals' = [proposals EXCEPT ![p].status = "applied",
                                      ![p].version = row.version + 1]
    /\ task' = "queued"
    /\ UNCHANGED <<cancelling, mem, pc, screen, faults>>

RejectQuietly(p, expected) ==   \* variant: the task is not put back
    /\ Open(p) /\ Current(p, expected)
    /\ row' = [row EXCEPT !.version = @ + 1, !.status = "paused", !.gate = GateAfter(p)]
    /\ proposals' = [proposals EXCEPT ![p].status = "rejected"]
    /\ UNCHANGED <<task, cancelling, mem, pc, screen, faults>>

Reject(p, expected) ==
    /\ Open(p) /\ Current(p, expected)
    /\ row' = [row EXCEPT !.version = @ + 1, !.status = "paused", !.gate = GateAfter(p),
                          !.approved = row.kept]
    /\ proposals' = [proposals EXCEPT ![p].status = "rejected", ![p].version = row.version]
    /\ task' = "queued"
    /\ UNCHANGED <<cancelling, mem, pc, screen, faults>>

Shown(p) == IF screen[1] = p THEN screen[2] ELSE 0

Review == \E p \in Id : \E expected \in {0, Shown(p)} :
              Approve(p, expected) \/ Reject(p, expected)

(* The ordinary approval and its refusal look at the run's status only. *)
ApproveTask ==
    /\ OtherApproval
    /\ row.status = "waiting" /\ ~row.approved /\ ~row.kept
    /\ row' = [row EXCEPT !.approved = TRUE]
    /\ task' = "queued"
    /\ UNCHANGED <<cancelling, mem, pc, proposals, screen, faults>>

RejectTask ==
    /\ OtherApproval
    /\ row.status = "waiting" /\ ~row.approved /\ ~row.kept
    /\ row' = [row EXCEPT !.status = "paused", !.version = @ + 1]
    /\ task' = "user"
    /\ UNCHANGED <<cancelling, mem, pc, proposals, screen, faults>>

Resume ==
    /\ row.status = "paused"
    /\ task' = "queued"
    /\ UNCHANGED <<cancelling, row, mem, pc, proposals, screen, faults>>

Cancel ==
    /\ task \notin Over /\ ~cancelling
    /\ cancelling' = TRUE
    /\ IF task = "running" THEN UNCHANGED <<task, row>>
       ELSE /\ task' = "cancelled"
            /\ row' = IF row.status \in Over THEN row ELSE Finalized("cancelled")
    /\ UNCHANGED <<mem, pc, proposals, screen, faults>>

-----------------------------------------------------------------------------
Work(w) ==
    \/ Claim(w) \/ Decide(w) \/ Execute(w) \/ Propose(w) \/ ProposeRefused(w)
    \/ Gate(w) \/ Commit(w) \/ Fail(w)

Rest ==
    /\ task \in Over /\ \A w \in Worker : pc[w] = "idle"
    /\ UNCHANGED vars

Next ==
    \/ \E w \in Worker : Work(w) \/ Crash(w)
    \/ Recover \/ LoseLease
    \/ Look \/ Review \/ ApproveTask \/ RejectTask \/ Resume \/ Cancel
    \/ Rest

Spec == Init /\ [][Next]_vars

(* Workers and recovery run, somebody reviews what waits for review, and   *)
(* somebody resumes what was refused.                                      *)
Fairness ==
    /\ \A w \in Worker : WF_vars(Work(w))
    /\ WF_vars(Recover) /\ WF_vars(Review) /\ WF_vars(task = "user" /\ Resume)

FairSpec == Spec /\ Fairness

-----------------------------------------------------------------------------
RunRecord ==
    [version : Nat \ {0}, status : {"running", "waiting", "paused"} \cup Over,
     iteration : Iteration, plan : Iteration, gate : 0 .. Len(proposals),
     approved : BOOLEAN, kept : BOOLEAN, work : {"open", "running", "broken", "done"}]

(* Every variable keeps its type. *)
TypeOK ==
    /\ task \in {"queued", "running", "review", "user"} \cup Over
    /\ cancelling \in BOOLEAN
    /\ row \in RunRecord
    /\ mem \in [Worker -> RunRecord]
    /\ pc \in [Worker -> Places]
    /\ proposals \in Seq([status : {"pending", "applied", "rejected"},
                          target : Iteration, base : Iteration,
                          baseVersion : Nat, version : Nat])
    /\ screen \in Nat \X Nat /\ faults \in Nat

(* Nobody executes a plan that was not reviewed: the plan of the stored    *)
(* run, and of every copy a worker could still store, is the first one or  *)
(* the target of an applied proposal.                                      *)
Reviewed(plan) == plan = 0 \/ \E p \in Id : proposals[p].status = "applied"
                                            /\ proposals[p].target = plan
PlanReviewed ==
    /\ Reviewed(row.plan)
    /\ \A w \in Worker : mem[w].version = row.version => Reviewed(mem[w].plan)

(* A task that waits for review can be decided: the run is at the gate of  *)
(* a pending proposal and decide takes an approval of it, also when the    *)
(* worker died between the proposal and its suspension checkpoint.         *)
ReviewAnswerable ==
    task = "review" =>
        /\ row.gate # NoProposal /\ AtGate(row.gate)
        /\ Open(row.gate) /\ Current(row.gate, 0) /\ Fits(row.gate)

(* A reviewer who read the proposal just before the suspension checkpoint  *)
(* is not sent back: whatever version the screen showed since, decide      *)
(* takes it while the run stays at this gate.                              *)
ScreenHonoured ==
    [][\A p \in Id : AtGate(p) /\ AtGate(p)' /\ pc' # pc
          /\ Current(p, Shown(p)) => Current(p, Shown(p))']_vars

(* The iteration is spent in the open: it never falls back, and a new plan *)
(* costs at least one.                                                     *)
IterationsSpent ==
    [][/\ row'.iteration >= row.iteration
       /\ row'.plan # row.plan => row'.plan > row.plan]_vars

(* With reviewers who decide, every task is over in the end: rejections    *)
(* and failing plans use up the iterations.                                *)
Resolves == <>(task \in Over)

=============================================================================
