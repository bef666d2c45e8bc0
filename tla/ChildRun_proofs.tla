---------------------------- MODULE ChildRun_proofs ----------------------------
(***************************************************************************)
(* Theorems about ChildRun, for any number of workers, children, faults    *)
(* and requests: the types (no budget passes its limit), the finality of a *)
(* child's result, the backing of the parent's, and that of a task that    *)
(* waits for its user.                                                     *)
(***************************************************************************)
EXTENDS ChildRun, TLAPS

Final == {"completed", "failed"}

(* Where a worker has a child in hand, and where it may store it again. *)
Storing == {"nested", "denied", "calling", "noting"}
Holding == Storing \cup {"suspending", "returning"}

(* A succeeded node has the completed child it succeeded on.  *)
Backed(run) ==
    run.node = "succeeded" =>
        \E c \in run.absorbed : children[c].status = "completed"

(* What holds of a worker: the types of its copies, and that what it could *)
(* store over a final child is of an older version.                        *)
WorkerOK(m) ==
    /\ m \in [pc : Places, run : ParentRun, id : {0} \cup Child, child : ChildRecord]
    /\ Backed(m.run)
    /\ m.pc \in Holding => m.id \in Child
    /\ m.pc \in Storing =>
          /\ m.child.status \notin Final
          /\ m.child.version <= children[m.id].version
          /\ m.child.version = children[m.id].version => children[m.id].status \notin Final
    /\ m.pc = "returning" /\ m.child.status = "completed" =>
          children[m.id].status = "completed"

Task == {"queued", "running", "review", "user"} \cup Over

RowsOK ==
    /\ task \in Task
    /\ cancelling \in BOOLEAN
    /\ children \in Seq(ChildRecord)
    /\ parent \in ParentRun
    /\ Backed(parent)
    /\ faults \in 0 .. MaxFaults /\ requests \in 0 .. MaxRequests

IInv ==
    /\ RowsOK
    /\ DOMAIN mem = Worker /\ mem = [w \in Worker |-> mem[w]]
    /\ \A w \in Worker : WorkerOK(mem[w])

(* How the children move: none is lost, a final one stays as it is, and    *)
(* one whose status changes gets a later version.                          *)
Onward ==
    /\ children' \in Seq(ChildRecord)
    /\ Len(children) <= Len(children')
    /\ \A c \in Child :
          /\ children[c].status \in Final => children'[c] = children[c]
          /\ \/ children'[c].version > children[c].version
             \/ /\ children'[c].version = children[c].version
                /\ children'[c].status = children[c].status

-----------------------------------------------------------------------------
(* Records. *)

LEMMA SeqFacts ==
    ASSUME RowsOK
    PROVE  /\ Len(children) \in Nat
           /\ \A c \in Child : children[c] \in ChildRecord
           /\ DOMAIN children = Child
  BY DEF RowsOK, Child

LEMMA TaskTyped ==
    ASSUME task \in Task, NEW status \in RunStatus
    PROVE  Projected(status) \in Task
  BY DEF Projected, Task

LEMMA MergedControls ==
    ASSUME NEW run, NEW row
    PROVE  \E p \in BOOLEAN, a \in BOOLEAN :
              Merged(run, row) = [run EXCEPT !.version = row.version + 1,
                                             !.pause = p, !.approved = a]
  <1>. DEFINE spent == run.status = "running" /\ row.approved /\ ~run.approved
              p == row.pause /\ run.status # "paused" /\ ~spent
              a == run.approved \/ (row.approved /\ ~spent)
  <1>1. p \in BOOLEAN /\ a \in BOOLEAN
    OBVIOUS
  <1>2. Merged(run, row) = [run EXCEPT !.version = row.version + 1,
                                       !.pause = p, !.approved = a]
    BY Zenon DEF Merged
  <1>. HIDE DEF p, a
  <1>. QED  BY <1>1, <1>2, Zenon

LEMMA MergedParent ==
    ASSUME RowsOK, NEW run \in ParentRun
    PROVE  /\ Merged(run, parent) \in ParentRun
           /\ Merged(run, parent).node = run.node
           /\ Merged(run, parent).absorbed = run.absorbed
           /\ Merged(run, parent).status = run.status
  <1>1. PICK v \in Nat, p \in BOOLEAN, a \in BOOLEAN :
            Merged(run, parent) = [run EXCEPT !.version = v, !.pause = p, !.approved = a]
    <2>1. parent.version + 1 \in Nat
      BY DEF RowsOK, ParentRun
    <2>. QED  BY <2>1, MergedControls
  <1>. QED  BY <1>1 DEF ParentRun

LEMMA MergedChild ==
    ASSUME NEW run \in ChildRecord, NEW row \in ChildRecord
    PROVE  /\ Merged(run, row) \in ChildRecord
           /\ Merged(run, row).version = row.version + 1
           /\ Merged(run, row).status = run.status
  <1>1. PICK p \in BOOLEAN, a \in BOOLEAN :
            Merged(run, row) = [run EXCEPT !.version = row.version + 1,
                                           !.pause = p, !.approved = a]
    BY MergedControls
  <1>2. row.version + 1 \in Nat
    BY DEF ChildRecord
  <1>. QED  BY <1>1, <1>2 DEF ChildRecord

LEMMA FinalizedTyped ==
    ASSUME RowsOK, NEW status \in Over
    PROVE  /\ Finalized(status) \in ParentRun
           /\ Backed(Finalized(status))
  <1>1. Finalized(status) \in ParentRun
    <2>1. PICK n \in NodeStatus : Finalized(status) =
              [parent EXCEPT !.status = status, !.version = parent.version + 1, !.node = n]
      BY DEF RowsOK, Finalized, ParentRun, NodeStatus
    <2>2. parent \in ParentRun /\ parent.version + 1 \in Nat /\ status \in RunStatus
      BY DEF RowsOK, ParentRun, RunStatus
    <2>. HIDE DEF Finalized
    <2>. QED  BY <2>1, <2>2 DEF ParentRun
  <1>2. /\ Finalized(status).absorbed = parent.absorbed
        /\ Finalized(status).node = "succeeded" => parent.node = "succeeded"
    BY DEF RowsOK, Finalized, ParentRun
  <1>. QED  BY <1>1, <1>2 DEF RowsOK, Backed

LEMMA NewTyped ==
    ASSUME ChildAssumption
    PROVE  /\ NewParent \in ParentRun /\ Backed(NewParent)
           /\ \A n \in 0 .. MaxCalls : NewChild(n) \in ChildRecord
  BY DEF ChildAssumption, NewParent, ParentRun, NewChild, ChildRecord, RunStatus,
         NodeStatus, Backed

LEMMA IdleOK ==
    ASSUME ChildAssumption
    PROVE  WorkerOK(Idle)
  BY NewTyped DEF ChildAssumption, Idle, WorkerOK, Places, Holding, Storing

-----------------------------------------------------------------------------
(* What a step of one worker leaves of the others.                         *)

LEMMA Grows ==
    ASSUME RowsOK, Onward
    PROVE  Child \subseteq Child' /\ ParentRun \subseteq ParentRun'
  <1>1. Child \subseteq Child'
    BY SeqFacts DEF Onward, Child
  <1>. QED  BY <1>1 DEF ParentRun

LEMMA BackedOnward ==
    ASSUME RowsOK, Onward
    PROVE  \A run \in ParentRun : Backed(run) /\ run.node = "succeeded" =>
              \E c \in run.absorbed : children'[c].status = "completed"
  BY DEF Onward, Backed, ParentRun, Final

LEMMA ParentOnward ==
    ASSUME RowsOK, Onward, parent' = parent
    PROVE  parent' \in ParentRun' /\ Backed(parent)'
  BY BackedOnward, Grows DEF RowsOK, Backed

LEMMA WorkerOnward ==
    ASSUME RowsOK, Onward, NEW w, WorkerOK(mem[w]), mem'[w] = mem[w]
    PROVE  WorkerOK(mem[w])'
  <1>1. /\ mem'[w] \in [pc : Places, run : ParentRun', id : {0} \cup Child', child : ChildRecord]
        /\ Backed(mem[w].run)'
    BY Grows, BackedOnward DEF WorkerOK, Backed
  <1>2. CASE mem[w].pc \in Holding
    <2>. DEFINE c == mem[w].id
    <2>1. c \in Child /\ children[c] \in ChildRecord /\ mem[w].child \in ChildRecord
      BY <1>2, SeqFacts DEF WorkerOK
    <2>2. c \in Child' /\ children'[c] \in ChildRecord
      BY <2>1, Grows DEF Onward, Child
    <2>3. /\ children[c].status \in Final => children'[c] = children[c]
          /\ \/ children'[c].version > children[c].version
             \/ /\ children'[c].version = children[c].version
                /\ children'[c].status = children[c].status
      BY <2>1 DEF Onward
    <2>4. /\ children[c].version \in Nat /\ children'[c].version \in Nat
          /\ mem[w].child.version \in Nat
      BY <2>1, <2>2 DEF ChildRecord
    <2>5. mem[w].pc \in Storing =>
             /\ mem[w].child.status \notin Final
             /\ mem[w].child.version <= children'[c].version
             /\ mem[w].child.version = children'[c].version => children'[c].status \notin Final
      BY <2>3, <2>4 DEF WorkerOK
    <2>6. mem[w].pc = "returning" /\ mem[w].child.status = "completed"
             => children'[c].status = "completed"
      BY <2>3 DEF WorkerOK, Final
    <2>. QED  BY <1>1, <2>2, <2>5, <2>6 DEF WorkerOK
  <1>3. CASE mem[w].pc \notin Holding
    BY <1>1, <1>3 DEF WorkerOK, Holding
  <1>. QED  BY <1>2, <1>3

-----------------------------------------------------------------------------
(* The steps of a worker, by what they write. *)

Worked(w) ==
    /\ Onward
    /\ RowsOK'
    /\ mem' = [u \in Worker |-> mem'[u]]
    /\ \A u \in Worker \ {w} : mem'[u] = mem[u]
    /\ WorkerOK(mem[w])'

LEMMA Preserved ==
    ASSUME IInv, NEW w \in Worker, Worked(w)
    PROVE  IInv' /\ Onward
  <1>1. DOMAIN mem' = Worker
    BY DEF Worked
  <1>2. ASSUME NEW u \in Worker
        PROVE  WorkerOK(mem[u])'
    <2>1. CASE u = w
      BY <2>1 DEF Worked
    <2>2. CASE u # w
      BY <2>2, WorkerOnward DEF IInv, Worked
    <2>. QED  BY <2>1, <2>2
  <1>. QED  BY <1>1, <1>2 DEF IInv, Worked

LEMMA Still ==
    ASSUME RowsOK, UNCHANGED children
    PROVE  /\ Onward /\ Child' = Child /\ ParentRun' = ParentRun
           /\ \A run : run.node # "succeeded" \/ Backed(run) =>
                 (run.node = "succeeded" =>
                     \E c \in run.absorbed : children'[c].status = "completed")
  <1>1. \A c \in Child : children[c] \in ChildRecord
    BY SeqFacts
  <1>2. Onward
    BY <1>1 DEF Onward, RowsOK, ChildRecord, Child
  <1>3. Child' = Child
    BY DEF Child
  <1>4. ParentRun' = ParentRun
    BY <1>3 DEF ParentRun
  <1>. QED  BY <1>2, <1>3, <1>4 DEF Backed

(* A worker that leaves the rows of the runs alone and has no child. *)
LEMMA MoveStep ==
    ASSUME IInv, NEW w \in Worker, UNCHANGED <<parent, children>>,
           task' \in Task, cancelling' \in BOOLEAN,
           faults' \in 0 .. MaxFaults, requests' \in 0 .. MaxRequests,
           NEW place \in Places \ Holding, NEW run \in ParentRun, Backed(run),
           mem' = [mem EXCEPT ![w] = [mem[w] EXCEPT !.pc = place, !.run = run]]
    PROVE  Worked(w)
  <1>. DEFINE m == [mem[w] EXCEPT !.pc = place, !.run = run]
  <1>1. /\ Onward /\ Child' = Child /\ ParentRun' = ParentRun
    BY Still DEF IInv
  <1>2. RowsOK'
    BY <1>1, ParentOnward DEF IInv, RowsOK, Onward
  <1>3. mem' = [u \in Worker |-> mem'[u]] /\ \A u \in Worker \ {w} : mem'[u] = mem[u]
    BY DEF IInv
  <1>4. mem'[w] = m
    BY DEF IInv
  <1>5. /\ m \in [pc : Places, run : ParentRun, id : {0} \cup Child, child : ChildRecord]
        /\ m.run = run /\ m.pc = place
    BY DEF IInv, WorkerOK
  <1>6. Backed(mem[w].run)'
    BY <1>4, <1>5 DEF Backed
  <1>. QED  BY <1>1, <1>2, <1>3, <1>4, <1>5, <1>6 DEF Worked, WorkerOK, Holding

LEMMA GotoStep ==
    ASSUME IInv, NEW w \in Worker, UNCHANGED <<parent, children>>,
           task' \in Task, cancelling' \in BOOLEAN,
           faults' \in 0 .. MaxFaults, requests' \in 0 .. MaxRequests,
           NEW place \in Places \ Holding, mem' = [mem EXCEPT ![w].pc = place]
    PROVE  Worked(w)
  <1>. DEFINE run == mem[w].run
  <1>1. WorkerOK(mem[w])
    BY DEF IInv
  <1>2. /\ [mem[w] EXCEPT !.pc = place, !.run = run] = [mem[w] EXCEPT !.pc = place]
        /\ run \in ParentRun /\ Backed(run)
    BY <1>1 DEF WorkerOK
  <1>3. mem' = [mem EXCEPT ![w] = [mem[w] EXCEPT !.pc = place, !.run = run]]
    BY <1>2
  <1>. HIDE DEF run
  <1>. QED  BY <1>2, <1>3, MoveStep

(* A worker that is done, or gone. *)
LEMMA IdleStep ==
    ASSUME ChildAssumption, IInv, NEW w \in Worker, UNCHANGED children,
           task' \in Task, cancelling' \in BOOLEAN,
           parent' \in ParentRun, Backed(parent'),
           faults' \in 0 .. MaxFaults, requests' \in 0 .. MaxRequests,
           mem' = [mem EXCEPT ![w] = Idle]
    PROVE  Worked(w)
  <1>1. Onward /\ Child' = Child /\ ParentRun' = ParentRun
    BY Still DEF IInv
  <1>2. RowsOK'
    BY <1>1 DEF RowsOK, Onward, Backed
  <1>3. mem' = [u \in Worker |-> mem'[u]] /\ \A u \in Worker \ {w} : mem'[u] = mem[u]
    BY DEF IInv
  <1>4. mem'[w] = Idle
    BY DEF IInv
  <1>5. WorkerOK(mem[w])'
    BY <1>1, <1>4, IdleOK DEF WorkerOK, Backed
  <1>. QED  BY <1>1, <1>2, <1>3, <1>5 DEF Worked

LEMMA SaveParentStep ==
    ASSUME ChildAssumption, IInv, NEW w \in Worker, NEW run \in ParentRun, Backed(run),
           NEW place \in Places \ Holding, SaveParent(w, run, place),
           UNCHANGED <<cancelling, children, faults, requests>>
    PROVE  Worked(w)
  <1>0. RowsOK /\ "failing" \in Places \ Holding
    BY DEF IInv, Places, Holding, Storing
  <1>1. CASE parent.version # run.version
    <2>1. UNCHANGED <<parent, children>> /\ task' \in Task
      BY <1>0, <1>1 DEF SaveParent, RowsOK
    <2>. QED  BY <1>0, <1>1, <2>1, GotoStep DEF SaveParent, RowsOK
  <1>2. CASE parent.version = run.version
    <2>. DEFINE link == IF run.link = 0 THEN parent.link ELSE run.link
                saved == [Merged(run, parent) EXCEPT !.link = link]
                m == IF place = "idle" THEN Idle
                     ELSE [mem[w] EXCEPT !.pc = place, !.run = saved]
    <2>1. parent' = saved /\ task' = Projected(run.status) /\ mem' = [mem EXCEPT ![w] = m]
      BY <1>2 DEF SaveParent
    <2>2. link \in {0} \cup Child
      BY <1>0 DEF RowsOK, ParentRun
    <2>3. saved \in ParentRun /\ saved.node = run.node /\ saved.absorbed = run.absorbed
      <3>. HIDE DEF link
      <3>. QED  BY <1>0, <2>2, MergedParent DEF ParentRun
    <2>. HIDE DEF saved
    <2>4. Backed(saved)
      BY <2>3 DEF Backed
    <2>5. task' \in Task
      BY <1>0, <2>1, TaskTyped DEF RowsOK, ParentRun
    <2>6. Onward /\ Child' = Child /\ ParentRun' = ParentRun
      BY <1>0, Still
    <2>7. RowsOK'
      BY <1>0, <2>1, <2>3, <2>4, <2>5, <2>6 DEF RowsOK, Onward, Backed
    <2>8. mem' = [u \in Worker |-> mem'[u]] /\ \A u \in Worker \ {w} : mem'[u] = mem[u]
      BY <2>1 DEF IInv
    <2>9. mem'[w] = m
      BY <2>1 DEF IInv
    <2>10. WorkerOK(m)
      <3>1. CASE place = "idle"
        BY <3>1, IdleOK
      <3>2. CASE place # "idle"
        <4>1. m \in [pc : Places, run : ParentRun, id : {0} \cup Child, child : ChildRecord]
              /\ m.run = saved /\ m.pc = place
          BY <2>3, <3>2 DEF IInv, WorkerOK
        <4>. QED  BY <2>4, <4>1 DEF WorkerOK, Holding
      <3>. QED  BY <3>1, <3>2
    <2>. HIDE DEF m
    <2>11. WorkerOK(mem[w])'
      BY <2>6, <2>9, <2>10 DEF WorkerOK, Backed
    <2>. QED  BY <2>6, <2>7, <2>8, <2>11 DEF Worked
  <1>. QED  BY <1>1, <1>2

LEMMA SaveChildStep ==
    ASSUME ChildAssumption, IInv, NEW w \in Worker, NEW run \in ChildRecord,
           run.version = mem[w].child.version, mem[w].pc \in Storing,
           NEW place \in Places, place \in Storing => run.status \notin Final,
           SaveChild(w, run, place), UNCHANGED <<cancelling, parent, faults, requests>>
    PROVE  Worked(w)
  <1>0. RowsOK /\ WorkerOK(mem[w]) /\ "erring" \in Places \ Holding
    BY DEF IInv, Places, Holding, Storing
  <1>. DEFINE c == mem[w].id
  <1>1. c \in Child /\ children[c] \in ChildRecord
    BY <1>0, SeqFacts DEF WorkerOK, Holding
  <1>2. CASE children[c].version # run.version
    <2>1. UNCHANGED <<parent, children>> /\ task' \in Task
      BY <1>0, <1>2 DEF SaveChild, RowsOK
    <2>. QED  BY <1>0, <1>2, <2>1, GotoStep DEF SaveChild, RowsOK
  <1>3. CASE children[c].version = run.version
    <2>. DEFINE saved == Merged(run, children[c])
    <2>1. /\ children' = [children EXCEPT ![c] = saved]
          /\ task' = Projected(run.status)
          /\ mem' = [mem EXCEPT ![w].pc = place, ![w].child = children'[c]]
      BY <1>3 DEF SaveChild
    <2>2. /\ saved \in ChildRecord /\ saved.version = children[c].version + 1
          /\ saved.status = run.status
      BY <1>1, MergedChild
    <2>. HIDE DEF saved
    <2>3. /\ children' \in Seq(ChildRecord) /\ Len(children') = Len(children)
          /\ children'[c] = saved
          /\ \A d \in Child \ {c} : children'[d] = children[d]
      BY <1>0, <1>1, <2>1, <2>2 DEF RowsOK, Child
    <2>4. children[c].status \notin Final
      BY <1>0, <1>3 DEF WorkerOK
    <2>5. Onward
      <3>1. ASSUME NEW d \in Child
            PROVE  /\ children[d].status \in Final => children'[d] = children[d]
                   /\ \/ children'[d].version > children[d].version
                      \/ /\ children'[d].version = children[d].version
                         /\ children'[d].status = children[d].status
        <4>1. CASE d = c
          <5>1. children[c].version \in Nat
            BY <1>1 DEF ChildRecord
          <5>2. children'[c].version > children[c].version
            BY <2>2, <2>3, <5>1
          <5>. QED  BY <2>4, <4>1, <5>2
        <4>2. CASE d # c
          BY <2>3, <4>2
        <4>. QED  BY <4>1, <4>2
      <3>. QED  BY <2>3, <3>1, <1>0, SeqFacts DEF Onward
    <2>6. Child' = Child /\ ParentRun' = ParentRun
      <3>1. Child' = Child
        BY <2>3 DEF Child
      <3>. QED  BY <3>1 DEF ParentRun
    <2>7. task' \in Task
      BY <1>0, <2>1, TaskTyped DEF RowsOK, ChildRecord
    <2>8. RowsOK'
      BY <1>0, <2>3, <2>5, <2>7, ParentOnward DEF RowsOK
    <2>9. /\ mem' = [u \in Worker |-> mem'[u]]
          /\ \A u \in Worker \ {w} : mem'[u] = mem[u]
          /\ mem'[w] = [mem[w] EXCEPT !.pc = place, !.child = saved]
      <3>. DEFINE m == [mem[w] EXCEPT !.pc = place, !.child = saved]
      <3>1. DOMAIN mem = Worker /\ mem = [u \in Worker |-> mem[u]]
        BY DEF IInv
      <3>2. mem' = [mem EXCEPT ![w] = m]
        BY <2>1, <2>3, <3>1
      <3>. HIDE DEF m
      <3>3. mem' = [u \in Worker |-> IF u = w THEN m ELSE mem[u]]
        BY <3>1, <3>2
      <3>4. mem' = [u \in Worker |-> mem'[u]] /\ \A u \in Worker \ {w} : mem'[u] = mem[u]
        BY <3>3
      <3>5. mem'[w] = m
        BY <3>3
      <3>. QED  BY <3>4, <3>5 DEF m
    <2>10. /\ mem'[w] \in [pc : Places, run : ParentRun, id : {0} \cup Child, child : ChildRecord]
           /\ mem'[w].run = mem[w].run /\ mem'[w].id = c
           /\ mem'[w].pc = place /\ mem'[w].child = saved
      BY <1>0, <2>2, <2>9 DEF WorkerOK
    <2>11. Backed(mem[w].run)'
      <3>1. mem[w].run \in ParentRun /\ Backed(mem[w].run)
        BY <1>0 DEF WorkerOK
      <3>. QED  BY <1>0, <2>5, <2>10, <3>1, BackedOnward DEF Backed
    <2>12. WorkerOK(mem[w])'
      <3>. DEFINE k == mem'[w]
      <3>0. saved.version \in Nat
        BY <2>2 DEF ChildRecord
      <3>1. /\ k.id \in Child' /\ children'[k.id] = saved /\ k.child = saved
            /\ saved.version <= saved.version
        <4>1. k.id = c /\ k.child = saved
          BY <2>10
        <4>. QED  BY <1>1, <2>3, <2>6, <3>0, <4>1
      <3>2. /\ k \in [pc : Places, run : ParentRun', id : {0} \cup Child', child : ChildRecord]
            /\ Backed(mem[w].run)'
        BY <2>6, <2>10, <2>11
      <3>3. k.pc \in Storing => saved.status \notin Final
        BY <2>2, <2>10
      <3>. QED  BY <3>1, <3>2, <3>3 DEF WorkerOK
    <2>. QED  BY <2>5, <2>8, <2>9, <2>12 DEF Worked
  <1>. QED  BY <1>2, <1>3

-----------------------------------------------------------------------------
(* The actions of a worker. *)

LEMMA ClaimStep ==
    ASSUME ChildAssumption, IInv, NEW w \in Worker, Claim(w)
    PROVE  Worked(w)
  <1>0. RowsOK /\ "deciding" \in Places \ Holding /\ {"cancelled", "running"} \subseteq Task
    BY DEF IInv, Places, Holding, Storing, Task, Over
  <1>1. CASE cancelling
    <2>1. /\ parent' = Finalized("cancelled") /\ task' \in Task
          /\ UNCHANGED <<mem, cancelling, children, faults, requests>>
      BY <1>0, <1>1 DEF Claim
    <2>2. Onward /\ Child' = Child /\ ParentRun' = ParentRun
      BY <1>0, <2>1, Still
    <2>3. RowsOK'
      BY <1>0, <2>1, <2>2, FinalizedTyped DEF RowsOK, Onward, Backed, Over
    <2>4. WorkerOK(mem[w])'
      BY <1>0, <2>1, <2>2, WorkerOnward DEF IInv
    <2>. QED  BY <2>1, <2>2, <2>3, <2>4 DEF Worked, IInv
  <1>2. CASE ~cancelling
    <2>1. /\ task' \in Task
          /\ mem' = [mem EXCEPT ![w] = [Idle EXCEPT !.pc = "deciding", !.run = parent]]
          /\ UNCHANGED <<parent, cancelling, children, faults, requests>>
      BY <1>0, <1>2 DEF Claim
    <2>2. Onward /\ Child' = Child /\ ParentRun' = ParentRun
      BY <1>0, <2>1, Still
    <2>3. RowsOK'
      BY <1>0, <2>1, <2>2, ParentOnward DEF RowsOK
    <2>4. /\ mem' = [u \in Worker |-> mem'[u]]
          /\ \A u \in Worker \ {w} : mem'[u] = mem[u]
          /\ mem'[w] = [Idle EXCEPT !.pc = "deciding", !.run = parent]
      BY <2>1 DEF IInv
    <2>5. /\ mem'[w] \in [pc : Places, run : ParentRun, id : {0} \cup Child, child : ChildRecord]
          /\ mem'[w].run = parent /\ mem'[w].pc = "deciding"
      <3>1. NewChild(0) \in ChildRecord /\ parent \in ParentRun
        BY <1>0, NewTyped DEF RowsOK, ChildAssumption
      <3>2. mem'[w] = [pc |-> "deciding", run |-> parent, id |-> 0, child |-> NewChild(0)]
        BY <2>4 DEF Idle
      <3>. QED  BY <1>0, <3>1, <3>2
    <2>6. Backed(mem[w].run)'
      BY <1>0, <2>1, <2>5 DEF RowsOK, Backed
    <2>7. WorkerOK(mem[w])'
      BY <1>0, <2>2, <2>5, <2>6 DEF WorkerOK, Holding
    <2>. QED  BY <2>2, <2>3, <2>4, <2>7 DEF Worked
  <1>. QED  BY <1>1, <1>2

LEMMA DecideStep ==
    ASSUME ChildAssumption, IInv, NEW w \in Worker, Decide(w)
    PROVE  Worked(w)
  <1>. DEFINE run == mem[w].run
  <1>0. /\ RowsOK /\ run \in ParentRun /\ Backed(run)
        /\ {"idle", "failing", "finished", "starting"} \subseteq Places \ Holding
        /\ UNCHANGED <<cancelling, children, faults, requests>>
    BY DEF IInv, WorkerOK, Places, Holding, Storing, Decide
  <1>1. ASSUME NEW status \in RunStatus
        PROVE  LET ended == [run EXCEPT !.status = status]
               IN ended \in ParentRun /\ Backed(ended)
    <2>1. LET ended == [run EXCEPT !.status = status]
          IN ended \in ParentRun /\ ended.node = run.node /\ ended.absorbed = run.absorbed
      BY <1>0 DEF ParentRun
    <2>. QED  BY <1>0, <2>1 DEF Backed
  <1>2. {"paused", "failed", "completed"} \subseteq RunStatus
    BY DEF RunStatus, Suspended, Over
  <1>3. CASE SaveParent(w, [run EXCEPT !.status = "paused"], "idle")
    BY <1>0, <1>1, <1>2, <1>3, SaveParentStep
  <1>4. CASE SaveParent(w, [run EXCEPT !.status = "failed"], "failing")
    BY <1>0, <1>1, <1>2, <1>4, SaveParentStep
  <1>5. CASE SaveParent(w, [run EXCEPT !.status = "completed"], "finished")
    BY <1>0, <1>1, <1>2, <1>5, SaveParentStep
  <1>6. CASE /\ mem' = [mem EXCEPT ![w].pc = "starting",
                        ![w].run = [run EXCEPT !.status = "running", !.node = "ready",
                                               !.paid = @ \/ run.node = "running"]]
             /\ UNCHANGED <<task, parent>>
    <2>. DEFINE next == [run EXCEPT !.status = "running", !.node = "ready",
                                    !.paid = @ \/ run.node = "running"]
    <2>1. PICK p \in BOOLEAN :
              next = [run EXCEPT !.status = "running", !.node = "ready", !.paid = p]
      OBVIOUS
    <2>2. next \in ParentRun /\ next.node = "ready"
      <3>. HIDE DEF next
      <3>. QED  BY <1>0, <2>1 DEF ParentRun, RunStatus, NodeStatus
    <2>3. Backed(next)
      BY <2>2 DEF Backed
    <2>4. mem' = [mem EXCEPT ![w] = [mem[w] EXCEPT !.pc = "starting", !.run = next]]
      BY <1>6
    <2>. HIDE DEF next
    <2>. QED  BY <1>0, <1>6, <2>2, <2>3, <2>4, MoveStep DEF RowsOK
  <1>. QED  BY <1>3, <1>4, <1>5, <1>6 DEF Decide

(* The parent's node as it is stored when an attempt starts. *)
Started(run) ==
    [Charged(run) EXCEPT !.status = "running", !.node = "running",
                         !.attempt = IF @ > MaxRetries THEN @ ELSE @ + 1]

LEMMA StartedTyped ==
    ASSUME ChildAssumption, NEW run \in ParentRun
    PROVE  /\ Started(run) \in ParentRun /\ Started(run).version = run.version
           /\ Started(run).node = "running" /\ Started(run).status = "running"
  <1>1. PICK s \in 0 .. MaxSubagents, a \in 0 .. MaxRetries + 1 :
            Started(run) = [run EXCEPT !.paid = FALSE, !.subagents = s, !.status = "running",
                                       !.node = "running", !.attempt = a]
    <2>. DEFINE s == IF run.paid THEN run.subagents
                     ELSE IF run.subagents < MaxSubagents THEN run.subagents + 1
                     ELSE run.subagents
                a == IF run.attempt > MaxRetries THEN run.attempt ELSE run.attempt + 1
    <2>1. s \in 0 .. MaxSubagents /\ a \in 0 .. MaxRetries + 1
      BY DEF ParentRun, ChildAssumption
    <2>2. Started(run) = [run EXCEPT !.paid = FALSE, !.subagents = s, !.status = "running",
                                     !.node = "running", !.attempt = a]
      BY DEF Started, Charged, ParentRun
    <2>. HIDE DEF s, a
    <2>. QED  BY <2>1, <2>2
  <1>. QED  BY <1>1 DEF ParentRun, RunStatus, NodeStatus

LEMMA StartStep ==
    ASSUME ChildAssumption, IInv, NEW w \in Worker, Start(w)
    PROVE  Worked(w)
  <1>. DEFINE run == mem[w].run
              place == IF Reserved(run) THEN "looking" ELSE "erring"
  <1>0. /\ run \in ParentRun /\ place \in Places \ Holding
        /\ SaveParent(w, Started(run), place)
        /\ UNCHANGED <<cancelling, children, faults, requests>>
    BY DEF IInv, WorkerOK, Places, Holding, Storing, Start, Started
  <1>1. Started(run) \in ParentRun /\ Backed(Started(run))
    BY <1>0, StartedTyped DEF Backed
  <1>. HIDE DEF place
  <1>. QED  BY <1>0, <1>1, SaveParentStep

LEMMA ErrStep ==
    ASSUME ChildAssumption, IInv, NEW w \in Worker, Err(w)
    PROVE  Worked(w)
  <1>. DEFINE run == mem[w].run
  <1>0. /\ RowsOK /\ run \in ParentRun
        /\ {"starting", "deciding"} \subseteq Places \ Holding
        /\ UNCHANGED <<cancelling, children, faults, requests>>
    BY DEF IInv, WorkerOK, Places, Holding, Storing, Err
  <1>1. ASSUME NEW node \in {"ready", "failed"}, NEW status \in {"running", "failed"},
               NEW place \in {"starting", "deciding"},
               SaveParent(w, [run EXCEPT !.node = node, !.status = status], place)
        PROVE  Worked(w)
    <2>. DEFINE next == [run EXCEPT !.node = node, !.status = status]
    <2>1. next \in ParentRun /\ next.node = node
      BY <1>0 DEF ParentRun, RunStatus, NodeStatus, Over
    <2>2. Backed(next)
      BY <2>1 DEF Backed
    <2>. HIDE DEF next
    <2>3. SaveParent(w, next, place)
      BY <1>1 DEF next
    <2>. QED  BY <1>0, <2>1, <2>2, <2>3, SaveParentStep
  <1>. QED  BY <1>1 DEF Err

LEMMA SuspendStep ==
    ASSUME ChildAssumption, IInv, NEW w \in Worker, Suspend(w)
    PROVE  Worked(w)
  <1>. DEFINE next == [mem[w].run EXCEPT !.node = "ready", !.link = mem[w].id,
                                         !.status = mem[w].child.status]
  <1>0. /\ RowsOK /\ mem[w].run \in ParentRun /\ mem[w].id \in {0} \cup Child
        /\ mem[w].child.status \in RunStatus /\ "starting" \in Places \ Holding
        /\ SaveParent(w, next, "starting")
        /\ UNCHANGED <<cancelling, children, faults, requests>>
    BY DEF IInv, WorkerOK, ChildRecord, Places, Holding, Storing, Suspend
  <1>1. next \in ParentRun /\ next.node = "ready"
    BY <1>0 DEF ParentRun, NodeStatus
  <1>2. Backed(next)
    BY <1>1 DEF Backed
  <1>. HIDE DEF next
  <1>. QED  BY <1>0, <1>1, <1>2, SaveParentStep

LEMMA LookStep ==
    ASSUME ChildAssumption, IInv, NEW w \in Worker, Look(w)
    PROVE  Worked(w)
  <1>0. /\ RowsOK /\ WorkerOK(mem[w])
        /\ "creating" \in Places \ Holding /\ {"returning", "nested"} \subseteq Places
        /\ UNCHANGED <<task, cancelling, parent, children, faults, requests>>
    BY DEF IInv, Places, Holding, Storing, Look, Goto
  <1>1. CASE mem' = [mem EXCEPT ![w].pc = "creating"]
    BY <1>0, <1>1, GotoStep DEF RowsOK
  <1>2. CASE ~(children = <<>> \/ children[Len(children)].status = "failed")
    <2>. DEFINE c == Len(children)
                child == children[c]
                place == IF child.status = "completed" THEN "returning" ELSE "nested"
    <2>1. mem' = [mem EXCEPT ![w].id = c, ![w].child = child, ![w].pc = place]
      BY <1>2 DEF Look
    <2>2. c \in Child /\ child \in ChildRecord /\ child.version \in Nat
      <3>1. Len(children) \in Nat /\ Len(children) # 0
        BY <1>0, <1>2 DEF RowsOK
      <3>2. c \in Child
        BY <3>1 DEF Child
      <3>. QED  BY <1>0, <3>2, SeqFacts DEF ChildRecord
    <2>3. Onward /\ Child' = Child /\ ParentRun' = ParentRun
      BY <1>0, Still
    <2>4. RowsOK'
      BY <1>0, <2>3, ParentOnward DEF RowsOK, Onward
    <2>5. /\ mem' = [u \in Worker |-> mem'[u]]
          /\ \A u \in Worker \ {w} : mem'[u] = mem[u]
          /\ mem'[w] = [mem[w] EXCEPT !.id = c, !.child = child, !.pc = place]
      BY <2>1 DEF IInv
    <2>6. /\ mem'[w] \in [pc : Places, run : ParentRun, id : {0} \cup Child, child : ChildRecord]
          /\ mem'[w].run = mem[w].run /\ mem'[w].id = c
          /\ mem'[w].pc = place /\ mem'[w].child = child
      <3>1. place \in Places
        BY <1>0
      <3>. HIDE DEF place, child, c
      <3>. QED  BY <1>0, <2>2, <2>5, <3>1 DEF WorkerOK
    <2>7. Backed(mem[w].run)'
      BY <1>0, <2>6 DEF WorkerOK, Backed
    <2>8. WorkerOK(mem[w])'
      <3>1. /\ child.status # "failed"
            /\ place \in {"returning", "nested"}
            /\ place = "returning" => child.status = "completed"
            /\ place = "nested" => child.status # "completed"
        BY <1>2
      <3>2. child.version <= child.version /\ children'[c] = child
        BY <1>0, <2>2
      <3>. HIDE DEF place, child, c
      <3>3. /\ place \in Storing => child.status \notin Final
            /\ place = "returning" /\ child.status = "completed" => children'[c].status = "completed"
        BY <3>1, <3>2 DEF Final, Storing
      <3>. QED  BY <2>2, <2>3, <2>6, <2>7, <3>2, <3>3 DEF WorkerOK
    <2>. QED  BY <2>3, <2>4, <2>5, <2>8 DEF Worked
  <1>. QED  BY <1>1, <1>2 DEF Look, Goto

LEMMA CreateStep ==
    ASSUME ChildAssumption, IInv, NEW w \in Worker, Create(w)
    PROVE  Worked(w)
  <1>. DEFINE child == NewChild(MaxCalls - mem[w].run.spent)
              c == Len(children) + 1
  <1>0. /\ RowsOK /\ WorkerOK(mem[w]) /\ "nested" \in Places
        /\ UNCHANGED <<task, cancelling, parent, faults, requests>>
        /\ children' = Append(children, child)
        /\ mem' = [mem EXCEPT ![w].pc = "nested", ![w].id = Len(children'),
                              ![w].child = children'[Len(children')]]
    BY DEF IInv, Places, Create
  <1>1. child \in ChildRecord /\ child.version = 1 /\ child.status = "running"
    <2>1. MaxCalls - mem[w].run.spent \in 0 .. MaxCalls
      BY <1>0 DEF WorkerOK, ParentRun, ChildAssumption
    <2>. QED  BY <2>1, NewTyped DEF NewChild
  <1>. HIDE DEF child
  <1>2. /\ children' \in Seq(ChildRecord) /\ Len(children') = c
        /\ children'[c] = child
        /\ \A d \in Child : children'[d] = children[d]
        /\ Len(children) \in Nat
    BY <1>0, <1>1 DEF RowsOK, Child
  <1>3. Onward
    BY <1>0, <1>2, SeqFacts DEF Onward
  <1>4. Child \subseteq Child' /\ ParentRun \subseteq ParentRun'
    BY <1>0, <1>3, Grows
  <1>5. RowsOK'
    BY <1>0, <1>2, <1>3, ParentOnward DEF RowsOK
  <1>6. /\ mem' = [u \in Worker |-> mem'[u]]
        /\ \A u \in Worker \ {w} : mem'[u] = mem[u]
        /\ mem'[w] = [mem[w] EXCEPT !.pc = "nested", !.id = c, !.child = child]
    BY <1>0, <1>2 DEF IInv
  <1>7. c \in Child'
    BY <1>2 DEF Child
  <1>8. /\ mem'[w] \in [pc : Places, run : ParentRun', id : {0} \cup Child', child : ChildRecord]
        /\ mem'[w].run = mem[w].run /\ mem'[w].id = c
        /\ mem'[w].pc = "nested" /\ mem'[w].child = child
    <2>. HIDE DEF c
    <2>. QED  BY <1>0, <1>1, <1>4, <1>6, <1>7 DEF WorkerOK
  <1>9. Backed(mem[w].run)'
    BY <1>0, <1>3, <1>8, BackedOnward DEF WorkerOK, Backed
  <1>10. WorkerOK(mem[w])'
    <2>. HIDE DEF c
    <2>. QED  BY <1>1, <1>2, <1>7, <1>8, <1>9 DEF WorkerOK, Final
  <1>. QED  BY <1>3, <1>5, <1>6, <1>10 DEF Worked

LEMMA NestStep ==
    ASSUME ChildAssumption, IInv, NEW w \in Worker, Nest(w)
    PROVE  Worked(w)
  <1>. DEFINE run == mem[w].child
              paid == run.paid \/ run.node = "running"
              found == [run EXCEPT !.node = "ready", !.paid = paid]
              started == [found EXCEPT !.status = "running", !.node = "running",
                                       !.paid = FALSE, !.approved = FALSE]
  <1>0. /\ RowsOK /\ run \in ChildRecord
        /\ mem[w].pc \in Storing /\ {"noting", "calling", "denied"} \subseteq Places
        /\ UNCHANGED <<cancelling, parent, faults, requests>>
    BY DEF IInv, WorkerOK, Places, Storing, Nest
  <1>1. CASE SaveChild(w, [run EXCEPT !.status = "paused"], "noting")
    <2>. DEFINE next == [run EXCEPT !.status = "paused"]
    <2>1. next \in ChildRecord /\ next.version = run.version /\ next.status = "paused"
      BY <1>0 DEF ChildRecord, RunStatus, Suspended
    <2>. HIDE DEF next
    <2>2. SaveChild(w, next, "noting")
      BY <1>1 DEF next
    <2>. QED  BY <1>0, <2>1, <2>2, SaveChildStep DEF Final
  <1>2. CASE SaveChild(w, [found EXCEPT !.status = "waiting"], "noting")
    <2>. DEFINE next == [found EXCEPT !.status = "waiting"]
    <2>1. PICK p \in BOOLEAN :
              next = [run EXCEPT !.node = "ready", !.paid = p, !.status = "waiting"]
      OBVIOUS
    <2>. HIDE DEF next
    <2>2. next \in ChildRecord /\ next.version = run.version /\ next.status = "waiting"
      BY <1>0, <2>1 DEF ChildRecord, RunStatus, Suspended, NodeStatus
    <2>3. SaveChild(w, next, "noting")
      BY <1>2 DEF next
    <2>. QED  BY <1>0, <2>2, <2>3, SaveChildStep DEF Final
  <1>3. ASSUME NEW place \in {"calling", "denied"}, SaveChild(w, started, place)
        PROVE  Worked(w)
    <2>1. started = [run EXCEPT !.node = "running", !.paid = FALSE, !.status = "running",
                                !.approved = FALSE]
      BY <1>0 DEF ChildRecord
    <2>. HIDE DEF started
    <2>2. /\ started \in ChildRecord /\ started.version = run.version
          /\ started.status = "running"
      BY <1>0, <2>1 DEF ChildRecord, RunStatus, NodeStatus
    <2>. QED  BY <1>0, <1>3, <2>2, SaveChildStep DEF Final
  <1>4. CASE /\ run.calls < run.allotted
             /\ SaveChild(w, [started EXCEPT !.calls = @ + 1], "calling")
    <2>. DEFINE next == [started EXCEPT !.calls = @ + 1]
    <2>1. run.calls + 1 \in 0 .. MaxCalls
      BY <1>0, <1>4 DEF ChildRecord, ChildAssumption
    <2>2. next = [run EXCEPT !.node = "running", !.paid = FALSE, !.status = "running",
                             !.approved = FALSE, !.calls = run.calls + 1]
      BY <1>0 DEF ChildRecord
    <2>. HIDE DEF next
    <2>3. next \in ChildRecord /\ next.version = run.version /\ next.status = "running"
      BY <1>0, <2>1, <2>2 DEF ChildRecord, RunStatus, NodeStatus
    <2>4. SaveChild(w, next, "calling")
      BY <1>4 DEF next
    <2>. QED  BY <1>0, <2>3, <2>4, SaveChildStep DEF Final
  <1>. QED  BY <1>1, <1>2, <1>3, <1>4, Zenon DEF Nest

LEMMA NoteStep ==
    ASSUME ChildAssumption, IInv, NEW w \in Worker, Note(w)
    PROVE  Worked(w)
  <1>1. /\ mem[w].child \in ChildRecord /\ mem[w].pc \in Storing
        /\ "suspending" \in Places \ Storing
    BY DEF IInv, WorkerOK, Note, Storing, Places
  <1>. QED  BY <1>1, SaveChildStep DEF Note

LEMMA CallStep ==
    ASSUME ChildAssumption, IInv, NEW w \in Worker, Call(w)
    PROVE  Worked(w)
  <1>. DEFINE run == mem[w].child
  <1>0. /\ run \in ChildRecord /\ mem[w].pc \in Storing
        /\ "returning" \in Places \ Storing
        /\ UNCHANGED <<cancelling, parent, faults, requests>>
    BY DEF IInv, WorkerOK, Call, Storing, Places
  <1>1. ASSUME NEW node \in {"succeeded", "failed"}, NEW status \in {"completed", "failed"},
               SaveChild(w, [run EXCEPT !.node = node, !.status = status], "returning")
        PROVE  Worked(w)
    <2>. DEFINE next == [run EXCEPT !.node = node, !.status = status]
    <2>1. next \in ChildRecord /\ next.version = run.version
      BY <1>0 DEF ChildRecord, RunStatus, Over, NodeStatus
    <2>. HIDE DEF next
    <2>2. SaveChild(w, next, "returning")
      BY <1>1 DEF next
    <2>. QED  BY <1>0, <2>1, <2>2, SaveChildStep
  <1>. QED  BY <1>1 DEF Call

(* What a worker's copy of the parent holds once the child's result is taken. *)
Returned(run, c, child) ==
    [Absorbed(run, c, child) EXCEPT !.link = IF @ = c THEN 0 ELSE @]

LEMMA ReturnedTyped ==
    ASSUME ChildAssumption, NEW run \in ParentRun, NEW c \in Child, NEW child \in ChildRecord,
           c \in run.absorbed \/ run.spent + child.calls <= MaxCalls
    PROVE  /\ Returned(run, c, child) \in ParentRun
           /\ Returned(run, c, child).node = run.node
           /\ Returned(run, c, child).version = run.version
           /\ Returned(run, c, child).absorbed = run.absorbed \cup {c}
  <1>1. PICK s \in 0 .. MaxCalls :
            Absorbed(run, c, child) =
                [run EXCEPT !.spent = s, !.absorbed = run.absorbed \cup {c}]
    <2>1. CASE c \in run.absorbed
      <3>1. run.absorbed \cup {c} = run.absorbed /\ run.spent \in 0 .. MaxCalls
        BY <2>1 DEF ParentRun
      <3>2. run = [run EXCEPT !.spent = run.spent, !.absorbed = run.absorbed \cup {c}]
        BY <3>1 DEF ParentRun
      <3>. QED  BY <2>1, <3>1, <3>2 DEF Absorbed
    <2>2. CASE c \notin run.absorbed
      <3>1. run.spent + child.calls \in 0 .. MaxCalls
        BY <2>2 DEF ParentRun, ChildRecord, ChildAssumption
      <3>. QED  BY <2>2, <3>1 DEF Absorbed
    <2>. QED  BY <2>1, <2>2
  <1>2. Absorbed(run, c, child) \in ParentRun
    <2>1. run.absorbed \cup {c} \in SUBSET Child
      BY DEF ParentRun
    <2>. DEFINE taken == run.absorbed \cup {c}
    <2>. HIDE DEF taken
    <2>2. Absorbed(run, c, child) = [run EXCEPT !.spent = s, !.absorbed = taken]
      BY <1>1 DEF taken
    <2>3. taken \in SUBSET Child
      BY <2>1 DEF taken
    <2>4. [run EXCEPT !.spent = s, !.absorbed = taken] \in ParentRun
      BY <2>3 DEF ParentRun
    <2>. QED  BY <2>2, <2>4
  <1>3. PICK l \in {0} \cup Child :
            Returned(run, c, child) = [Absorbed(run, c, child) EXCEPT !.link = l]
    BY <1>2 DEF ParentRun, Returned
  <1>. QED  BY <1>1, <1>2, <1>3 DEF ParentRun

LEMMA ReturnStep ==
    ASSUME ChildAssumption, IInv, NEW w \in Worker, Return(w)
    PROVE  Worked(w)
  <1>. DEFINE run == mem[w].run
              child == mem[w].child
              c == mem[w].id
              after == Returned(run, c, child)
              fits == c \in run.absorbed \/ run.spent + child.calls <= MaxCalls
  <1>0. /\ RowsOK /\ WorkerOK(mem[w]) /\ c \in Child
        /\ run \in ParentRun /\ Backed(run) /\ child \in ChildRecord
        /\ {"erring", "finished"} \subseteq Places \ Holding
        /\ UNCHANGED <<cancelling, children, faults, requests>>
    BY DEF IInv, WorkerOK, Places, Holding, Storing, Return, Goto
  <1>1. CASE Goto(w, "erring")
    BY <1>0, <1>1, GotoStep DEF RowsOK, Goto
  <1>2. ASSUME fits
        PROVE  /\ after \in ParentRun /\ after.node = run.node
               /\ after.absorbed = run.absorbed \cup {c}
    BY <1>0, <1>2, ReturnedTyped DEF Returned
  <1>. HIDE DEF after
  <1>3. CASE /\ fits
             /\ mem' = [mem EXCEPT ![w].pc = "erring", ![w].run = after]
             /\ UNCHANGED <<task, parent, children>>
    <2>1. Backed(after)
      BY <1>0, <1>2, <1>3 DEF Backed
    <2>2. mem' = [mem EXCEPT ![w] = [mem[w] EXCEPT !.pc = "erring", !.run = after]]
      BY <1>3
    <2>. QED  BY <1>0, <1>2, <1>3, <2>1, <2>2, MoveStep DEF RowsOK
  <1>4. CASE /\ fits /\ child.status = "completed"
             /\ SaveParent(w, [after EXCEPT !.node = "succeeded", !.status = "completed"],
                           "finished")
    <2>. DEFINE next == [after EXCEPT !.node = "succeeded", !.status = "completed"]
    <2>1. next \in ParentRun /\ c \in next.absorbed
      BY <1>2, <1>4 DEF ParentRun, NodeStatus, RunStatus, Over
    <2>2. children[c].status = "completed"
      BY <1>0, <1>4 DEF WorkerOK, Return
    <2>3. Backed(next)
      BY <2>1, <2>2 DEF Backed
    <2>. HIDE DEF next
    <2>4. SaveParent(w, next, "finished")
      BY <1>4 DEF next
    <2>. QED  BY <1>0, <2>1, <2>3, <2>4, SaveParentStep
  <1>. QED
    <2>. USE DEF after, Returned
    <2>. QED  BY <1>1, <1>3, <1>4, Zenon DEF Return

LEMMA CommitStep ==
    ASSUME ChildAssumption, IInv, NEW w \in Worker, Commit(w)
    PROVE  Worked(w)
  <1>0. /\ RowsOK /\ UNCHANGED <<cancelling, children, faults, requests>>
        /\ "failing" \in Places \ Holding /\ {"cancelled", "completed"} \subseteq Task \cap Over
    BY DEF IInv, Places, Holding, Storing, Task, Over, Commit
  <1>1. ASSUME NEW status \in Over, task' = status, parent' = Finalized(status),
               mem' = [mem EXCEPT ![w] = Idle]
        PROVE  Worked(w)
    <2>1. parent' \in ParentRun /\ Backed(parent') /\ task' \in Task
      BY <1>0, <1>1, FinalizedTyped DEF Task
    <2>. QED  BY <1>0, <1>1, <2>1, IdleStep DEF RowsOK
  <1>2. CASE mem' = [mem EXCEPT ![w].pc = "failing"] /\ UNCHANGED <<task, parent>>
    BY <1>0, <1>2, GotoStep DEF RowsOK
  <1>. QED  BY <1>0, <1>1, <1>2 DEF Commit

LEMMA FailStep ==
    ASSUME ChildAssumption, IInv, NEW w \in Worker, Fail(w)
    PROVE  Worked(w)
  <1>0. /\ RowsOK /\ UNCHANGED <<cancelling, children, faults, requests>>
        /\ mem' = [mem EXCEPT ![w] = Idle]
        /\ {"cancelled", "failed"} \subseteq Task \cap Over
    BY DEF IInv, Task, Over, Fail
  <1>1. CASE UNCHANGED <<task, parent>>
    BY <1>0, <1>1, IdleStep DEF RowsOK
  <1>2. ASSUME NEW status \in {"cancelled", "failed"}, task' = status,
               parent' = Finalized(status)
        PROVE  Worked(w)
    <2>1. parent' \in ParentRun /\ Backed(parent') /\ task' \in Task
      BY <1>0, <1>2, FinalizedTyped
    <2>. QED  BY <1>0, <2>1, IdleStep DEF RowsOK
  <1>. QED  BY <1>1, <1>2 DEF Fail

LEMMA TimeOutStep ==
    ASSUME ChildAssumption, IInv, NEW w \in Worker, TimeOut(w)
    PROVE  Worked(w)
  <1>1. /\ RowsOK /\ UNCHANGED <<task, cancelling, parent, children, requests>>
        /\ "erring" \in Places \ Holding
        /\ mem' = [mem EXCEPT ![w].pc = "erring"]
    BY DEF IInv, Places, Holding, Storing, TimeOut
  <1>2. faults' \in 0 .. MaxFaults
    BY <1>1 DEF RowsOK, TimeOut, ChildAssumption
  <1>. QED  BY <1>1, <1>2, GotoStep DEF RowsOK

LEMMA CrashStep ==
    ASSUME ChildAssumption, IInv, NEW w \in Worker, Crash(w)
    PROVE  Worked(w)
  <1>1. /\ RowsOK /\ UNCHANGED <<task, cancelling, parent, children, requests>>
        /\ mem' = [mem EXCEPT ![w] = Idle]
    BY DEF IInv, Crash
  <1>2. faults' \in 0 .. MaxFaults
    BY <1>1 DEF RowsOK, Crash, ChildAssumption
  <1>. QED  BY <1>1, <1>2, IdleStep DEF RowsOK

LEMMA WorkerStep ==
    ASSUME ChildAssumption, IInv, NEW w \in Worker, Work(w) \/ TimeOut(w) \/ Crash(w)
    PROVE  Worked(w)
  BY ClaimStep, DecideStep, StartStep, ErrStep, SuspendStep, LookStep, CreateStep,
     NestStep, NoteStep, CallStep, ReturnStep, CommitStep, FailStep, TimeOutStep,
     CrashStep DEF Work

-----------------------------------------------------------------------------
(* The steps of recovery and of the user leave the workers alone. *)

LEMMA RowStep ==
    ASSUME IInv, UNCHANGED mem, Onward, RowsOK'
    PROVE  IInv'
  BY WorkerOnward DEF IInv

LEMMA RequeueStep ==
    ASSUME ChildAssumption, IInv, Recover \/ LoseLease
    PROVE  IInv' /\ Onward
  <1>1. /\ RowsOK /\ UNCHANGED <<cancelling, parent, children, mem, requests>>
        /\ task' \in Task /\ faults' \in 0 .. MaxFaults
    BY DEF IInv, Recover, LoseLease, Requeue, RowsOK, Task, ChildAssumption
  <1>2. Onward
    BY <1>1, Still
  <1>3. RowsOK'
    BY <1>1, <1>2, ParentOnward DEF RowsOK, Onward
  <1>. QED  BY <1>1, <1>2, <1>3, RowStep

(* A control changes the control data of a run and no more. *)
LEMMA ParentControl ==
    ASSUME RowsOK, NEW p \in BOOLEAN, NEW l \in {0} \cup Child, NEW a \in BOOLEAN,
           NEW r, r = [parent EXCEPT !.pause = p, !.link = l, !.approved = a]
    PROVE  r \in ParentRun /\ Backed(r)
  <1>1. r \in ParentRun /\ r.node = parent.node /\ r.absorbed = parent.absorbed
    BY DEF RowsOK, ParentRun
  <1>. QED  BY <1>1 DEF RowsOK, Backed

LEMMA ChildControl ==
    ASSUME RowsOK, NEW c \in Child, NEW r \in ChildRecord,
           children' = [children EXCEPT ![c] = r], children[c].status \notin Final,
           \/ r.version = children[c].version /\ r.status = children[c].status
           \/ r.version = children[c].version + 1
    PROVE  Onward
  <1>0. /\ Len(children) \in Nat /\ \A d \in Child : children[d] \in ChildRecord
    BY SeqFacts
  <1>1. /\ children' \in Seq(ChildRecord) /\ Len(children') = Len(children)
        /\ children'[c] = r
        /\ \A d \in Child \ {c} : children'[d] = children[d]
    BY DEF RowsOK, Child
  <1>2. ASSUME NEW d \in Child
        PROVE  /\ children[d].status \in Final => children'[d] = children[d]
               /\ \/ children'[d].version > children[d].version
                  \/ /\ children'[d].version = children[d].version
                     /\ children'[d].status = children[d].status
    <2>1. CASE d = c
      <3>1. children[c].version \in Nat
        BY <1>0 DEF ChildRecord
      <3>. QED  BY <1>1, <2>1, <3>1
    <2>2. CASE d # c
      BY <1>1, <2>2
    <2>. QED  BY <2>1, <2>2
  <1>. QED  BY <1>0, <1>1, <1>2 DEF Onward

LEMMA ControlStep ==
    ASSUME IInv, UNCHANGED <<mem, faults>>, Onward, task' \in Task, cancelling' \in BOOLEAN,
           requests' \in 0 .. MaxRequests, parent' \in ParentRun, Backed(parent')
    PROVE  IInv'
  <1>1. RowsOK /\ ParentRun \subseteq ParentRun'
    BY Grows DEF IInv
  <1>2. Backed(parent)'
    BY <1>1, BackedOnward DEF Backed
  <1>3. RowsOK'
    BY <1>1, <1>2 DEF RowsOK, Onward
  <1>. QED  BY <1>3, RowStep

LEMMA RequestTyped ==
    ASSUME ChildAssumption, RowsOK, Request
    PROVE  requests' \in 0 .. MaxRequests /\ UNCHANGED <<mem, faults>>
  BY DEF ChildAssumption, RowsOK, Request

LEMMA PauseStep ==
    ASSUME ChildAssumption, IInv, Pause
    PROVE  IInv' /\ Onward
  <1>0. /\ RowsOK /\ UNCHANGED <<task, cancelling>> /\ Request
        /\ parent \in ParentRun /\ Backed(parent)
    BY DEF IInv, RowsOK, Pause
  <1>1. CASE /\ parent' = [parent EXCEPT !.pause = TRUE, !.link = 0, !.approved = FALSE]
             /\ UNCHANGED children
    BY <1>0, <1>1, ParentControl, Still, ControlStep, RequestTyped DEF RowsOK
  <1>2. ASSUME NEW c \in Child, children[c].status = "running", UNCHANGED parent,
               children' = [children EXCEPT ![c].pause = TRUE, ![c].approved = FALSE]
        PROVE  IInv' /\ Onward
    <2>. DEFINE r == [children[c] EXCEPT !.pause = TRUE, !.approved = FALSE]
    <2>1. /\ r \in ChildRecord /\ r.version = children[c].version
          /\ r.status = children[c].status
      BY <1>0, SeqFacts DEF ChildRecord
    <2>2. children' = [children EXCEPT ![c] = r]
      BY <1>2
    <2>. HIDE DEF r
    <2>3. Onward
      BY <1>0, <1>2, <2>1, <2>2, ChildControl DEF Final
    <2>. QED  BY <1>0, <1>2, <2>3, ControlStep, RequestTyped DEF RowsOK
  <1>. QED  BY <1>1, <1>2 DEF Pause

LEMMA ReachedTyped ==
    ASSUME RowsOK, NEW status
    PROVE  Reached(status) \subseteq {0} \cup Child
  BY DEF Reached

LEMMA AnswerTyped ==
    ASSUME RowsOK, NEW c \in {0} \cup Child, Answer(c)
    PROVE  /\ parent' \in ParentRun /\ Backed(parent')
           /\ task' \in Task /\ UNCHANGED cancelling
  <1>. DEFINE l == IF c = 0 THEN parent.link ELSE 0
  <1>1. l \in {0} \cup Child /\ parent.approved \in BOOLEAN
    BY DEF RowsOK, ParentRun
  <1>2. parent' = [parent EXCEPT !.pause = FALSE, !.link = l, !.approved = parent.approved]
    BY DEF Answer, RowsOK, ParentRun
  <1>. HIDE DEF l
  <1>. QED  BY <1>1, <1>2, ParentControl DEF Answer, Task

LEMMA ResumeStep ==
    ASSUME ChildAssumption, IInv, Resume
    PROVE  IInv' /\ Onward
  <1>1. PICK c \in {0} \cup Child :
            /\ Request /\ Stored(c).status = "paused" /\ Answer(c)
            /\ children' = IF c = 0 THEN children ELSE [children EXCEPT ![c].pause = FALSE]
    BY ReachedTyped DEF IInv, Resume
  <1>2. RowsOK
    BY DEF IInv
  <1>3. Onward
    <2>1. CASE c = 0
      BY <1>1, <1>2, <2>1, Still
    <2>2. CASE c # 0
      <3>. DEFINE r == [children[c] EXCEPT !.pause = FALSE]
      <3>1. /\ c \in Child /\ children[c].status = "paused"
            /\ children' = [children EXCEPT ![c] = r]
        BY <1>1, <2>2 DEF Stored
      <3>2. /\ r \in ChildRecord /\ r.version = children[c].version
            /\ r.status = children[c].status
        BY <1>2, <3>1, SeqFacts DEF ChildRecord
      <3>. HIDE DEF r
      <3>. QED  BY <1>2, <3>1, <3>2, ChildControl DEF Final
    <2>. QED  BY <2>1, <2>2
  <1>. QED  BY <1>1, <1>2, <1>3, AnswerTyped, ControlStep, RequestTyped DEF RowsOK

LEMMA ApproveStep ==
    ASSUME ChildAssumption, IInv, Approve
    PROVE  IInv' /\ Onward
  <1>0. RowsOK /\ parent.link \in {0} \cup Child /\ parent.approved \in BOOLEAN
    BY DEF IInv, RowsOK, ParentRun
  <1>1. PICK c \in {0} \cup Child :
            /\ Request /\ Stored(c).status = "waiting"
            /\ task' = "queued" /\ UNCHANGED cancelling
            /\ IF c = 0
               THEN /\ parent' = [parent EXCEPT !.pause = FALSE, !.approved = TRUE]
                    /\ UNCHANGED children
               ELSE /\ parent' = [parent EXCEPT !.pause = FALSE, !.link = 0]
                    /\ children' = [children EXCEPT ![c].pause = FALSE, ![c].approved = TRUE]
    BY <1>0, ReachedTyped DEF Approve
  <1>2. parent' \in ParentRun /\ Backed(parent')
    <2>1. PICK l \in {0} \cup Child, a \in BOOLEAN :
              parent' = [parent EXCEPT !.pause = FALSE, !.link = l, !.approved = a]
      <3>1. CASE c = 0
        <4>1. parent' = [parent EXCEPT !.pause = FALSE, !.link = parent.link, !.approved = TRUE]
          BY <1>0, <1>1, <3>1 DEF RowsOK, ParentRun
        <4>. QED  BY <1>0, <4>1
      <3>2. CASE c # 0
        <4>1. parent' = [parent EXCEPT !.pause = FALSE, !.link = 0, !.approved = parent.approved]
          BY <1>0, <1>1, <3>2 DEF RowsOK, ParentRun
        <4>. QED  BY <1>0, <4>1
      <3>. QED  BY <3>1, <3>2
    <2>. QED  BY <1>0, <2>1, ParentControl
  <1>3. Onward
    <2>1. CASE c = 0
      BY <1>0, <1>1, <2>1, Still
    <2>2. CASE c # 0
      <3>. DEFINE r == [children[c] EXCEPT !.pause = FALSE, !.approved = TRUE]
      <3>1. /\ c \in Child /\ children[c].status = "waiting"
            /\ children' = [children EXCEPT ![c] = r]
        BY <1>1, <2>2 DEF Stored
      <3>2. /\ r \in ChildRecord /\ r.version = children[c].version
            /\ r.status = children[c].status
        BY <1>0, <3>1, SeqFacts DEF ChildRecord
      <3>. HIDE DEF r
      <3>. QED  BY <1>0, <3>1, <3>2, ChildControl DEF Final
    <2>. QED  BY <2>1, <2>2
  <1>. QED  BY <1>0, <1>1, <1>2, <1>3, ControlStep, RequestTyped DEF RowsOK, Task

(* A refused run is paused under the next version. *)
LEMMA RefusedTyped ==
    /\ \A run \in ParentRun :
          LET refused == [run EXCEPT !.status = "paused", !.pause = FALSE, !.version = @ + 1]
          IN  /\ refused \in ParentRun
              /\ refused.node = run.node /\ refused.absorbed = run.absorbed
    /\ \A run \in ChildRecord :
          LET refused == [run EXCEPT !.status = "paused", !.pause = FALSE, !.version = @ + 1]
          IN  refused \in ChildRecord /\ refused.version = run.version + 1
  <1>0. "paused" \in RunStatus
    BY DEF RunStatus, Suspended
  <1>1. ASSUME NEW run \in ParentRun
        PROVE  LET refused == [run EXCEPT !.status = "paused", !.pause = FALSE, !.version = @ + 1]
               IN  /\ refused \in ParentRun
                   /\ refused.node = run.node /\ refused.absorbed = run.absorbed
    <2>1. run.version + 1 \in Nat
      BY DEF ParentRun
    <2>. QED  BY <1>0, <2>1 DEF ParentRun
  <1>2. ASSUME NEW run \in ChildRecord
        PROVE  LET refused == [run EXCEPT !.status = "paused", !.pause = FALSE, !.version = @ + 1]
               IN  refused \in ChildRecord /\ refused.version = run.version + 1
    <2>1. run.version + 1 \in Nat
      BY DEF ChildRecord
    <2>. QED  BY <1>0, <2>1 DEF ChildRecord
  <1>. QED  BY <1>1, <1>2

LEMMA RejectStep ==
    ASSUME ChildAssumption, IInv, Reject
    PROVE  IInv' /\ Onward
  <1>0. RowsOK
    BY DEF IInv
  <1>. DEFINE refused(run) == [run EXCEPT !.status = "paused", !.pause = FALSE,
                                          !.version = @ + 1]
  <1>1. PICK c \in {0} \cup Child :
            /\ Request /\ Stored(c).status = "waiting"
            /\ task' = "user" /\ UNCHANGED cancelling
            /\ IF c = 0 THEN parent' = refused(parent) /\ UNCHANGED children
               ELSE children' = [children EXCEPT ![c] = refused(children[c])] /\ UNCHANGED parent
    BY <1>0, ReachedTyped DEF Reject, Stored
  <1>2. CASE c = 0
    <2>1. parent' = refused(parent) /\ UNCHANGED children
      BY <1>1, <1>2
    <2>2. parent' \in ParentRun /\ parent'.node = parent.node /\ parent'.absorbed = parent.absorbed
      BY <1>0, <2>1, RefusedTyped DEF RowsOK
    <2>3. Backed(parent')
      BY <1>0, <2>2 DEF RowsOK, Backed
    <2>. QED  BY <1>0, <1>1, <2>1, <2>2, <2>3, Still, ControlStep, RequestTyped DEF RowsOK, Task
  <1>3. CASE c # 0
    <2>. DEFINE r == refused(children[c])
    <2>1. /\ c \in Child /\ children[c].status = "waiting" /\ UNCHANGED parent
          /\ children' = [children EXCEPT ![c] = r]
      BY <1>1, <1>3 DEF Stored
    <2>2. children[c] \in ChildRecord
      BY <1>0, <2>1, SeqFacts DEF RowsOK
    <2>3. r \in ChildRecord /\ r.version = children[c].version + 1
      BY <2>2, RefusedTyped
    <2>. HIDE DEF r
    <2>4. Onward
      BY <1>0, <2>1, <2>3, ChildControl DEF Final
    <2>. QED  BY <1>0, <1>1, <2>1, <2>4, ControlStep, RequestTyped DEF RowsOK, Task
  <1>. QED  BY <1>2, <1>3

LEMMA CancelStep ==
    ASSUME ChildAssumption, IInv, Cancel
    PROVE  IInv' /\ Onward
  <1>0. /\ RowsOK /\ Request /\ UNCHANGED children /\ cancelling' \in BOOLEAN
        /\ parent \in ParentRun /\ Backed(parent)
        /\ {"cancelled"} \subseteq Task \cap Over
    BY DEF IInv, RowsOK, Cancel, Task, Over
  <1>1. task' \in Task
    BY <1>0 DEF Cancel, RowsOK
  <1>2. parent' \in ParentRun /\ Backed(parent')
    <2>1. CASE UNCHANGED parent
      BY <1>0, <2>1
    <2>2. CASE parent' = [Finalized("cancelled") EXCEPT
                             !.pause = FALSE, !.approved = FALSE, !.link = 0]
      <3>. DEFINE ended == Finalized("cancelled")
      <3>1. ended \in ParentRun /\ Backed(ended)
        BY <1>0, FinalizedTyped
      <3>2. parent' = [ended EXCEPT !.pause = FALSE, !.approved = FALSE, !.link = 0]
        BY <2>2
      <3>. HIDE DEF ended
      <3>3. parent' \in ParentRun /\ parent'.node = ended.node /\ parent'.absorbed = ended.absorbed
        BY <3>1, <3>2 DEF ParentRun
      <3>. QED  BY <3>1, <3>3 DEF Backed
    <2>. QED  BY <2>1, <2>2 DEF Cancel
  <1>. QED  BY <1>0, <1>1, <1>2, Still, ControlStep, RequestTyped DEF RowsOK

-----------------------------------------------------------------------------
(* The invariant, and what follows from it. *)

LEMMA InitIInv ==
    ASSUME ChildAssumption, Init
    PROVE  IInv
  <1>1. RowsOK
    <2>1. task \in Task /\ cancelling \in BOOLEAN
      BY DEF Init, Task
    <2>2. children = <<>> /\ children \in Seq(ChildRecord)
      BY DEF Init
    <2>3. parent \in ParentRun
      BY NewTyped DEF Init
    <2>4. Backed(parent)
      BY DEF Init, Backed, NewParent
    <2>5. faults \in 0 .. MaxFaults /\ requests \in 0 .. MaxRequests
      BY DEF Init, ChildAssumption
    <2>. QED  BY <2>1, <2>2, <2>3, <2>4, <2>5 DEF RowsOK
  <1>2. mem = [w \in Worker |-> Idle]
    BY DEF Init
  <1>. QED  BY <1>1, <1>2, IdleOK DEF IInv

LEMMA NextIInv ==
    ASSUME ChildAssumption, IInv, [Next]_vars
    PROVE  IInv' /\ Onward
  <1>1. ASSUME NEW w \in Worker, Work(w) \/ TimeOut(w) \/ Crash(w)
        PROVE  IInv' /\ Onward
    BY <1>1, WorkerStep, Preserved
  <1>2. CASE UNCHANGED vars
    <2>1. UNCHANGED <<task, cancelling, parent, children, mem, faults, requests>>
      BY <1>2 DEF vars
    <2>2. RowsOK /\ Onward
      BY <2>1, Still DEF IInv
    <2>3. RowsOK'
      BY <2>1, <2>2, ParentOnward DEF RowsOK, Onward
    <2>. QED  BY <2>1, <2>2, <2>3, RowStep
  <1>. QED
    BY <1>1, <1>2, RequeueStep, PauseStep, ResumeStep, ApproveStep, RejectStep, CancelStep
    DEF Next, Rest

(* Every variable keeps its type: of the parent's budget and of a child's  *)
(* allotment no more is spent than there is (contracts.py 201-262).        *)
THEOREM TypeCorrect == ChildAssumption /\ Spec => []TypeOK
  <1>. SUFFICES ASSUME ChildAssumption
                PROVE  Spec => []TypeOK
    OBVIOUS
  <1>1. Init => IInv
    BY InitIInv
  <1>2. IInv /\ [Next]_vars => IInv'
    BY NextIInv
  <1>3. IInv => TypeOK
    <2>. SUFFICES ASSUME IInv
                  PROVE  TypeOK
      OBVIOUS
    <2>1. mem \in [Worker -> [pc : Places, run : ParentRun,
                              id : {0} \cup Child, child : ChildRecord]]
      BY DEF IInv, WorkerOK
    <2>. QED  BY <2>1 DEF IInv, RowsOK, TypeOK, Task
  <1>. QED  BY <1>1, <1>2, <1>3, PTL DEF Spec

(* A succeeded node of the parent rests on a completed child whose         *)
(* consumption the parent has absorbed, whoever ran the child              *)
(* (runtime_child_run.py 77-205, 331-343).                                 *)
THEOREM ResultsBacked == ChildAssumption /\ Spec => []ResultBacked
  <1>. SUFFICES ASSUME ChildAssumption
                PROVE  Spec => []ResultBacked
    OBVIOUS
  <1>1. Init => IInv
    BY InitIInv
  <1>2. IInv /\ [Next]_vars => IInv'
    BY NextIInv
  <1>3. IInv => ResultBacked
    BY DEF IInv, RowsOK, Backed, ResultBacked
  <1>. QED  BY <1>1, <1>2, <1>3, PTL DEF Spec

(* A child run that has completed or failed is never written again, by     *)
(* whichever worker, late checkpoint or control.                           *)
THEOREM ResultsFinal == ChildAssumption /\ Spec => DoneStaysDone
  <1>. SUFFICES ASSUME ChildAssumption
                PROVE  Spec => DoneStaysDone
    OBVIOUS
  <1>1. Init => IInv
    BY InitIInv
  <1>2. IInv /\ [Next]_vars => IInv'
    BY NextIInv
  <1>3. IInv /\ [Next]_vars =>
            [\A c \in Child : children[c].status \in {"completed", "failed"} =>
                children'[c] = children[c]]_vars
    BY NextIInv DEF Onward, Final
  <1>. QED  BY <1>1, <1>2, <1>3, PTL DEF Spec, DoneStaysDone

-----------------------------------------------------------------------------
(***************************************************************************)
(* What keeps a waiting task answerable.  A stored copy of a suspended     *)
(* child never leaves its status without the task leaving its own, and     *)
(* while the parent is all that is suspended no worker may store over it,  *)
(* except one that is about to start its node again (Away): which sets the *)
(* task running.                                                           *)
(***************************************************************************)
Asks == task \in {"review", "user"}

InHand(m) ==
    /\ m.pc # "idle" => m.run.version <= parent.version
    /\ m.pc \in Storing /\ m.child.version = children[m.id].version =>
          children[m.id].status = m.child.status
    /\ m.pc \in {"calling", "denied"} => m.child.status = "running"
    /\ m.pc \in {"noting", "suspending"} => m.child.status \in Suspended

Away(m) == m.pc \in {"idle", "starting", "failing"} \/ m.run.version < parent.version

ChildWaits == \E c \in Child : children[c].status \in Suspended
ParentWaits == parent.status \in Suspended /\ \A w \in Worker : Away(mem[w])
Waits == Asks => ChildWaits \/ ParentWaits

WInv == (\A w \in Worker : InHand(mem[w])) /\ Waits

(* What a step of the worker w has to do for the invariant. *)
Waited(w) == parent.version <= parent'.version /\ InHand(mem[w])' /\ Waits'

LEMMA RunningAsksNothing == Projected("running") \notin {"review", "user"}
  BY DEF Projected

LEMMA Versions ==
    ASSUME RowsOK, Onward
    PROVE  \A c \in Child : children[c].version \in Nat /\ children'[c].version \in Nat
  <1>1. \A c \in Child : children[c] \in ChildRecord
    BY SeqFacts
  <1>2. \A c \in Child : children'[c] \in ChildRecord
    BY SeqFacts DEF Onward, Child
  <1>. QED BY <1>1, <1>2 DEF ChildRecord

(* A worker that stands still keeps what it has in hand. *)
LEMMA InHandOnward ==
    ASSUME RowsOK, Onward, NEW w, WorkerOK(mem[w]), InHand(mem[w]), mem'[w] = mem[w],
           parent.version <= parent'.version, parent' \in ParentRun'
    PROVE  InHand(mem[w])'
  <1>. DEFINE m == mem[w]
  <1>1. m.run.version \in Nat /\ parent.version \in Nat /\ parent'.version \in Nat
    BY DEF RowsOK, WorkerOK, ParentRun
  <1>2. m.pc # "idle" => m.run.version <= parent'.version
    BY <1>1 DEF InHand
  <1>3. ASSUME m.pc \in Storing, m.child.version = children'[m.id].version
        PROVE  children'[m.id].status = m.child.status
    <2>1. m.id \in Child /\ m.child.version <= children[m.id].version
      BY <1>3 DEF WorkerOK, Holding
    <2>2. m.child.version \in Nat
      BY DEF WorkerOK, ChildRecord
    <2>3. /\ children[m.id].version \in Nat
          /\ \/ children'[m.id].version > children[m.id].version
             \/ /\ children'[m.id].version = children[m.id].version
                /\ children'[m.id].status = children[m.id].status
      BY <2>1, Versions DEF Onward
    <2>. QED BY <1>3, <2>1, <2>2, <2>3 DEF InHand
  <1>. QED BY <1>2, <1>3 DEF InHand

(* A worker that does nothing to what the task waits for. *)
LEMMA KeptBacked ==
    ASSUME Waits, NEW w \in Worker, UNCHANGED <<task, parent>>,
           ChildWaits => ChildWaits', \A u \in Worker \ {w} : mem'[u] = mem[u],
           Away(mem[w]) => Away(mem[w])'
    PROVE  Waits'
  <1>1. ASSUME ParentWaits PROVE ParentWaits'
    <2>1. \A u \in Worker \ {w} : Away(mem[u])'
      BY <1>1 DEF ParentWaits, Away
    <2>. QED BY <1>1, <2>1 DEF ParentWaits
  <1>. QED BY <1>1 DEF Waits, Asks

LEMMA StillWaits ==
    ASSUME UNCHANGED children
    PROVE  ChildWaits => ChildWaits'
  BY DEF ChildWaits, Child

(* Every other worker's copy of the parent is stale after a checkpoint.    *)
LEMMA OthersAway ==
    ASSUME IInv, WInv, NEW w, \A u \in Worker \ {w} : mem'[u] = mem[u],
           parent'.version = parent.version + 1
    PROVE  \A u \in Worker \ {w} : Away(mem[u])'
  <1>. SUFFICES ASSUME NEW u \in Worker \ {w} PROVE Away(mem[u])'
    OBVIOUS
  <1>1. mem[u].run.version \in Nat /\ parent.version \in Nat
    BY DEF IInv, RowsOK, WorkerOK, ParentRun
  <1>2. mem[u].pc # "idle" => mem[u].run.version <= parent.version
    BY DEF WInv, InHand
  <1>. QED BY <1>1, <1>2 DEF Away

LEMMA SaveParentWaits ==
    ASSUME ChildAssumption, IInv, WInv, NEW w \in Worker, NEW run \in ParentRun,
           run.version = mem[w].run.version, mem[w].pc # "idle",
           NEW place \in Places \ Holding, SaveParent(w, run, place), UNCHANGED children,
           run.status \in Suspended => place \in {"idle", "starting"},
           run.status \notin Suspended \cup {"running"} => mem[w].pc \notin {"starting", "failing"}
    PROVE  Waited(w)
  <1>0. /\ RowsOK /\ parent.version \in Nat /\ run.version \in Nat /\ InHand(mem[w]) /\ Waits
        /\ DOMAIN mem = Worker
    BY DEF IInv, RowsOK, ParentRun, WInv
  <1>1. CASE parent.version # run.version
    <2>1. UNCHANGED <<task, parent>> /\ mem' = [mem EXCEPT ![w].pc = "failing"]
      BY <1>1 DEF SaveParent
    <2>2. mem'[w].pc = "failing" /\ \A u \in Worker \ {w} : mem'[u] = mem[u]
      BY <2>1, <1>0 DEF IInv, WorkerOK
    <2>3. mem'[w].run = mem[w].run
      BY <2>1, <1>0 DEF IInv, WorkerOK
    <2>4. InHand(mem[w])'
      BY <1>0, <2>1, <2>2, <2>3 DEF InHand, Storing
    <2>5. Waits'
      BY <1>0, <2>1, <2>2, KeptBacked, StillWaits DEF Away
    <2>. QED BY <1>0, <2>1, <2>4, <2>5 DEF Waited
  <1>2. CASE parent.version = run.version
    <2>. DEFINE link == IF run.link = 0 THEN parent.link ELSE run.link
                saved == [Merged(run, parent) EXCEPT !.link = link]
                m == IF place = "idle" THEN Idle
                     ELSE [mem[w] EXCEPT !.pc = place, !.run = saved]
    <2>1. parent' = saved /\ task' = Projected(run.status) /\ mem' = [mem EXCEPT ![w] = m]
      BY <1>2 DEF SaveParent
    <2>2. saved.version = parent.version + 1 /\ saved.status = run.status
      <3>1. PICK p \in BOOLEAN, a \in BOOLEAN :
                Merged(run, parent) = [run EXCEPT !.version = parent.version + 1,
                                                  !.pause = p, !.approved = a]
        BY MergedControls
      <3>. HIDE DEF link
      <3>. QED BY <3>1 DEF ParentRun
    <2>. HIDE DEF saved
    <2>3. /\ \A u \in Worker \ {w} : mem'[u] = mem[u]
          /\ mem'[w] = m
      BY <1>0, <2>1
    <2>4. /\ place = "idle" => mem'[w].pc = "idle"
          /\ place # "idle" => mem'[w].pc = place /\ mem'[w].run = saved
      BY <2>3 DEF Idle, IInv, WorkerOK
    <2>. HIDE DEF m
    <2>5. InHand(mem[w])'
      <3>1. mem'[w].pc \notin Holding
        BY <2>4 DEF Holding, Storing
      <3>2. mem'[w].pc # "idle" => mem'[w].run.version <= parent'.version
        BY <1>0, <2>1, <2>2, <2>4
      <3>. QED BY <3>1, <3>2 DEF InHand, Holding, Storing
    <2>6. CASE run.status = "running"
      <3>1. task' = Projected("running")
        BY <2>1, <2>6
      <3>. QED BY <1>0, <2>1, <2>2, <2>5, <3>1, RunningAsksNothing DEF Waited, Waits, Asks
    <2>7. CASE run.status \in Suspended
      <3>1. parent'.status \in Suspended
        BY <2>1, <2>2, <2>7
      <3>2. Away(mem[w])'
        BY <2>4, <2>7 DEF Away
      <3>3. \A u \in Worker \ {w} : Away(mem[u])'
        BY <2>1, <2>2, <2>3, OthersAway
      <3>. QED BY <1>0, <2>1, <2>2, <2>5, <3>1, <3>2, <3>3 DEF Waited, Waits, ParentWaits
    <2>8. CASE run.status \notin Suspended \cup {"running"}
      <3>1. ~Away(mem[w])
        BY <1>0, <1>2, <2>8 DEF Away
      <3>2. Asks => ChildWaits
        BY <1>0, <3>1 DEF Waits, ParentWaits
      <3>3. task' = task
        BY <2>1, <2>8 DEF Projected, Suspended
      <3>. QED BY <3>2, <3>3, StillWaits, <1>0, <2>1, <2>2, <2>5 DEF Waited, Waits, Asks
    <2>9. Waits'
      BY <2>6, <2>7, <2>8 DEF Waited
    <2>. QED BY <1>0, <2>1, <2>2, <2>5, <2>9 DEF Waited
  <1>. QED BY <1>1, <1>2

LEMMA SaveChildWaits ==
    ASSUME ChildAssumption, IInv, WInv, NEW w \in Worker, NEW run \in ChildRecord,
           run.version = mem[w].child.version, mem[w].pc \in Storing,
           NEW place \in Places \ {"idle", "nested"},
           SaveChild(w, run, place), UNCHANGED parent,
           place \in {"calling", "denied"} => run.status = "running",
           place \in {"noting", "suspending"} => run.status \in Suspended,
           run.status \notin Suspended \cup {"running"} => mem[w].child.status = "running"
    PROVE  Waited(w)
  <1>. DEFINE c == mem[w].id
  <1>0. /\ RowsOK /\ WorkerOK(mem[w]) /\ parent.version \in Nat
        /\ InHand(mem[w]) /\ Waits /\ DOMAIN mem = Worker
    BY DEF IInv, RowsOK, ParentRun, WInv
  <1>1. /\ c \in Child /\ children[c] \in ChildRecord /\ mem[w].pc # "idle"
        /\ mem[w].pc \notin {"idle", "starting", "failing"}
    BY <1>0, SeqFacts DEF WorkerOK, Holding, Storing
  <1>2. CASE children[c].version # run.version
    <2>1. UNCHANGED <<task, children>> /\ mem' = [mem EXCEPT ![w].pc = "erring"]
      BY <1>2 DEF SaveChild
    <2>2. /\ mem'[w].pc = "erring" /\ mem'[w].run = mem[w].run
          /\ \A u \in Worker \ {w} : mem'[u] = mem[u]
      BY <2>1, <1>0 DEF WorkerOK
    <2>3. InHand(mem[w])'
      BY <1>0, <1>1, <2>2 DEF InHand, Storing
    <2>4. Away(mem[w]) => Away(mem[w])'
      BY <1>1, <2>2 DEF Away
    <2>. QED BY <1>0, <2>1, <2>2, <2>3, <2>4, KeptBacked, StillWaits DEF Waited
  <1>3. CASE children[c].version = run.version
    <2>. DEFINE saved == Merged(run, children[c])
    <2>1. /\ children' = [children EXCEPT ![c] = saved]
          /\ task' = Projected(run.status)
          /\ mem' = [mem EXCEPT ![w].pc = place, ![w].child = children'[c]]
      BY <1>3 DEF SaveChild
    <2>2. saved \in ChildRecord /\ saved.status = run.status
      BY <1>1, MergedChild
    <2>. HIDE DEF saved
    <2>3. /\ children'[c] = saved /\ Child' = Child
          /\ \A d \in Child \ {c} : children'[d] = children[d]
      BY <1>0, <1>1, <2>1, <2>2 DEF RowsOK, Child
    <2>4. /\ \A u \in Worker \ {w} : mem'[u] = mem[u]
          /\ mem'[w] = [mem[w] EXCEPT !.pc = place, !.child = saved]
      <3>. DEFINE m == [mem[w] EXCEPT !.pc = place, !.child = saved]
      <3>1. DOMAIN mem = Worker /\ mem = [u \in Worker |-> mem[u]]
        BY DEF IInv
      <3>2. mem' = [mem EXCEPT ![w] = m]
        BY <2>1, <2>3, <3>1
      <3>. HIDE DEF m
      <3>3. mem'[w] = m /\ \A u \in Worker \ {w} : mem'[u] = mem[u]
        BY <3>1, <3>2
      <3>. QED BY <3>3 DEF m
    <2>5. /\ mem'[w].pc = place /\ mem'[w].run = mem[w].run
          /\ mem'[w].id = c /\ mem'[w].child = saved
      BY <1>0, <2>3, <2>4 DEF WorkerOK
    <2>6. InHand(mem[w])'
      BY <1>0, <1>1, <2>2, <2>3, <2>5 DEF InHand
    <2>7. CASE run.status = "running"
      <3>1. task' = Projected("running")
        BY <2>1, <2>7
      <3>. QED BY <1>0, <2>6, <3>1, RunningAsksNothing DEF Waited, Waits, Asks
    <2>8. CASE run.status \in Suspended
      <3>1. ChildWaits'
        BY <1>1, <2>2, <2>3, <2>8 DEF ChildWaits
      <3>. QED BY <1>0, <2>6, <3>1 DEF Waited, Waits
    <2>9. CASE run.status \notin Suspended \cup {"running"}
      <3>1. task' = task
        BY <2>1, <2>9 DEF Projected, Suspended
      <3>2. children[c].status = "running"
        BY <1>0, <1>3, <2>9 DEF InHand
      <3>3. ChildWaits => ChildWaits'
        BY <2>3, <3>2 DEF ChildWaits, Suspended
      <3>4. Away(mem[w]) => Away(mem[w])'
        BY <1>1, <2>5 DEF Away
      <3>. QED BY <1>0, <2>4, <2>6, <3>1, <3>3, <3>4, KeptBacked DEF Waited
    <2>. QED BY <2>7, <2>8, <2>9
  <1>. QED BY <1>2, <1>3

(* A worker that moves with the rows left alone. *)
LEMMA MoveWaits ==
    ASSUME IInv, WInv, NEW w \in Worker, UNCHANGED <<task, parent, children>>,
           \A u \in Worker \ {w} : mem'[u] = mem[u],
           mem'[w].pc = "idle" \/ mem'[w].run.version = mem[w].run.version,
           mem[w].pc # "idle",
           mem'[w].pc \notin Storing \cup {"suspending"},
           Away(mem[w]) => Away(mem[w])'
    PROVE  Waited(w)
  <1>1. parent.version \in Nat /\ InHand(mem[w]) /\ Waits
    BY DEF IInv, RowsOK, ParentRun, WInv
  <1>2. InHand(mem[w])'
    BY <1>1 DEF InHand, Storing
  <1>. QED BY <1>1, <1>2, KeptBacked, StillWaits DEF Waited

(* A task that asks for nothing, or is over. *)
LEMMA AskingNothing ==
    ASSUME task' \notin {"review", "user"}
    PROVE  Waits'
  BY DEF Waits, Asks

LEMMA FinalizedVersion ==
    ASSUME RowsOK, NEW status
    PROVE  Finalized(status).version = parent.version + 1
  BY DEF RowsOK, Finalized, ParentRun

LEMMA DecideWaits ==
    ASSUME ChildAssumption, IInv, WInv, NEW w \in Worker, Decide(w)
    PROVE  Waited(w)
  <1>. DEFINE run == mem[w].run
  <1>0. /\ run \in ParentRun /\ mem[w].pc = "deciding" /\ UNCHANGED children
        /\ {"idle", "failing", "finished", "starting"} \subseteq Places \ Holding
        /\ DOMAIN mem = Worker /\ WorkerOK(mem[w])
    BY DEF IInv, WorkerOK, Places, Holding, Storing, Decide
  <1>1. ASSUME NEW status \in RunStatus
        PROVE  LET ended == [run EXCEPT !.status = status]
               IN ended \in ParentRun /\ ended.version = run.version /\ ended.status = status
    BY <1>0 DEF ParentRun
  <1>2. {"paused", "failed", "completed"} \subseteq RunStatus
    BY DEF RunStatus, Suspended, Over
  <1>3. CASE SaveParent(w, [run EXCEPT !.status = "paused"], "idle")
    BY <1>0, <1>1, <1>2, <1>3, SaveParentWaits
  <1>4. CASE SaveParent(w, [run EXCEPT !.status = "failed"], "failing")
    BY <1>0, <1>1, <1>2, <1>4, SaveParentWaits DEF Suspended
  <1>5. CASE SaveParent(w, [run EXCEPT !.status = "completed"], "finished")
    BY <1>0, <1>1, <1>2, <1>5, SaveParentWaits DEF Suspended
  <1>6. CASE /\ mem' = [mem EXCEPT ![w].pc = "starting",
                        ![w].run = [run EXCEPT !.status = "running", !.node = "ready",
                                               !.paid = @ \/ run.node = "running"]]
             /\ UNCHANGED <<task, parent>>
    <2>. DEFINE next == [run EXCEPT !.status = "running", !.node = "ready",
                                    !.paid = @ \/ run.node = "running"]
    <2>1. next.version = run.version
      BY <1>0 DEF ParentRun
    <2>2. mem' = [mem EXCEPT ![w] = [mem[w] EXCEPT !.pc = "starting", !.run = next]]
      BY <1>6
    <2>. HIDE DEF next
    <2>3. /\ \A u \in Worker \ {w} : mem'[u] = mem[u]
          /\ mem'[w].pc = "starting" /\ mem'[w].run = next
      BY <1>0, <2>2 DEF WorkerOK
    <2>. QED BY <1>0, <1>6, <2>1, <2>3, MoveWaits DEF Away, Storing
  <1>. QED  BY <1>3, <1>4, <1>5, <1>6 DEF Decide

LEMMA StartWaits ==
    ASSUME ChildAssumption, IInv, WInv, NEW w \in Worker, Start(w)
    PROVE  Waited(w)
  <1>. DEFINE run == mem[w].run
              place == IF Reserved(run) THEN "looking" ELSE "erring"
  <1>0. /\ run \in ParentRun /\ place \in Places \ Holding /\ mem[w].pc = "starting"
        /\ SaveParent(w, Started(run), place) /\ UNCHANGED children
    BY DEF IInv, WorkerOK, Places, Holding, Storing, Start, Started
  <1>. HIDE DEF place
  <1>. QED  BY <1>0, StartedTyped, SaveParentWaits DEF Suspended

LEMMA ErrWaits ==
    ASSUME ChildAssumption, IInv, WInv, NEW w \in Worker, Err(w)
    PROVE  Waited(w)
  <1>. DEFINE run == mem[w].run
  <1>0. /\ run \in ParentRun /\ mem[w].pc = "erring" /\ UNCHANGED children
        /\ {"starting", "deciding"} \subseteq Places \ Holding
    BY DEF IInv, WorkerOK, Places, Holding, Storing, Err
  <1>1. ASSUME NEW node \in {"ready", "failed"}, NEW status \in {"running", "failed"},
               NEW place \in {"starting", "deciding"},
               SaveParent(w, [run EXCEPT !.node = node, !.status = status], place)
        PROVE  Waited(w)
    <2>. DEFINE next == [run EXCEPT !.node = node, !.status = status]
    <2>1. next \in ParentRun /\ next.version = run.version /\ next.status = status
      BY <1>0 DEF ParentRun, RunStatus, NodeStatus, Over
    <2>. HIDE DEF next
    <2>2. SaveParent(w, next, place)
      BY <1>1 DEF next
    <2>. QED  BY <1>0, <2>1, <2>2, SaveParentWaits DEF Suspended
  <1>. QED  BY <1>1 DEF Err

LEMMA SuspendWaits ==
    ASSUME ChildAssumption, IInv, WInv, NEW w \in Worker, Suspend(w)
    PROVE  Waited(w)
  <1>. DEFINE next == [mem[w].run EXCEPT !.node = "ready", !.link = mem[w].id,
                                         !.status = mem[w].child.status]
  <1>0. /\ mem[w].run \in ParentRun /\ mem[w].id \in {0} \cup Child
        /\ mem[w].child.status \in Suspended /\ "starting" \in Places \ Holding
        /\ mem[w].pc = "suspending" /\ SaveParent(w, next, "starting") /\ UNCHANGED children
    BY DEF IInv, WorkerOK, WInv, InHand, Places, Holding, Storing, Suspend
  <1>1. /\ next \in ParentRun /\ next.version = mem[w].run.version
        /\ next.status = mem[w].child.status
    BY <1>0 DEF ParentRun, NodeStatus, RunStatus
  <1>. HIDE DEF next
  <1>. QED  BY <1>0, <1>1, SaveParentWaits

LEMMA LookWaits ==
    ASSUME ChildAssumption, IInv, WInv, NEW w \in Worker, Look(w)
    PROVE  Waited(w)
  <1>0. /\ UNCHANGED <<task, parent, children>> /\ mem[w].pc = "looking"
        /\ DOMAIN mem = Worker /\ WorkerOK(mem[w]) /\ InHand(mem[w]) /\ Waits
        /\ parent.version \in Nat
    BY DEF IInv, WInv, RowsOK, ParentRun, Look, Goto
  <1>1. CASE mem' = [mem EXCEPT ![w].pc = "creating"]
    <2>1. /\ \A u \in Worker \ {w} : mem'[u] = mem[u]
          /\ mem'[w].pc = "creating" /\ mem'[w].run = mem[w].run
      BY <1>0, <1>1 DEF WorkerOK
    <2>. QED BY <1>0, <2>1, MoveWaits DEF Away, Storing
  <1>2. CASE ~(children = <<>> \/ children[Len(children)].status = "failed")
    <2>. DEFINE c == Len(children)
                child == children[c]
                place == IF child.status = "completed" THEN "returning" ELSE "nested"
    <2>1. mem' = [mem EXCEPT ![w].id = c, ![w].child = child, ![w].pc = place]
      BY <1>2 DEF Look
    <2>2. place \in {"returning", "nested"}
      OBVIOUS
    <2>. HIDE DEF child, place
    <2>3. /\ \A u \in Worker \ {w} : mem'[u] = mem[u]
          /\ mem'[w].pc = place /\ mem'[w].run = mem[w].run
          /\ mem'[w].id = c /\ mem'[w].child = child
      BY <1>0, <2>1 DEF IInv, WorkerOK
    <2>4. InHand(mem[w])'
      BY <1>0, <2>2, <2>3 DEF InHand, child
    <2>5. Away(mem[w]) => Away(mem[w])'
      BY <1>0, <2>2, <2>3 DEF Away
    <2>. QED BY <1>0, <2>3, <2>4, <2>5, KeptBacked, StillWaits DEF Waited
  <1>. QED  BY <1>1, <1>2 DEF Look, Goto

LEMMA CreateWaits ==
    ASSUME ChildAssumption, IInv, WInv, NEW w \in Worker, Create(w)
    PROVE  Waited(w)
  <1>. DEFINE child == NewChild(MaxCalls - mem[w].run.spent)
              c == Len(children) + 1
  <1>0. /\ UNCHANGED <<task, parent>> /\ mem[w].pc = "creating"
        /\ DOMAIN mem = Worker /\ WorkerOK(mem[w]) /\ InHand(mem[w]) /\ Waits
        /\ parent.version \in Nat /\ RowsOK
        /\ children' = Append(children, child)
        /\ mem' = [mem EXCEPT ![w].pc = "nested", ![w].id = Len(children'),
                              ![w].child = children'[Len(children')]]
    BY DEF IInv, WInv, RowsOK, ParentRun, Create
  <1>. HIDE DEF child
  <1>1. /\ Len(children') = c /\ children'[c] = child
        /\ \A d \in Child : d \in Child' /\ children'[d] = children[d]
    <2>1. children \in Seq(ChildRecord)
      BY <1>0 DEF RowsOK
    <2>. QED BY <1>0, <2>1 DEF Child
  <1>2. /\ \A u \in Worker \ {w} : mem'[u] = mem[u]
        /\ mem'[w] = [mem[w] EXCEPT !.pc = "nested", !.id = c, !.child = child]
    BY <1>0, <1>1 DEF IInv
  <1>. HIDE DEF c
  <1>3. /\ mem'[w].pc = "nested" /\ mem'[w].run = mem[w].run
        /\ mem'[w].id = c /\ mem'[w].child = child
    BY <1>0, <1>2 DEF WorkerOK
  <1>4. InHand(mem[w])'
    BY <1>0, <1>1, <1>3 DEF InHand
  <1>5. Away(mem[w]) => Away(mem[w])'
    BY <1>0, <1>3 DEF Away
  <1>6. ChildWaits => ChildWaits'
    BY <1>1 DEF ChildWaits
  <1>. QED BY <1>0, <1>2, <1>4, <1>5, <1>6, KeptBacked DEF Waited

LEMMA NestWaits ==
    ASSUME ChildAssumption, IInv, WInv, NEW w \in Worker, Nest(w)
    PROVE  Waited(w)
  <1>. DEFINE run == mem[w].child
              paid == run.paid \/ run.node = "running"
              found == [run EXCEPT !.node = "ready", !.paid = paid]
              started == [found EXCEPT !.status = "running", !.node = "running",
                                       !.paid = FALSE, !.approved = FALSE]
  <1>0. /\ run \in ChildRecord /\ mem[w].pc \in Storing /\ UNCHANGED parent
        /\ {"noting", "calling", "denied"} \subseteq Places \ {"idle", "nested"}
    BY DEF IInv, WorkerOK, Places, Storing, Nest
  <1>1. CASE SaveChild(w, [run EXCEPT !.status = "paused"], "noting")
    <2>. DEFINE next == [run EXCEPT !.status = "paused"]
    <2>1. next \in ChildRecord /\ next.version = run.version /\ next.status = "paused"
      BY <1>0 DEF ChildRecord, RunStatus, Suspended
    <2>. HIDE DEF next
    <2>2. SaveChild(w, next, "noting")
      BY <1>1 DEF next
    <2>. QED  BY <1>0, <2>1, <2>2, SaveChildWaits DEF Suspended
  <1>2. CASE SaveChild(w, [found EXCEPT !.status = "waiting"], "noting")
    <2>. DEFINE next == [found EXCEPT !.status = "waiting"]
    <2>1. PICK p \in BOOLEAN :
              next = [run EXCEPT !.node = "ready", !.paid = p, !.status = "waiting"]
      OBVIOUS
    <2>. HIDE DEF next
    <2>2. next \in ChildRecord /\ next.version = run.version /\ next.status = "waiting"
      BY <1>0, <2>1 DEF ChildRecord, RunStatus, Suspended, NodeStatus
    <2>3. SaveChild(w, next, "noting")
      BY <1>2 DEF next
    <2>. QED  BY <1>0, <2>2, <2>3, SaveChildWaits DEF Suspended
  <1>3. ASSUME NEW place \in {"calling", "denied"}, SaveChild(w, started, place)
        PROVE  Waited(w)
    <2>1. started = [run EXCEPT !.node = "running", !.paid = FALSE, !.status = "running",
                                !.approved = FALSE]
      BY <1>0 DEF ChildRecord
    <2>. HIDE DEF started
    <2>2. /\ started \in ChildRecord /\ started.version = run.version
          /\ started.status = "running"
      BY <1>0, <2>1 DEF ChildRecord, RunStatus, NodeStatus
    <2>. QED  BY <1>0, <1>3, <2>2, SaveChildWaits
  <1>4. CASE /\ run.calls < run.allotted
             /\ SaveChild(w, [started EXCEPT !.calls = @ + 1], "calling")
    <2>. DEFINE next == [started EXCEPT !.calls = @ + 1]
    <2>1. run.calls + 1 \in 0 .. MaxCalls
      BY <1>0, <1>4 DEF ChildRecord, ChildAssumption
    <2>2. next = [run EXCEPT !.node = "running", !.paid = FALSE, !.status = "running",
                             !.approved = FALSE, !.calls = run.calls + 1]
      BY <1>0 DEF ChildRecord
    <2>. HIDE DEF next
    <2>3. next \in ChildRecord /\ next.version = run.version /\ next.status = "running"
      BY <1>0, <2>1, <2>2 DEF ChildRecord, RunStatus, NodeStatus
    <2>4. SaveChild(w, next, "calling")
      BY <1>4 DEF next
    <2>. QED  BY <1>0, <2>3, <2>4, SaveChildWaits
  <1>. QED  BY <1>1, <1>2, <1>3, <1>4, Zenon DEF Nest

LEMMA NoteWaits ==
    ASSUME ChildAssumption, IInv, WInv, NEW w \in Worker, Note(w)
    PROVE  Waited(w)
  <1>1. /\ mem[w].child \in ChildRecord /\ mem[w].pc \in Storing
        /\ mem[w].child.status \in Suspended /\ UNCHANGED parent
        /\ "suspending" \in Places \ {"idle", "nested"}
    BY DEF IInv, WInv, InHand, WorkerOK, Note, Storing, Places
  <1>. QED  BY <1>1, SaveChildWaits DEF Note

LEMMA CallWaits ==
    ASSUME ChildAssumption, IInv, WInv, NEW w \in Worker, Call(w)
    PROVE  Waited(w)
  <1>. DEFINE run == mem[w].child
  <1>0. /\ run \in ChildRecord /\ mem[w].pc \in Storing /\ UNCHANGED parent
        /\ run.status = "running"
        /\ "returning" \in Places \ {"idle", "nested"}
    BY DEF IInv, WInv, InHand, WorkerOK, Call, Storing, Places
  <1>1. ASSUME NEW node \in {"succeeded", "failed"}, NEW status \in {"completed", "failed"},
               SaveChild(w, [run EXCEPT !.node = node, !.status = status], "returning")
        PROVE  Waited(w)
    <2>. DEFINE next == [run EXCEPT !.node = node, !.status = status]
    <2>1. next \in ChildRecord /\ next.version = run.version
      BY <1>0 DEF ChildRecord, RunStatus, Over, NodeStatus
    <2>. HIDE DEF next
    <2>2. SaveChild(w, next, "returning")
      BY <1>1 DEF next
    <2>. QED  BY <1>0, <2>1, <2>2, SaveChildWaits
  <1>. QED  BY <1>1 DEF Call

LEMMA ReturnWaits ==
    ASSUME ChildAssumption, IInv, WInv, NEW w \in Worker, Return(w)
    PROVE  Waited(w)
  <1>. DEFINE run == mem[w].run
              child == mem[w].child
              c == mem[w].id
              after == Returned(run, c, child)
              fits == c \in run.absorbed \/ run.spent + child.calls <= MaxCalls
  <1>0. /\ WorkerOK(mem[w]) /\ c \in Child /\ UNCHANGED children
        /\ run \in ParentRun /\ child \in ChildRecord /\ mem[w].pc = "returning"
        /\ "finished" \in Places \ Holding /\ DOMAIN mem = Worker
    BY DEF IInv, WorkerOK, Places, Holding, Storing, Return, Goto
  <1>1. CASE Goto(w, "erring")
    <2>1. /\ UNCHANGED <<task, parent>> /\ \A u \in Worker \ {w} : mem'[u] = mem[u]
          /\ mem'[w].pc = "erring" /\ mem'[w].run = mem[w].run
      BY <1>0, <1>1 DEF Goto, WorkerOK
    <2>. QED BY <1>0, <2>1, MoveWaits DEF Away, Storing
  <1>. HIDE DEF after
  <1>2. CASE /\ fits
             /\ mem' = [mem EXCEPT ![w].pc = "erring", ![w].run = after]
             /\ UNCHANGED <<task, parent, children>>
    <2>1. after.version = run.version
      BY <1>0, <1>2, ReturnedTyped DEF after
    <2>2. /\ \A u \in Worker \ {w} : mem'[u] = mem[u]
          /\ mem'[w].pc = "erring" /\ mem'[w].run = after
      BY <1>0, <1>2 DEF IInv, WorkerOK
    <2>. QED BY <1>0, <1>2, <2>1, <2>2, MoveWaits DEF Away, Storing
  <1>3. CASE /\ fits
             /\ SaveParent(w, [after EXCEPT !.node = "succeeded", !.status = "completed"],
                           "finished")
    <2>. DEFINE next == [after EXCEPT !.node = "succeeded", !.status = "completed"]
    <2>1. after \in ParentRun /\ after.version = run.version
      BY <1>0, <1>3, ReturnedTyped DEF after
    <2>2. next \in ParentRun /\ next.version = run.version /\ next.status = "completed"
      BY <2>1 DEF ParentRun, NodeStatus, RunStatus, Over
    <2>. HIDE DEF next
    <2>3. SaveParent(w, next, "finished")
      BY <1>3 DEF next
    <2>. QED  BY <1>0, <2>2, <2>3, SaveParentWaits DEF Suspended
  <1>. QED
    <2>. USE DEF after, Returned
    <2>. QED  BY <1>1, <1>2, <1>3, Zenon DEF Return

(* The worker claims the task, ends it, or is stopped.                     *)
LEMMA OutsideWaits ==
    ASSUME ChildAssumption, IInv, WInv, NEW w \in Worker,
           Claim(w) \/ Commit(w) \/ Fail(w) \/ TimeOut(w) \/ Crash(w)
    PROVE  Waited(w)
  <1>0. /\ RowsOK /\ WorkerOK(mem[w]) /\ InHand(mem[w]) /\ Waits
        /\ parent.version \in Nat /\ DOMAIN mem = Worker
    BY DEF IInv, WInv, RowsOK, ParentRun
  <1>1. CASE Claim(w)
    <2>1. task' \notin {"review", "user"} /\ children' = children
      BY <1>1 DEF Claim
    <2>2. parent.version <= parent'.version /\ InHand(mem[w])'
      <3>1. CASE cancelling
        <4>1. mem' = mem /\ parent' = Finalized("cancelled") /\ mem[w].pc = "idle"
          BY <1>1, <3>1 DEF Claim
        <4>2. parent'.version = parent.version + 1
          BY <1>0, <4>1, FinalizedVersion
        <4>. QED BY <1>0, <4>1, <4>2 DEF InHand, Storing
      <3>2. CASE ~cancelling
        <4>1. /\ parent' = parent
              /\ mem' = [mem EXCEPT ![w] = [Idle EXCEPT !.pc = "deciding", !.run = parent]]
          BY <1>1, <3>2 DEF Claim
        <4>2. mem'[w].pc = "deciding" /\ mem'[w].run = parent
          BY <1>0, <4>1 DEF Idle
        <4>. QED BY <1>0, <4>1, <4>2 DEF InHand, Storing
      <3>. QED BY <3>1, <3>2
    <2>. QED BY <2>1, <2>2, AskingNothing DEF Waited
  <1>2. ASSUME NEW status \in Over, task' = status, parent' = Finalized(status),
               mem' = [mem EXCEPT ![w] = Idle]
        PROVE  Waited(w)
    <2>1. mem'[w].pc = "idle"
      BY <1>0, <1>2 DEF Idle
    <2>2. parent.version <= parent'.version /\ InHand(mem[w])'
      BY <1>0, <1>2, <2>1, FinalizedVersion DEF InHand, Storing
    <2>3. task' \notin {"review", "user"}
      BY <1>2 DEF Over
    <2>. QED BY <2>2, <2>3, AskingNothing DEF Waited
  <1>3. ASSUME NEW place \in {"failing", "erring"}, mem[w].pc \notin {"idle", "starting", "failing"},
               mem' = [mem EXCEPT ![w].pc = place], UNCHANGED <<task, parent, children>>
        PROVE  Waited(w)
    <2>1. /\ \A u \in Worker \ {w} : mem'[u] = mem[u]
          /\ mem'[w].pc = place /\ mem'[w].run = mem[w].run
      BY <1>0, <1>3 DEF WorkerOK
    <2>. QED BY <1>3, <2>1, MoveWaits DEF Away, Storing
  <1>4. ASSUME mem[w].pc # "idle", mem' = [mem EXCEPT ![w] = Idle],
               UNCHANGED <<task, parent, children>>
        PROVE  Waited(w)
    <2>1. mem'[w].pc = "idle" /\ \A u \in Worker \ {w} : mem'[u] = mem[u]
      BY <1>0, <1>4 DEF Idle
    <2>. QED BY <1>4, <2>1, MoveWaits DEF Away, Storing
  <1>5. CASE Commit(w)
    BY <1>2, <1>3, <1>5 DEF Commit, Over
  <1>6. CASE Fail(w)
    BY <1>2, <1>4, <1>6 DEF Fail, Over
  <1>7. CASE TimeOut(w)
    BY <1>3, <1>7 DEF TimeOut
  <1>8. CASE Crash(w)
    BY <1>4, <1>8 DEF Crash
  <1>. QED BY <1>1, <1>5, <1>6, <1>7, <1>8

LEMMA WorkerWaits ==
    ASSUME ChildAssumption, IInv, WInv, NEW w \in Worker, Work(w) \/ TimeOut(w) \/ Crash(w)
    PROVE  WInv'
  <1>1. Waited(w)
    BY OutsideWaits, DecideWaits, StartWaits, ErrWaits, SuspendWaits, LookWaits, CreateWaits,
       NestWaits, NoteWaits, CallWaits, ReturnWaits DEF Work
  <1>2. Worked(w)
    BY WorkerStep
  <1>3. ASSUME NEW u \in Worker \ {w} PROVE InHand(mem[u])'
    BY <1>1, <1>2, InHandOnward DEF IInv, WInv, Worked, Waited, RowsOK
  <1>. QED BY <1>1, <1>3 DEF WInv, Waited

(* What recovery and the user do: they leave the workers alone.            *)
LEMMA ControlWaits ==
    ASSUME ChildAssumption, IInv, WInv, [Next]_vars, UNCHANGED mem,
           parent.version <= parent'.version, Waits'
    PROVE  WInv'
  <1>1. Onward /\ IInv'
    BY NextIInv
  <1>2. ASSUME NEW w \in Worker PROVE InHand(mem[w])'
    BY <1>1, InHandOnward DEF IInv, WInv, RowsOK
  <1>. QED BY <1>2 DEF WInv

(* A pause or an answer leaves the version and the status of every run.    *)
LEMMA PauseWaits ==
    ASSUME ChildAssumption, IInv, WInv, Pause
    PROVE  parent.version <= parent'.version /\ Waits'
  <1>0. /\ RowsOK /\ Waits /\ parent \in ParentRun /\ parent.version \in Nat
        /\ UNCHANGED <<task, mem>>
    BY DEF IInv, WInv, RowsOK, ParentRun, Pause, Request
  <1>1. parent'.version = parent.version /\ parent'.status = parent.status
    BY <1>0 DEF Pause, ParentRun
  <1>2. Child' = Child /\ \A c \in Child : children'[c].status = children[c].status
    <2>1. CASE UNCHANGED children
      BY <2>1 DEF Child
    <2>2. ASSUME NEW c \in Child,
                 children' = [children EXCEPT ![c].pause = TRUE, ![c].approved = FALSE]
          PROVE  Child' = Child /\ \A d \in Child : children'[d].status = children[d].status
      <3>1. children \in Seq(ChildRecord) /\ DOMAIN children = Child /\ Len(children) \in Nat
        BY <1>0, SeqFacts DEF RowsOK
      <3>. DEFINE r == [children[c] EXCEPT !.pause = TRUE, !.approved = FALSE]
      <3>2. r \in ChildRecord /\ r.status = children[c].status
        BY <1>0, SeqFacts DEF ChildRecord
      <3>3. children' = [children EXCEPT ![c] = r]
        BY <2>2
      <3>. HIDE DEF r
      <3>4. Len(children') = Len(children)
        BY <3>1, <3>2, <3>3 DEF Child
      <3>. QED BY <3>1, <3>2, <3>3, <3>4 DEF Child
    <2>. QED BY <2>1, <2>2 DEF Pause
  <1>3. (ChildWaits => ChildWaits') /\ (ParentWaits => ParentWaits')
    BY <1>0, <1>1, <1>2 DEF ChildWaits, ParentWaits, Away
  <1>. QED BY <1>0, <1>1, <1>3 DEF Waits, Asks

LEMMA RejectWaits ==
    ASSUME ChildAssumption, IInv, WInv, Reject
    PROVE  parent.version <= parent'.version /\ Waits'
  <1>0. /\ RowsOK /\ parent \in ParentRun /\ parent.version \in Nat /\ UNCHANGED mem
    BY DEF IInv, RowsOK, ParentRun, Reject, Request
  <1>. DEFINE refused(run) == [run EXCEPT !.status = "paused", !.pause = FALSE,
                                          !.version = @ + 1]
  <1>1. PICK c \in {0} \cup Child :
            IF c = 0 THEN parent' = refused(parent)
            ELSE children' = [children EXCEPT ![c] = refused(children[c])] /\ UNCHANGED parent
    BY <1>0, ReachedTyped DEF Reject, Stored
  <1>2. CASE c = 0
    <2>1. parent'.status = "paused" /\ parent'.version = parent.version + 1
      BY <1>0, <1>1, <1>2 DEF ParentRun
    <2>2. ASSUME NEW w \in Worker PROVE Away(mem[w])'
      <3>1. mem[w].pc # "idle" => mem[w].run.version <= parent.version
        BY DEF WInv, InHand
      <3>2. mem[w].run.version \in Nat
        BY DEF IInv, WorkerOK, ParentRun
      <3>. QED BY <1>0, <2>1, <3>1, <3>2 DEF Away
    <2>. QED BY <1>0, <2>1, <2>2 DEF Waits, ParentWaits, Suspended
  <1>3. CASE c # 0
    <2>. DEFINE r == refused(children[c])
    <2>1. c \in Child /\ children' = [children EXCEPT ![c] = r] /\ UNCHANGED parent
      BY <1>1, <1>3
    <2>2. r \in ChildRecord /\ r.status = "paused"
      <3>1. children[c] \in ChildRecord
        BY <1>0, <2>1, SeqFacts
      <3>. QED BY <3>1, RefusedTyped DEF ChildRecord
    <2>. HIDE DEF r
    <2>3. children'[c] = r /\ Child' = Child
      BY <1>0, <2>1, <2>2 DEF RowsOK, Child
    <2>. QED BY <1>0, <2>1, <2>2, <2>3 DEF Waits, ChildWaits, Suspended
  <1>. QED BY <1>2, <1>3

LEMMA AnswerWaits ==
    ASSUME ChildAssumption, IInv, WInv, Recover \/ LoseLease \/ Resume \/ Approve \/ Cancel
    PROVE  parent.version <= parent'.version /\ Waits' /\ UNCHANGED mem
  <1>0. /\ RowsOK /\ parent \in ParentRun /\ parent.version \in Nat
    BY DEF IInv, RowsOK, ParentRun
  <1>1. UNCHANGED mem /\ task' \notin {"review", "user"}
    BY DEF Recover, LoseLease, Requeue, Resume, Approve, Cancel, Request, Answer
  <1>2. CASE Recover \/ LoseLease \/ Resume \/ Approve
    <2>1. parent'.version = parent.version
      BY <1>0, <1>2 DEF Recover, LoseLease, Requeue, Resume, Approve, Answer, ParentRun
    <2>. QED BY <1>0, <1>1, <2>1, AskingNothing
  <1>3. CASE Cancel
    <2>1. CASE parent' = parent
      BY <1>0, <1>1, <2>1, AskingNothing
    <2>2. CASE parent' = [Finalized("cancelled") EXCEPT
                             !.pause = FALSE, !.approved = FALSE, !.link = 0]
      <3>1. parent'.version = parent.version + 1
        BY <1>0, <2>2, FinalizedVersion, FinalizedTyped DEF Over, ParentRun
      <3>. QED BY <1>0, <1>1, <3>1, AskingNothing
    <2>. QED BY <1>3, <2>1, <2>2 DEF Cancel
  <1>. QED BY <1>2, <1>3, <1>1

LEMMA NextWaits ==
    ASSUME ChildAssumption, IInv, WInv, [Next]_vars
    PROVE  WInv'
  <1>1. CASE UNCHANGED vars
    BY <1>1 DEF vars, WInv, InHand, Waits, Asks, ChildWaits, Child, ParentWaits, Away
  <1>2. CASE Pause
    BY <1>2, PauseWaits, ControlWaits DEF Pause, Request
  <1>3. CASE Reject
    BY <1>3, RejectWaits, ControlWaits DEF Reject, Request
  <1>4. CASE Recover \/ LoseLease \/ Resume \/ Approve \/ Cancel
    BY <1>4, AnswerWaits, ControlWaits
  <1>. QED BY <1>1, <1>2, <1>3, <1>4, WorkerWaits DEF Next, Rest

(* While nobody executes a task that waits for its user, a user who names  *)
(* the run finds a suspended one to answer: whichever run's checkpoint     *)
(* wrote the status of the task last (runtime_persistence_hooks.py         *)
(* 183-193), under any number of workers, children and lost leases.        *)
THEOREM WaitingIsBacked == ChildAssumption /\ Named /\ Spec => []WaitingBacked
  <1>. SUFFICES ASSUME ChildAssumption, Named
                PROVE  Spec => []WaitingBacked
    OBVIOUS
  <1>1. Init => IInv
    BY InitIInv
  <1>2. IInv /\ [Next]_vars => IInv'
    BY NextIInv
  <1>3. Init => WInv
    <2>1. Init => ~Asks /\ \A w \in Worker : mem[w].pc = "idle"
      BY DEF Init, Asks, Idle
    <2>. QED BY <2>1 DEF WInv, InHand, Waits, Storing
  <1>4. IInv /\ WInv /\ [Next]_vars => WInv'
    BY NextWaits
  <1>5. WInv => WaitingBacked
    <2>1. ASSUME ChildWaits \/ ParentWaits
          PROVE  \E status \in Suspended : \E c \in {0} \cup Child : Stored(c).status = status
      <3>1. CASE ParentWaits
        BY <3>1 DEF ParentWaits, Stored
      <3>2. CASE ChildWaits
        BY <3>2 DEF ChildWaits, Stored, Child
      <3>. QED BY <2>1, <3>1, <3>2
    <2>2. \A status : Reached(status) = {0} \cup Child
      BY DEF Reached
    <2>. QED BY <2>1, <2>2 DEF WInv, Waits, Asks, WaitingBacked
  <1>. QED  BY <1>1, <1>2, <1>3, <1>4, <1>5, PTL DEF Spec
=============================================================================
