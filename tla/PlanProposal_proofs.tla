------------------------- MODULE PlanProposal_proofs -------------------------
(***************************************************************************)
(* Theorems about PlanProposal, for any number of workers, iterations,     *)
(* proposals and faults.                                                   *)
(***************************************************************************)
EXTENDS PlanProposal, TLAPS

ProposalRecord == [status : {"pending", "applied", "rejected"}, target : Iteration,
                   base : Iteration, baseVersion : Nat, version : Nat]

(* RunRecord with the number of proposals spelled out. *)
RunOf(n) ==
    [version : Nat \ {0}, status : {"running", "waiting", "paused"} \cup Over,
     iteration : Iteration, plan : Iteration, gate : 0 .. n,
     approved : BOOLEAN, kept : BOOLEAN, work : {"open", "running", "broken", "done"}]

-----------------------------------------------------------------------------
(* What a checkpoint does, field by field.                                 *)
LEMMA CheckpointDone ==
    ASSUME TypeOK, NEW w \in Worker, NEW copy \in RunRecord, NEW place \in Places,
           row.version = mem[w].version, Checkpoint(w, copy, place)
    PROVE  /\ row' \in RunOf(Len(proposals))
           /\ row'.version = row.version + 1
           /\ row'.status = copy.status
           /\ row'.iteration = copy.iteration
           /\ row'.plan = copy.plan
           /\ row'.work = copy.work
           /\ row'.gate = IF copy.gate = NoProposal THEN row.gate ELSE copy.gate
           /\ mem' = [mem EXCEPT ![w] = row']
           /\ task' = Projected(copy.status)
           /\ proposals' = Sync(row'.gate, row'.version)
           /\ pc' = [pc EXCEPT ![w] = place]
  <1>. DEFINE gate == IF copy.gate = NoProposal THEN row.gate ELSE copy.gate
              approved == copy.approved \/ (row.approved /\ copy.status # "running")
  <1>1. row' = [copy EXCEPT !.version = row.version + 1, !.gate = gate,
                            !.approved = approved, !.kept = approved]
    BY DEF Checkpoint
  <1>2. gate \in 0 .. Len(proposals) /\ approved \in BOOLEAN
    BY DEF TypeOK, RunRecord
  <1>3. row.version + 1 \in Nat \ {0}
    BY DEF TypeOK, RunRecord
  <1>4. /\ mem' = [mem EXCEPT ![w] = row'] /\ pc' = [pc EXCEPT ![w] = place]
        /\ task' = Projected(row'.status) /\ proposals' = Sync(gate, row'.version)
    BY DEF Checkpoint
  <1>. HIDE DEF gate, approved
  <1>5. row' \in RunOf(Len(proposals))
    BY <1>1, <1>2, <1>3 DEF RunRecord, RunOf
  <1>6. /\ row'.version = row.version + 1 /\ row'.status = copy.status
        /\ row'.iteration = copy.iteration /\ row'.plan = copy.plan
        /\ row'.work = copy.work /\ row'.gate = gate
    BY <1>1 DEF RunRecord
  <1>. QED  BY <1>4, <1>5, <1>6 DEF gate

LEMMA SyncDone ==
    ASSUME proposals \in Seq(ProposalRecord), NEW g \in 0 .. Len(proposals), NEW n \in Nat
    PROVE  /\ Sync(g, n) \in Seq(ProposalRecord)
           /\ Len(Sync(g, n)) = Len(proposals)
           /\ \A p \in Id :
                 /\ Sync(g, n)[p].status = proposals[p].status
                 /\ Sync(g, n)[p].target = proposals[p].target
                 /\ Sync(g, n)[p].base = proposals[p].base
                 /\ Sync(g, n)[p].baseVersion = proposals[p].baseVersion
                 /\ Sync(g, n)[p].version =
                       IF p = g /\ proposals[p].status = "pending" THEN n
                       ELSE proposals[p].version
  <1>1. CASE g = NoProposal \/ proposals[g].status # "pending"
    <2>. Sync(g, n) = proposals
      BY <1>1 DEF Sync
    <2>. QED  BY <1>1 DEF Id, NoProposal
  <1>2. CASE g # NoProposal /\ proposals[g].status = "pending"
    <2>1. g \in 1 .. Len(proposals) /\ proposals[g] \in ProposalRecord
      BY <1>2 DEF NoProposal
    <2>. DEFINE r == [proposals[g] EXCEPT !.version = n]
    <2>2. /\ r \in ProposalRecord /\ r.version = n
          /\ r.status = proposals[g].status /\ r.target = proposals[g].target
          /\ r.base = proposals[g].base /\ r.baseVersion = proposals[g].baseVersion
      BY <2>1 DEF ProposalRecord
    <2>3. Sync(g, n) = [proposals EXCEPT ![g] = r]
      BY <1>2 DEF Sync
    <2>. HIDE DEF r
    <2>. QED  BY <1>2, <2>1, <2>2, <2>3 DEF Id
  <1>. QED  BY <1>1, <1>2

LEMMA CheckpointRefused ==
    ASSUME TypeOK, NEW w \in Worker, NEW copy, NEW place,
           row.version # mem[w].version, Checkpoint(w, copy, place)
    PROVE  pc' = [pc EXCEPT ![w] = "failing"] /\ UNCHANGED <<task, row, mem, proposals>>
  BY DEF Checkpoint

(* A copy of a worker's run with another status, or other work. *)
LEMMA CopyType ==
    ASSUME TypeOK, NEW w \in Worker
    PROVE  /\ mem[w] \in RunRecord
           /\ \A s \in {"running", "waiting", "paused"} \cup Over :
                 /\ [mem[w] EXCEPT !.status = s] \in RunRecord
                 /\ \A k \in {"open", "running", "broken", "done"} :
                       [mem[w] EXCEPT !.status = s, !.work = k] \in RunRecord
           /\ \A k \in {"open", "running", "broken", "done"} :
                 [mem[w] EXCEPT !.work = k] \in RunRecord
  BY DEF TypeOK, RunRecord

LEMMA ProjectedType ==
    ASSUME TypeOK, NEW s \in {"running", "waiting", "paused"} \cup Over
    PROVE  Projected(s) \in {"queued", "running", "review", "user"} \cup Over
  BY DEF Projected, TypeOK

(* The part of TypeOK that a run of the worker's own steps can disturb. *)
Typed ==
    /\ task \in {"queued", "running", "review", "user"} \cup Over
    /\ row \in RunOf(Len(proposals))
    /\ mem \in [Worker -> RunOf(Len(proposals))]
    /\ pc \in [Worker -> Places]
    /\ proposals \in Seq(ProposalRecord)

LEMMA TypedIs ==
    TypeOK <=> /\ Typed
               /\ cancelling \in BOOLEAN
               /\ screen \in Nat \X Nat /\ faults \in Nat
  BY DEF TypeOK, Typed, RunRecord, RunOf, ProposalRecord

LEMMA CheckpointType ==
    ASSUME TypeOK, NEW w \in Worker, NEW copy \in RunRecord, NEW place \in Places,
           Checkpoint(w, copy, place)
    PROVE  Typed'
  <1>1. CASE row.version # mem[w].version
    BY <1>1, CheckpointRefused, TypedIs DEF Typed, Places
  <1>2. CASE row.version = mem[w].version
    <2>. DEFINE g == row'.gate
                n == row'.version
    <2>1. /\ row' \in RunOf(Len(proposals))
          /\ mem' = [mem EXCEPT ![w] = row']
          /\ task' = Projected(copy.status)
          /\ proposals' = Sync(g, n)
          /\ pc' = [pc EXCEPT ![w] = place]
      BY <1>2, CheckpointDone
    <2>2. g \in 0 .. Len(proposals) /\ n \in Nat
      BY <2>1 DEF RunOf
    <2>. HIDE DEF g, n
    <2>3. proposals \in Seq(ProposalRecord)
      BY DEF TypeOK, ProposalRecord
    <2>4. Sync(g, n) \in Seq(ProposalRecord) /\ Len(Sync(g, n)) = Len(proposals)
      BY <2>2, <2>3, SyncDone
    <2>5. proposals' \in Seq(ProposalRecord) /\ Len(proposals') = Len(proposals)
      BY <2>1, <2>4
    <2>6. task' \in {"queued", "running", "review", "user"} \cup Over
      BY <2>1, ProjectedType DEF RunRecord
    <2>. QED  BY <2>1, <2>5, <2>6, TypedIs DEF Typed
  <1>. QED  BY <1>1, <1>2

LEMMA FinalizedType ==
    ASSUME TypeOK, NEW s \in Over
    PROVE  /\ Finalized(s) \in RunOf(Len(proposals))
           /\ Finalized(s).version = row.version + 1
           /\ Finalized(s).plan = row.plan
           /\ Finalized(s).iteration = row.iteration
           /\ Finalized(s).status = s
           /\ Finalized(s).gate = row.gate
  <1>1. row.version + 1 \in Nat \ {0} /\ row \in RunOf(Len(proposals))
    BY DEF TypeOK, RunRecord, RunOf
  <1>. QED  BY <1>1 DEF Finalized, RunOf

-----------------------------------------------------------------------------
(* Types.                                                                  *)
LEMMA InitType == Init => TypeOK
  <1>. SUFFICES ASSUME Init
                PROVE  TypeOK
    OBVIOUS
  <1>1. row \in RunOf(0) /\ Len(proposals) = 0
    BY ProposalAssumption DEF Init, RunOf, Iteration, NoProposal
  <1>2. mem \in [Worker -> RunOf(0)]
    BY <1>1 DEF Init
  <1>3. proposals \in Seq(ProposalRecord) /\ screen \in Nat \X Nat
    BY DEF Init, NoProposal
  <1>4. pc \in [Worker -> Places] /\ cancelling \in BOOLEAN /\ faults \in Nat
    BY DEF Init, Places
  <1>5. task \in {"queued", "running", "review", "user"} \cup Over
    BY DEF Init
  <1>. QED  BY <1>1, <1>2, <1>3, <1>4, <1>5, TypedIs DEF Typed

LEMMA RunGrows ==
    ASSUME NEW n \in Nat, NEW r \in RunOf(n)
    PROVE  r \in RunOf(n + 1)
  BY DEF RunOf

(* What a proposal adds, and what it leaves alone. *)
LEMMA ProposeDone ==
    ASSUME TypeOK, NEW w \in Worker, Propose(w)
    PROVE  LET n == Len(proposals) + 1
           IN /\ proposals' = Append(proposals,
                    [status |-> "pending", target |-> mem[w].iteration,
                     base |-> Label(row.plan), baseVersion |-> row.version,
                     version |-> row.version + 1])
              /\ Len(proposals') = n
              /\ row' \in RunOf(n)
              /\ row'.version = row.version + 1 /\ row'.status = "waiting"
              /\ row'.gate = n /\ row'.iteration = row.iteration
              /\ row'.plan = row.plan /\ row'.work = row.work
              /\ mem' \in [Worker -> RunOf(n)]
              /\ \A v \in Worker : v # w => mem'[v] = mem[v]
              /\ mem'[w].version = row.version + 1 /\ mem'[w].gate = n
              /\ mem'[w].iteration = mem[w].iteration /\ mem'[w].plan = mem[w].plan
              /\ mem'[w].work = mem[w].work
  <1>. DEFINE n == Len(proposals) + 1
              k == row.version + 1
              r == [row EXCEPT !.version = k, !.status = "waiting", !.gate = n,
                               !.approved = row.kept]
              m == [mem[w] EXCEPT !.version = k, !.gate = n]
  <1>1. Len(proposals) \in Nat
    BY DEF TypeOK
  <1>2. k \in Nat \ {0} /\ n \in Nat /\ n \in 0 .. n
    BY <1>1 DEF TypeOK, RunRecord
  <1>3. row \in RunOf(n) /\ \A v \in Worker : mem[v] \in RunOf(n)
    BY <1>1, RunGrows DEF TypeOK, RunRecord, RunOf
  <1>4. /\ proposals' = Append(proposals,
              [status |-> "pending", target |-> mem[w].iteration,
               base |-> Label(row.plan), baseVersion |-> row.version,
               version |-> row.version + 1])
        /\ row' = r /\ mem' = [mem EXCEPT ![w] = m]
    BY DEF Propose, TypeOK
  <1>5. Len(proposals') = n
    BY <1>4 DEF TypeOK
  <1>. HIDE DEF n, k
  <1>6. /\ r \in RunOf(n) /\ r.version = k /\ r.status = "waiting" /\ r.gate = n
        /\ r.iteration = row.iteration /\ r.plan = row.plan /\ r.work = row.work
    BY <1>2, <1>3 DEF RunOf
  <1>7. /\ m \in RunOf(n) /\ m.version = k /\ m.gate = n
        /\ m.iteration = mem[w].iteration /\ m.plan = mem[w].plan
        /\ m.work = mem[w].work
    BY <1>2, <1>3 DEF RunOf
  <1>. HIDE DEF r, m
  <1>8. /\ mem' \in [Worker -> RunOf(n)] /\ mem'[w] = m
        /\ \A v \in Worker : v # w => mem'[v] = mem[v]
    BY <1>3, <1>4, <1>7 DEF TypeOK
  <1>. QED  BY <1>4, <1>5, <1>6, <1>7, <1>8 DEF n, k

(* A review changes one proposal, and the run. *)
LEMMA ReviewDone ==
    ASSUME TypeOK, NEW p \in Id, NEW expected, Approve(p, expected) \/ Reject(p, expected)
    PROVE  /\ row' \in RunOf(Len(proposals))
           /\ row'.version = row.version + 1
           /\ proposals' \in Seq(ProposalRecord) /\ Len(proposals') = Len(proposals)
           /\ \A q \in Id : /\ q # p => proposals'[q] = proposals[q]
                            /\ proposals'[q].target = proposals[q].target
                            /\ proposals[q].status = "applied"
                                  => proposals'[q].status = "applied"
           /\ Approve(p, expected) =>
                 /\ row'.plan = proposals[p].target
                 /\ row'.iteration = proposals[p].target
                 /\ proposals[p].target >= row.iteration
                 /\ proposals'[p].status = "applied"
           /\ Reject(p, expected) => row'.plan = row.plan /\ row'.iteration = row.iteration
           /\ task' = "queued" /\ UNCHANGED <<cancelling, mem, pc, screen, faults>>
  <1>. DEFINE k == row.version + 1
              g == GateAfter(p)
              a == [row EXCEPT !.version = k, !.status = "running", !.work = "open",
                               !.iteration = proposals[p].target,
                               !.plan = proposals[p].target, !.gate = g,
                               !.approved = row.kept]
              b == [row EXCEPT !.version = k, !.status = "paused", !.gate = g,
                               !.approved = row.kept]
  <1>1. /\ k \in Nat \ {0} /\ g \in 0 .. Len(proposals) /\ row.version \in Nat
        /\ row \in RunOf(Len(proposals)) /\ proposals \in Seq(ProposalRecord)
        /\ proposals[p] \in ProposalRecord
    <2>1. row \in RunOf(Len(proposals)) /\ proposals \in Seq(ProposalRecord)
      BY TypedIs DEF Typed
    <2>2. Len(proposals) \in Nat /\ proposals[p] \in ProposalRecord
      BY <2>1 DEF Id
    <2>3. row.version \in Nat \ {0} /\ row.gate \in 0 .. Len(proposals)
      BY <2>1 DEF RunOf
    <2>. QED  BY <2>1, <2>2, <2>3 DEF GateAfter, NoProposal
  <1>2. proposals[p].target \in Iteration
    BY <1>1 DEF ProposalRecord
  <1>3. /\ Approve(p, expected) => row' = a
        /\ Reject(p, expected) => row' = b
    BY DEF Approve, Reject
  <1>. HIDE DEF k, g
  <1>4. /\ a \in RunOf(Len(proposals)) /\ a.version = k
        /\ a.plan = proposals[p].target /\ a.iteration = proposals[p].target
    BY <1>1, <1>2 DEF RunOf
  <1>5. /\ b \in RunOf(Len(proposals)) /\ b.version = k
        /\ b.plan = row.plan /\ b.iteration = row.iteration
    BY <1>1 DEF RunOf
  <1>. HIDE DEF a, b
  <1>. DEFINE c == [proposals[p] EXCEPT !.status = "applied", !.version = k]
              d == [proposals[p] EXCEPT !.status = "rejected", !.version = row.version]
  <1>6. /\ c \in ProposalRecord /\ c.status = "applied" /\ c.target = proposals[p].target
        /\ d \in ProposalRecord /\ d.status = "rejected" /\ d.target = proposals[p].target
    BY <1>1 DEF ProposalRecord
  <1>7. /\ Approve(p, expected) => proposals' = [proposals EXCEPT ![p] = c]
        /\ Reject(p, expected) => proposals' = [proposals EXCEPT ![p] = d]
    BY DEF Approve, Reject, k
  <1>8. proposals[p].status = "pending"
    BY DEF Approve, Reject, Open
  <1>. HIDE DEF c, d
  <1>9. /\ proposals' \in Seq(ProposalRecord) /\ Len(proposals') = Len(proposals)
        /\ \A q \in Id : /\ q # p => proposals'[q] = proposals[q]
                         /\ proposals'[q].target = proposals[q].target
                         /\ proposals[q].status = "applied"
                               => proposals'[q].status = "applied"
        /\ Approve(p, expected) => proposals'[p].status = "applied"
    BY <1>1, <1>6, <1>7, <1>8 DEF Id
  <1>10. Approve(p, expected) => proposals[p].target >= row.iteration
    BY <1>1, <1>2 DEF Approve, Fits, RunOf, Iteration
  <1>. QED  BY <1>3, <1>4, <1>5, <1>9, <1>10 DEF Approve, Reject, k

LEMMA DecideSplit ==
    ASSUME NEW w \in Worker, Decide(w)
    PROVE  /\ pc[w] = "deciding"
           /\ \/ Checkpoint(w, [mem[w] EXCEPT !.status = "failed"], "failing")
              \/ /\ ~Exhausted(mem[w].iteration)
                 /\ mem' = [mem EXCEPT ![w].iteration = @ + 1, ![w].status = "running"]
                 /\ pc' = [pc EXCEPT ![w] = "proposing"]
                 /\ UNCHANGED <<task, row, proposals>>
              \/ Checkpoint(w, [mem[w] EXCEPT !.status = "completed"], "finished")
              \/ Checkpoint(w, [mem[w] EXCEPT !.status = "running", !.work = "running"],
                            "executing")
           /\ UNCHANGED <<cancelling, screen, faults>>
  BY DEF Decide

(* The copy of a worker that replans, the iteration counted in memory. *)
LEMMA ReplanType ==
    ASSUME TypeOK, NEW w \in Worker, ~Exhausted(mem[w].iteration),
           mem' = [mem EXCEPT ![w].iteration = @ + 1, ![w].status = "running"]
    PROVE  /\ mem' \in [Worker -> RunRecord]
           /\ \A v \in Worker : v # w => mem'[v] = mem[v]
           /\ mem'[w].version = mem[w].version /\ mem'[w].plan = mem[w].plan
           /\ mem'[w].iteration = mem[w].iteration + 1
  <1>. DEFINE i == mem[w].iteration + 1
              m == [mem[w] EXCEPT !.iteration = i, !.status = "running"]
  <1>1. i \in Iteration
    BY ProposalAssumption DEF TypeOK, RunRecord, Exhausted, Iteration
  <1>2. mem' = [mem EXCEPT ![w] = m]
    BY DEF TypeOK
  <1>3. mem[w] \in RunRecord
    BY DEF TypeOK
  <1>. HIDE DEF i
  <1>4. /\ m \in RunRecord /\ m.version = mem[w].version /\ m.plan = mem[w].plan
        /\ m.iteration = i
    BY <1>1, <1>3 DEF RunRecord
  <1>. HIDE DEF m
  <1>. QED  BY <1>2, <1>4 DEF TypeOK, i

LEMMA TypedNext ==
    Typed' /\ cancelling' \in BOOLEAN /\ screen' \in Nat \X Nat /\ faults' \in Nat
        => TypeOK'
  BY DEF TypeOK, Typed, RunRecord, RunOf, ProposalRecord

(* An action of the run's own handlers keeps the proposals as they are. *)
LEMMA RowNext ==
    ASSUME TypeOK, row' \in RunOf(Len(proposals)), UNCHANGED <<mem, proposals>>,
           task' \in {"queued", "running", "review", "user"} \cup Over,
           pc' \in [Worker -> Places], cancelling' \in BOOLEAN,
           UNCHANGED <<screen, faults>>
    PROVE  TypeOK'
  BY TypedIs, TypedNext DEF Typed

LEMMA ShownType ==
    ASSUME TypeOK
    PROVE  \A p \in Id : Shown(p) \in Nat /\ 0 \in Nat
  BY DEF TypeOK, Shown

LEMMA NextType == TypeOK /\ [Next]_vars => TypeOK'
  <1>. SUFFICES ASSUME TypeOK, [Next]_vars
                PROVE  TypeOK'
    OBVIOUS
  <1>a. \A s \in {"deciding", "executing", "proposing", "gating", "finished",
                  "failing", "idle"} : s \in Places
    BY DEF Places
  <1>b. ASSUME UNCHANGED <<row, mem, proposals>>,
               task' \in {"queued", "running", "review", "user"} \cup Over,
               pc' \in [Worker -> Places]
        PROVE  Typed'
    BY <1>b, TypedIs, TypedNext DEF Typed
  <1>1. ASSUME NEW w \in Worker, Claim(w)
        PROVE  TypeOK'
    <2>1. CASE cancelling
      <3>1. row' \in RunOf(Len(proposals)) /\ task' \in Over
        BY <1>1, <2>1, FinalizedType DEF Claim, Over
      <3>. QED  BY <1>1, <2>1, <3>1, RowNext DEF Claim, TypeOK
    <2>2. CASE ~cancelling
      <3>1. mem' \in [Worker -> RunRecord] /\ pc' \in [Worker -> Places]
        BY <1>1, <2>2, <1>a DEF TypeOK, Claim
      <3>. QED  BY <1>1, <2>2, <3>1 DEF TypeOK, Claim, RunRecord
    <2>. QED  BY <2>1, <2>2
  <1>2. ASSUME NEW w \in Worker, Decide(w)
        PROVE  TypeOK'
    <2>1. /\ [mem[w] EXCEPT !.status = "failed"] \in RunRecord
          /\ [mem[w] EXCEPT !.status = "completed"] \in RunRecord
          /\ [mem[w] EXCEPT !.status = "running", !.work = "running"] \in RunRecord
      BY CopyType DEF Over
    <2>2. CASE /\ ~Exhausted(mem[w].iteration)
               /\ mem' = [mem EXCEPT ![w].iteration = @ + 1, ![w].status = "running"]
               /\ pc' = [pc EXCEPT ![w] = "proposing"]
               /\ UNCHANGED <<task, row, proposals>>
      <3>1. mem' \in [Worker -> RunRecord]
        BY <2>2, ReplanType
      <3>. QED  BY <1>2, <1>a, <2>2, <3>1, DecideSplit DEF TypeOK, RunRecord
    <2>3. CASE ~(pc' = [pc EXCEPT ![w] = "proposing"])
      <3>1. Typed'
        BY <1>2, <1>a, <2>1, <2>3, DecideSplit, CheckpointType
      <3>. QED  BY <1>2, <3>1, DecideSplit, TypedIs, TypedNext
    <2>4. CASE Typed'
      BY <1>2, <2>4, TypedIs, TypedNext, DecideSplit
    <2>. QED  BY <1>2, <1>a, <2>1, <2>2, <2>3, <2>4, DecideSplit, CheckpointType
  <1>3. ASSUME NEW w \in Worker, Execute(w)
        PROVE  TypeOK'
    <2>1. /\ [mem[w] EXCEPT !.status = "completed", !.work = "done"] \in RunRecord
          /\ [mem[w] EXCEPT !.work = "broken"] \in RunRecord
      BY CopyType DEF Over
    <2>2. Typed'
      BY <1>3, <1>a, <2>1, CheckpointType DEF Execute
    <2>. QED  BY <1>3, <2>2, TypedIs, TypedNext DEF Execute
  <1>4. ASSUME NEW w \in Worker, Propose(w)
        PROVE  TypeOK'
    <2>1. mem[w].iteration \in Iteration /\ row.version \in Nat /\ Label(row.plan) \in Iteration
      BY ProposalAssumption DEF TypeOK, RunRecord, Label, Iteration
    <2>2. [status |-> "pending", target |-> mem[w].iteration,
           base |-> Label(row.plan), baseVersion |-> row.version,
           version |-> row.version + 1] \in ProposalRecord
      BY <2>1 DEF ProposalRecord
    <2>3. proposals' \in Seq(ProposalRecord)
      <3>1. proposals \in Seq(ProposalRecord)
        BY TypedIs DEF Typed
      <3>2. proposals' = Append(proposals,
               [status |-> "pending", target |-> mem[w].iteration,
                base |-> Label(row.plan), baseVersion |-> row.version,
                version |-> row.version + 1])
        BY <1>4 DEF Propose
      <3>. QED  BY <2>2, <3>1, <3>2
    <2>4. /\ row' \in RunOf(Len(proposals')) /\ mem' \in [Worker -> RunOf(Len(proposals'))]
      BY <1>4, ProposeDone
    <2>5. pc' \in [Worker -> Places] /\ task' = "review"
      BY <1>4, <1>a DEF Propose, TypeOK
    <2>6. Typed'
      BY <2>3, <2>4, <2>5 DEF Typed
    <2>. QED  BY <1>4, <2>6, TypedIs, TypedNext DEF Propose
  <1>5. ASSUME NEW w \in Worker, ProposeRefused(w)
        PROVE  TypeOK'
    BY <1>5, <1>a DEF ProposeRefused, TypeOK, RunRecord
  <1>6. ASSUME NEW w \in Worker, Gate(w)
        PROVE  TypeOK'
    <2>1. [mem[w] EXCEPT !.status = "waiting"] \in RunRecord
      BY CopyType
    <2>2. Typed'
      BY <1>6, <1>a, <2>1, CheckpointType DEF Gate
    <2>. QED  BY <1>6, <2>2, TypedIs, TypedNext DEF Gate
  <1>7. ASSUME NEW w \in Worker, Commit(w)
        PROVE  TypeOK'
    <2>1. \/ UNCHANGED <<task, row>>
          \/ row' \in RunOf(Len(proposals)) /\ task' \in Over
      BY <1>7, FinalizedType DEF Commit, Over
    <2>2. pc' \in [Worker -> Places]
      BY <1>7, <1>a DEF Commit, TypeOK
    <2>3. row \in RunOf(Len(proposals)) /\ task \in {"queued", "running", "review", "user"} \cup Over
      BY TypedIs DEF Typed
    <2>. QED  BY <1>7, <2>1, <2>2, <2>3, RowNext DEF TypeOK, Commit
  <1>8. ASSUME NEW w \in Worker, Fail(w)
        PROVE  TypeOK'
    <2>1. \/ UNCHANGED <<task, row>>
          \/ row' \in RunOf(Len(proposals)) /\ task' \in Over
      BY <1>8, FinalizedType DEF Fail, Over
    <2>2. pc' \in [Worker -> Places]
      BY <1>8, <1>a DEF Fail, TypeOK
    <2>3. row \in RunOf(Len(proposals)) /\ task \in {"queued", "running", "review", "user"} \cup Over
      BY TypedIs DEF Typed
    <2>. QED  BY <1>8, <2>1, <2>2, <2>3, RowNext DEF TypeOK, Fail
  <1>9. ASSUME NEW w \in Worker, Crash(w)
        PROVE  TypeOK'
    BY <1>9, <1>a DEF Crash, TypeOK, RunRecord
  <1>10. CASE Recover \/ LoseLease \/ Resume
    BY <1>10 DEF Recover, LoseLease, Requeue, Resume, TypeOK, RunRecord
  <1>11. CASE Look
    <2>1. screen' \in Nat \X Nat
      <3>1. row.version \in Nat /\ row.gate \in Nat
        BY DEF TypeOK, RunRecord
      <3>2. row.gate \in 1 .. Len(proposals) /\ proposals \in Seq(ProposalRecord)
        BY <1>11, TypedIs, TypedNext DEF Look, NoProposal, Typed, RunOf
      <3>3. proposals[row.gate].version \in Nat
        <4>1. proposals[row.gate] \in ProposalRecord
          BY <3>2
        <4>. QED  BY <4>1 DEF ProposalRecord
      <3>4. \/ screen' = <<row.gate, row.version>>
            \/ screen' = <<row.gate, proposals[row.gate].version>>
        BY <1>11 DEF Look
      <3>. QED  BY <3>1, <3>3, <3>4
    <2>. QED  BY <1>11, <2>1 DEF Look, TypeOK, RunRecord
  <1>12. CASE Review
    <2>1. PICK p \in Id, expected \in Nat :
             Approve(p, expected) \/ Reject(p, expected)
      BY <1>12, ShownType DEF Review
    <2>2. Typed'
      BY <2>1, ReviewDone, TypedIs DEF Typed
    <2>3. UNCHANGED <<cancelling, screen, faults>>
      BY <2>1, ReviewDone
    <2>. QED  BY <2>2, <2>3, TypedIs, TypedNext
  <1>13. CASE ApproveTask
    <2>. DEFINE k == row.version + 1
                r == [row EXCEPT !.approved = TRUE]
    <2>1. row \in RunOf(Len(proposals)) /\ k \in Nat \ {0}
      BY TypedIs DEF Typed, RunOf
    <2>2. row' = r
      BY <1>13 DEF ApproveTask
    <2>. HIDE DEF k
    <2>3. r \in RunOf(Len(proposals))
      BY <2>1 DEF RunOf
    <2>. QED  BY <1>13, <2>2, <2>3, RowNext DEF ApproveTask, TypeOK
  <1>14. CASE RejectTask
    <2>. DEFINE k == row.version + 1
                r == [row EXCEPT !.status = "paused", !.version = k]
    <2>1. row \in RunOf(Len(proposals)) /\ k \in Nat \ {0}
      BY TypedIs DEF Typed, RunOf
    <2>2. row' = r
      BY <1>14 DEF RejectTask
    <2>. HIDE DEF k
    <2>3. r \in RunOf(Len(proposals))
      BY <2>1 DEF RunOf
    <2>. QED  BY <1>14, <2>2, <2>3, RowNext DEF RejectTask, TypeOK
  <1>15. CASE Cancel
    <2>1. row' \in RunOf(Len(proposals)) /\ task' \in {task, "cancelled"}
      BY <1>15, FinalizedType, TypedIs DEF Cancel, Over, Typed
    <2>. QED  BY <1>15, <2>1, RowNext DEF Cancel, TypeOK, Over
  <1>16. CASE UNCHANGED vars
    BY <1>16 DEF vars, TypeOK, RunRecord, Id
  <1>. QED
    BY <1>1, <1>2, <1>3, <1>4, <1>5, <1>6, <1>7, <1>8, <1>9, <1>10, <1>11, <1>12,
       <1>13, <1>14, <1>15, <1>16 DEF Next, Work, Rest

(* Every reachable state has the types TypeOK gives. *)
THEOREM TypeCorrect == Spec => []TypeOK
  <1>. QED  BY InitType, NextType, PTL DEF Spec

-----------------------------------------------------------------------------
(***************************************************************************)
(* The inductive invariant: what a worker that holds the stored version of *)
(* the run may assume, and what keeps a task in review decidable.          *)
(***************************************************************************)
Fresh(w) == mem[w].version = row.version

(* The proposal a worker is about to suspend on is the run's own. *)
AtOwnGate(w) ==
    LET p == mem[w].gate
    IN /\ p \in Id
       /\ proposals[p].status = "pending"
       /\ proposals[p].target = mem[w].iteration
       /\ proposals[p].base = Label(row.plan)
       /\ proposals[p].baseVersion <= row.version
       /\ proposals[p].version = row.version

Copy(w) ==
    /\ mem[w].version <= row.version
    /\ pc[w] = "executing" => mem[w].status = "running"
    /\ pc[w] \in {"proposing", "gating"} => mem[w].work = "broken"
    /\ Fresh(w) =>
          /\ mem[w].plan = row.plan
          /\ mem[w].iteration >= row.iteration
          /\ task = "review" => pc[w] \in {"idle", "gating", "failing"}
          /\ pc[w] = "gating" => AtOwnGate(w)

Decidable ==
    LET p == row.gate
    IN /\ p \in Id
       /\ row.status = "waiting"
       /\ proposals[p].status = "pending"
       /\ proposals[p].base = Label(row.plan)
       /\ proposals[p].baseVersion <= row.version
       /\ proposals[p].version <= row.version
       /\ row.work # "running"
       /\ Exhausted(row.iteration) => row.iteration = proposals[p].target
       /\ row.iteration <= proposals[p].target

IInv ==
    /\ TypeOK
    /\ Reviewed(row.plan)
    /\ row.plan <= row.iteration
    /\ \A w \in Worker : Copy(w)
    /\ task = "review" => Decidable

(***************************************************************************)
(* What the actions leave of the invariant.  A step that gives the run a   *)
(* new version makes every other copy stale.                               *)
(***************************************************************************)
LEMMA Numbers ==
    ASSUME TypeOK
    PROVE  /\ row.version \in Nat /\ row.iteration \in Nat /\ row.plan \in Nat
           /\ \A w \in Worker : /\ mem[w].version \in Nat
                                /\ mem[w].iteration \in Nat /\ mem[w].plan \in Nat
           /\ \A p \in Id : /\ proposals[p].version \in Nat
                            /\ proposals[p].baseVersion \in Nat
                            /\ proposals[p].target \in Nat
  <1>1. \A p \in Id : proposals[p] \in ProposalRecord
    BY TypedIs DEF Typed, Id
  <1>2. \A p \in Id : /\ proposals[p].version \in Nat
                      /\ proposals[p].baseVersion \in Nat
                      /\ proposals[p].target \in Nat
    BY <1>1, ProposalAssumption DEF ProposalRecord, Iteration
  <1>. QED  BY <1>2, ProposalAssumption DEF TypeOK, RunRecord, Iteration

(* A plan that was reviewed stays reviewed while proposals are kept. *)
LEMMA ReviewedStays ==
    ASSUME NEW plan, Reviewed(plan), Len(proposals) \in Nat, Len(proposals') \in Nat,
           Len(proposals') >= Len(proposals),
           \A p \in Id : /\ proposals'[p].target = proposals[p].target
                         /\ proposals[p].status = "applied" => proposals'[p].status = "applied"
    PROVE  Reviewed(plan)'
  BY DEF Reviewed, Id

(* The run is put to its end, or on by a reviewer, with a new version. *)
LEMMA Superseded ==
    ASSUME IInv, TypeOK', row'.version = row.version + 1, UNCHANGED <<mem>>,
           Reviewed(row.plan)', row'.plan <= row'.iteration, task' # "review",
           \A w \in Worker : pc'[w] = pc[w] \/ pc'[w] \in {"idle", "failing"}
    PROVE  IInv'
  <1>1. \A w \in Worker : Copy(w)'
    BY Numbers DEF IInv, Copy, Fresh
  <1>. QED  BY <1>1 DEF IInv

LEMMA FinalizedKeeps ==
    ASSUME IInv, TypeOK', NEW s \in Over, row' = Finalized(s), UNCHANGED <<mem, proposals>>,
           task' # "review",
           \A w \in Worker : pc'[w] = pc[w] \/ pc'[w] \in {"idle", "failing"}
    PROVE  IInv'
  <1>1. row'.version = row.version + 1 /\ row'.plan = row.plan /\ row'.iteration = row.iteration
    BY FinalizedType DEF IInv
  <1>. QED  BY <1>1, Superseded DEF IInv, Reviewed, Id

(* Only the task, or where a worker is, changes. *)
LEMMA RunKept ==
    ASSUME IInv, TypeOK', UNCHANGED <<row, mem, proposals>>, task' = "review" => task = "review",
           \A w \in Worker : pc'[w] = pc[w] \/ pc'[w] \in {"idle", "failing"}
    PROVE  IInv'
  <1>1. \A w \in Worker : Copy(w)'
    BY DEF IInv, Copy, Fresh, AtOwnGate, Id
  <1>. QED  BY <1>1 DEF IInv, Reviewed, Id, Decidable

(* A checkpoint that does not suspend: the plan stays, the iteration of    *)
(* the run becomes that of the worker.                                     *)
LEMMA CheckpointKeeps ==
    ASSUME IInv, TypeOK', NEW w \in Worker, NEW copy \in RunRecord,
           NEW place \in Places \ {"proposing", "gating", "idle"}, Checkpoint(w, copy, place),
           copy.plan = mem[w].plan, copy.iteration = mem[w].iteration,
           copy.status # "waiting", place = "executing" => copy.status = "running",
           pc[w] \notin {"idle", "gating", "failing"}
    PROVE  IInv'
  <1>1. CASE row.version # mem[w].version
    BY <1>1, CheckpointRefused, RunKept DEF IInv, TypeOK
  <1>2. CASE row.version = mem[w].version
    <2>1. /\ row'.version = row.version + 1 /\ row'.status = copy.status
          /\ row'.iteration = mem[w].iteration /\ row'.plan = row.plan
          /\ mem' = [mem EXCEPT ![w] = row']
          /\ task' = Projected(copy.status)
          /\ proposals' = Sync(row'.gate, row'.version)
          /\ row'.gate \in 0 .. Len(proposals) /\ row'.version \in Nat
          /\ pc' = [pc EXCEPT ![w] = place]
      BY <1>2, CheckpointDone DEF IInv, Copy, Fresh, RunOf, Places
    <2>2. task # "review"
      BY <1>2 DEF IInv, Copy, Fresh
    <2>3. task' # "review"
      BY <2>1, <2>2 DEF Projected
    <2>4. /\ Len(proposals) \in Nat /\ Len(proposals') = Len(proposals)
          /\ \A p \in Id : /\ proposals'[p].target = proposals[p].target
                           /\ proposals'[p].status = proposals[p].status
      <3>. DEFINE g == row'.gate
                  n == row'.version
      <3>1. proposals \in Seq(ProposalRecord) /\ g \in 0 .. Len(proposals) /\ n \in Nat
        BY <2>1, TypedIs DEF IInv, Typed
      <3>2. proposals' = Sync(g, n)
        BY <2>1
      <3>. HIDE DEF g, n
      <3>. QED  BY <3>1, <3>2, SyncDone
    <2>5. Reviewed(row.plan)'
      BY <2>1, <2>4, ReviewedStays DEF IInv
    <2>6. row'.plan <= row'.iteration
      BY <1>2, <2>1, Numbers DEF IInv, Copy, Fresh
    <2>7. \A v \in Worker : Copy(v)'
      <3>1. \A v \in Worker : v # w => mem'[v] = mem[v] /\ mem[v].version < row'.version
        BY <2>1, Numbers DEF IInv, Copy, TypeOK
      <3>2. /\ mem'[w] = row' /\ pc'[w] = place
            /\ \A v \in Worker : v # w => pc'[v] = pc[v]
            /\ row'.status = copy.status /\ row'.iteration \in Nat /\ row'.version \in Nat
        BY <2>1, Numbers DEF IInv, TypeOK
      <3>3. \A v \in Worker : mem'[v].version \in Nat
        BY <3>1, <3>2, Numbers DEF IInv
      <3>. QED  BY <2>3, <3>1, <3>2, <3>3 DEF IInv, Copy, Fresh, Places
    <2>. QED  BY <2>3, <2>5, <2>6, <2>7 DEF IInv
  <1>. QED  BY <1>1, <1>2

(* The proposal and the run it waits on are stored in one transaction. *)
LEMMA ProposeKeeps ==
    ASSUME IInv, TypeOK', NEW w \in Worker, Propose(w)
    PROVE  IInv'
  <1>. DEFINE n == Len(proposals) + 1
  <1>1. /\ proposals' = Append(proposals,
              [status |-> "pending", target |-> mem[w].iteration,
               base |-> Label(row.plan), baseVersion |-> row.version,
               version |-> row.version + 1])
        /\ Len(proposals') = n
        /\ row'.version = row.version + 1 /\ row'.status = "waiting"
        /\ row'.gate = n /\ row'.iteration = row.iteration
        /\ row'.plan = row.plan /\ row'.work = row.work
        /\ \A v \in Worker : v # w => mem'[v] = mem[v]
        /\ mem'[w].version = row.version + 1 /\ mem'[w].gate = n
        /\ mem'[w].iteration = mem[w].iteration /\ mem'[w].plan = mem[w].plan
        /\ mem'[w].work = mem[w].work
    BY ProposeDone DEF IInv
  <1>2. /\ row.version = mem[w].version /\ row.work # "running"
        /\ mem[w].iteration > row.iteration /\ mem[w].iteration < MaxIterations
        /\ mem[w].plan = row.plan /\ mem[w].work = "broken"
        /\ pc'[w] = "gating" /\ \A v \in Worker : v # w => pc'[v] = pc[v]
    BY DEF Propose, Acceptable, IInv, Copy, Fresh, TypeOK
  <1>3. /\ Len(proposals) \in Nat /\ n \in 1 .. n /\ proposals \in Seq(ProposalRecord)
    BY TypedIs DEF IInv, Typed
  <1>4. /\ proposals'[n].status = "pending" /\ proposals'[n].target = mem[w].iteration
        /\ proposals'[n].base = Label(row.plan) /\ proposals'[n].baseVersion = row.version
        /\ proposals'[n].version = row.version + 1
        /\ \A p \in Id : proposals'[p] = proposals[p]
    BY <1>1, <1>3 DEF Id
  <1>5. n \in Id'
    BY <1>1, <1>3 DEF Id
  <1>. HIDE DEF n
  <1>6. Reviewed(row.plan)'
    <2>1. Reviewed(row.plan) /\ Len(proposals') >= Len(proposals) /\ Len(proposals') \in Nat
      BY <1>1, <1>3 DEF IInv, n
    <2>2. Reviewed(row.plan)' <=> (Reviewed(row.plan))'
      OBVIOUS
    <2>. QED  BY <1>1, <1>3, <1>4, <2>1 DEF Reviewed, Id
  <1>7. row'.plan <= row'.iteration
    BY <1>1 DEF IInv
  <1>8. Label(row.plan)' = Label(row.plan)
    BY <1>1 DEF Label
  <1>9. \A v \in Worker : v # w => Copy(v)'
    <2>1. \A v \in Worker : v # w => mem'[v].version < row'.version
      BY <1>1, Numbers DEF IInv, Copy
    <2>2. \A v \in Worker : v # w => mem'[v].version \in Nat
      BY <1>1, Numbers DEF IInv
    <2>3. row'.version \in Nat
      BY <1>1, Numbers DEF IInv
    <2>. QED  BY <1>1, <1>2, <2>1, <2>2, <2>3 DEF IInv, Copy, Fresh
  <1>10. Copy(w)'
    BY <1>1, <1>2, <1>4, <1>5, <1>8, Numbers DEF IInv, Copy, Fresh, AtOwnGate
  <1>11. Decidable'
    <2>1. ~Exhausted(row'.iteration)
      BY <1>1, <1>2, Numbers, ProposalAssumption DEF Exhausted, IInv
    <2>2. row'.iteration <= proposals'[n].target /\ row'.work # "running"
      BY <1>1, <1>2, <1>4, Numbers DEF IInv
    <2>3. /\ proposals'[n].baseVersion <= row'.version
          /\ proposals'[n].version <= row'.version
      BY <1>1, <1>4, Numbers DEF IInv
    <2>. QED  BY <1>1, <1>4, <1>5, <1>8, <2>1, <2>2, <2>3 DEF Decidable
  <1>. QED  BY <1>6, <1>7, <1>9, <1>10, <1>11 DEF IInv

(* The suspension: the run takes the worker's iteration, the proposal the  *)
(* run's new version.                                                      *)
LEMMA GateKeeps ==
    ASSUME IInv, TypeOK', NEW w \in Worker, Gate(w)
    PROVE  IInv'
  <1>. DEFINE copy == [mem[w] EXCEPT !.status = "waiting"]
  <1>1. Checkpoint(w, copy, "idle") /\ pc[w] = "gating"
    BY DEF Gate
  <1>0. mem[w] \in RunRecord /\ copy \in RunRecord
    BY CopyType DEF IInv
  <1>2. /\ copy.status = "waiting" /\ copy.plan = mem[w].plan
        /\ copy.iteration = mem[w].iteration /\ copy.gate = mem[w].gate
        /\ copy.work = mem[w].work
    BY <1>0 DEF RunRecord
  <1>. HIDE DEF copy
  <1>3. CASE row.version # mem[w].version
    BY <1>1, <1>3, CheckpointRefused, RunKept DEF IInv, TypeOK
  <1>4. CASE row.version = mem[w].version
    <2>. DEFINE p == mem[w].gate
                n == row'.version
    <2>1. /\ p \in Id /\ proposals[p].status = "pending"
          /\ proposals[p].target = mem[w].iteration
          /\ proposals[p].base = Label(row.plan)
          /\ proposals[p].baseVersion <= row.version
          /\ mem[w].plan = row.plan /\ mem[w].work = "broken"
          /\ mem[w].iteration >= row.iteration
      BY <1>1, <1>4 DEF IInv, Copy, Fresh, AtOwnGate
    <2>2. p # NoProposal
      BY <2>1 DEF Id, NoProposal
    <2>3. /\ row'.version = row.version + 1 /\ row'.status = "waiting"
          /\ row'.iteration = mem[w].iteration /\ row'.plan = row.plan
          /\ row'.work = "broken" /\ row'.gate = p
          /\ mem' = [mem EXCEPT ![w] = row']
          /\ proposals' = Sync(row'.gate, row'.version)
          /\ pc' = [pc EXCEPT ![w] = "idle"]
          /\ row' \in RunOf(Len(proposals))
      BY <1>0, <1>1, <1>2, <1>4, <2>1, <2>2, CheckpointDone DEF IInv, Places
    <2>4. proposals \in Seq(ProposalRecord) /\ p \in 0 .. Len(proposals) /\ n \in Nat
      BY <2>1, <2>3, Numbers, TypedIs DEF IInv, Typed, Id
    <2>5. proposals' = Sync(p, n)
      BY <2>3
    <2>6. Len(proposals) \in Nat
      BY <2>4
    <2>. HIDE DEF n, p
    <2>7. /\ Len(proposals') = Len(proposals)
          /\ \A q \in Id : /\ proposals'[q].status = proposals[q].status
                           /\ proposals'[q].target = proposals[q].target
                           /\ proposals'[q].base = proposals[q].base
                           /\ proposals'[q].baseVersion = proposals[q].baseVersion
          /\ proposals'[p].version = n
      BY <2>1, <2>4, <2>5, SyncDone
    <2>8. Reviewed(row.plan)'
      BY <2>3, <2>6, <2>7 DEF IInv, Reviewed, Id
    <2>9. row'.plan <= row'.iteration
      BY <2>1, <2>3, Numbers DEF IInv
    <2>10. \A v \in Worker : Copy(v)'
      <3>1. \A v \in Worker : v # w => mem'[v] = mem[v] /\ mem[v].version < row'.version
        BY <2>3, Numbers DEF IInv, Copy, TypeOK
      <3>2. /\ mem'[w] = row' /\ pc'[w] = "idle"
            /\ \A v \in Worker : v # w => pc'[v] = pc[v]
            /\ row'.iteration \in Nat /\ row'.version \in Nat
        BY <2>3, Numbers DEF IInv, TypeOK
      <3>3. \A v \in Worker : mem'[v].version \in Nat
        BY <3>1, <3>2, Numbers DEF IInv
      <3>. QED  BY <3>1, <3>2, <3>3 DEF IInv, Copy, Fresh
    <2>11. Decidable'
      <3>1. Label(row.plan)' = Label(row.plan) /\ p \in Id'
        BY <2>1, <2>3, <2>7 DEF Label, Id
      <3>2. /\ proposals'[p].status = "pending" /\ proposals'[p].target = row'.iteration
            /\ proposals'[p].base = Label(row.plan)
            /\ proposals'[p].baseVersion <= row.version /\ proposals'[p].version = row'.version
        BY <2>1, <2>3, <2>7 DEF n
      <3>3. /\ row'.version = row.version + 1 /\ row.version \in Nat
            /\ row'.iteration \in Nat /\ proposals'[p].baseVersion \in Nat
        BY <2>1, <2>3, <2>7, Numbers DEF IInv
      <3>. QED  BY <2>3, <3>1, <3>2, <3>3 DEF Decidable
    <2>. QED  BY <2>8, <2>9, <2>10, <2>11 DEF IInv
  <1>. QED  BY <1>3, <1>4

LEMMA InitInv == Init => IInv
  <1>. SUFFICES ASSUME Init
                PROVE  IInv
    OBVIOUS
  <1>1. /\ row.version = 1 /\ row.iteration = 0 /\ row.plan = 0
        /\ \A w \in Worker : mem[w] = row /\ pc[w] = "idle"
        /\ task = "queued"
    BY DEF Init
  <1>2. \A w \in Worker : Copy(w)
    BY <1>1 DEF Copy, Fresh
  <1>. QED  BY <1>1, <1>2, InitType DEF IInv, Reviewed

LEMMA ClaimKeeps ==
    ASSUME IInv, TypeOK', NEW w \in Worker, Claim(w)
    PROVE  IInv'
  <1>1. CASE cancelling
    <2>1. row' = Finalized("cancelled") /\ "cancelled" \in Over /\ task' = "cancelled"
      BY <1>1 DEF Claim, Over
    <2>. QED  BY <1>1, <2>1, FinalizedKeeps DEF Claim
  <1>2. CASE ~cancelling
    <2>1. /\ task' = "running" /\ UNCHANGED <<row, proposals>>
          /\ mem'[w] = row /\ pc'[w] = "deciding"
          /\ \A v \in Worker : v # w => mem'[v] = mem[v] /\ pc'[v] = pc[v]
      BY <1>2 DEF Claim, IInv, TypeOK
    <2>2. \A v \in Worker : v # w => Copy(v)'
      BY <2>1 DEF IInv, Copy, Fresh, AtOwnGate, Id, Label
    <2>3. Copy(w)'
      BY <2>1, Numbers DEF IInv, Copy, Fresh
    <2>. QED  BY <2>1, <2>2, <2>3 DEF IInv, Reviewed, Id
  <1>. QED  BY <1>1, <1>2

(* The replan itself is in memory only. *)
LEMMA DecideKeeps ==
    ASSUME IInv, TypeOK', NEW w \in Worker, Decide(w)
    PROVE  IInv'
  <1>1. pc[w] = "deciding"
    BY DEF Decide
  <1>2. ASSUME NEW s \in {"failed", "completed"}, NEW place \in {"failing", "finished"},
               Checkpoint(w, [mem[w] EXCEPT !.status = s], place)
        PROVE  IInv'
    <2>. DEFINE copy == [mem[w] EXCEPT !.status = s]
    <2>0. mem[w] \in RunRecord /\ copy \in RunRecord
      BY CopyType DEF IInv, Over
    <2>1. /\ copy.status = s /\ copy.plan = mem[w].plan
          /\ copy.iteration = mem[w].iteration
      BY <2>0 DEF RunRecord
    <2>2. Checkpoint(w, copy, place)
      BY <1>2
    <2>. HIDE DEF copy
    <2>. QED  BY <1>1, <2>0, <2>1, <2>2, CheckpointKeeps DEF Places
  <1>3. ASSUME Checkpoint(w, [mem[w] EXCEPT !.status = "running", !.work = "running"],
                          "executing")
        PROVE  IInv'
    <2>. DEFINE copy == [mem[w] EXCEPT !.status = "running", !.work = "running"]
    <2>0. mem[w] \in RunRecord /\ copy \in RunRecord
      BY CopyType DEF IInv, Over
    <2>1. /\ copy.status = "running" /\ copy.plan = mem[w].plan
          /\ copy.iteration = mem[w].iteration
      BY <2>0 DEF RunRecord
    <2>2. Checkpoint(w, copy, "executing")
      BY <1>3
    <2>. HIDE DEF copy
    <2>. QED  BY <1>1, <2>0, <2>1, <2>2, CheckpointKeeps DEF Places
  <1>4. ASSUME mem[w].work = "broken", ~Exhausted(mem[w].iteration),
               mem' = [mem EXCEPT ![w].iteration = @ + 1, ![w].status = "running"],
               pc' = [pc EXCEPT ![w] = "proposing"],
               UNCHANGED <<task, row, proposals>>
        PROVE  IInv'
    <2>1. /\ \A v \in Worker : v # w => mem'[v] = mem[v] /\ pc'[v] = pc[v]
          /\ mem'[w].version = mem[w].version /\ mem'[w].plan = mem[w].plan
          /\ mem'[w].iteration = mem[w].iteration + 1
          /\ pc'[w] = "proposing"
      BY <1>4, ReplanType DEF IInv, TypeOK
    <2>2. mem'[w].work = "broken"
      BY <1>4 DEF IInv, TypeOK, RunRecord
    <2>3. \A v \in Worker : v # w => Copy(v)'
      <3>. SUFFICES ASSUME NEW v \in Worker, v # w
                    PROVE  Copy(v)'
        OBVIOUS
      <3>1. mem'[v] = mem[v] /\ pc'[v] = pc[v] /\ UNCHANGED <<task, row, proposals>>
        BY <1>4, <2>1
      <3>2. Copy(v)
        BY DEF IInv
      <3>. QED  BY <3>1, <3>2 DEF Copy, Fresh, AtOwnGate, Id, Label
    <2>4. Copy(w)'
      BY <1>1, <1>4, <2>1, <2>2, Numbers DEF IInv, Copy, Fresh
    <2>. QED  BY <1>4, <2>3, <2>4 DEF IInv, Reviewed, Id, Decidable, Label
  <1>. QED  BY <1>2, <1>3, <1>4 DEF Decide

LEMMA ExecuteKeeps ==
    ASSUME IInv, TypeOK', NEW w \in Worker, Execute(w)
    PROVE  IInv'
  <1>1. pc[w] = "executing" /\ mem[w].status = "running"
    BY DEF Execute, IInv, Copy
  <1>2. CASE Checkpoint(w, [mem[w] EXCEPT !.status = "completed", !.work = "done"], "finished")
    <2>. DEFINE copy == [mem[w] EXCEPT !.status = "completed", !.work = "done"]
    <2>0. mem[w] \in RunRecord /\ copy \in RunRecord
      BY CopyType DEF IInv, Over
    <2>1. /\ copy.status = "completed" /\ copy.plan = mem[w].plan
          /\ copy.iteration = mem[w].iteration
      BY <2>0 DEF RunRecord
    <2>2. Checkpoint(w, copy, "finished")
      BY <1>2
    <2>. HIDE DEF copy
    <2>. QED  BY <1>1, <2>0, <2>1, <2>2, CheckpointKeeps DEF Places
  <1>3. CASE Checkpoint(w, [mem[w] EXCEPT !.work = "broken"], "deciding")
    <2>. DEFINE copy == [mem[w] EXCEPT !.work = "broken"]
    <2>0. mem[w] \in RunRecord /\ copy \in RunRecord
      BY CopyType DEF IInv, Over
    <2>1. /\ copy.status = "running" /\ copy.plan = mem[w].plan
          /\ copy.iteration = mem[w].iteration
      BY <1>1, <2>0 DEF RunRecord
    <2>2. Checkpoint(w, copy, "deciding")
      BY <1>3
    <2>. HIDE DEF copy
    <2>. QED  BY <1>1, <2>0, <2>1, <2>2, CheckpointKeeps DEF Places
  <1>. QED  BY <1>2, <1>3 DEF Execute

LEMMA ReviewKeeps ==
    ASSUME IInv, TypeOK', NEW p \in Id, NEW expected, Approve(p, expected) \/ Reject(p, expected)
    PROVE  IInv'
  <1>1. /\ row'.version = row.version + 1 /\ Len(proposals') = Len(proposals)
        /\ \A q \in Id : /\ proposals'[q].target = proposals[q].target
                         /\ proposals[q].status = "applied"
                               => proposals'[q].status = "applied"
        /\ Approve(p, expected) =>
              /\ row'.plan = proposals[p].target /\ row'.iteration = proposals[p].target
              /\ proposals'[p].status = "applied"
        /\ Reject(p, expected) => row'.plan = row.plan /\ row'.iteration = row.iteration
        /\ task' = "queued" /\ UNCHANGED <<mem, pc>>
    BY ReviewDone DEF IInv
  <1>2. Reviewed(row.plan)'
    BY <1>1 DEF IInv, Reviewed, Id
  <1>3. row'.plan <= row'.iteration
    BY <1>1, Numbers DEF IInv
  <1>. QED  BY <1>1, <1>2, <1>3, Superseded

LEMMA NextInv == IInv /\ [Next]_vars => IInv'
  <1>. SUFFICES ASSUME IInv, [Next]_vars
                PROVE  IInv'
    OBVIOUS
  <1>0. TypeOK'
    BY NextType DEF IInv
  <1>1. ASSUME NEW w \in Worker, ProposeRefused(w)
        PROVE  IInv'
    BY <1>0, <1>1, RunKept DEF ProposeRefused, IInv, TypeOK
  <1>2. ASSUME NEW w \in Worker, Commit(w)
        PROVE  IInv'
    <2>1. \A v \in Worker : pc'[v] = pc[v] \/ pc'[v] \in {"idle", "failing"}
      BY <1>2 DEF Commit, IInv, TypeOK
    <2>2. CASE UNCHANGED <<task, row>>
      BY <1>0, <1>2, <2>1, <2>2, RunKept DEF Commit
    <2>3. CASE task' = "cancelled" /\ row' = Finalized("cancelled")
      BY <1>0, <1>2, <2>1, <2>3, FinalizedKeeps DEF Commit, Over
    <2>4. CASE task' = "completed" /\ row' = Finalized("completed")
      BY <1>0, <1>2, <2>1, <2>4, FinalizedKeeps DEF Commit, Over
    <2>. QED  BY <1>2, <2>2, <2>3, <2>4 DEF Commit
  <1>3. ASSUME NEW w \in Worker, Fail(w)
        PROVE  IInv'
    <2>1. \A v \in Worker : pc'[v] = pc[v] \/ pc'[v] \in {"idle", "failing"}
      BY <1>3 DEF Fail, IInv, TypeOK
    <2>2. CASE UNCHANGED <<task, row>>
      BY <1>0, <1>3, <2>1, <2>2, RunKept DEF Fail
    <2>3. ASSUME NEW s \in Over, task' = s, row' = Finalized(s)
          PROVE  IInv'
      BY <1>0, <1>3, <2>1, <2>3, FinalizedKeeps DEF Fail, Over
    <2>. QED  BY <1>3, <2>2, <2>3 DEF Fail, Over
  <1>4. ASSUME NEW w \in Worker, Crash(w)
        PROVE  IInv'
    BY <1>0, <1>4, RunKept DEF Crash, IInv, TypeOK
  <1>5. CASE Recover \/ LoseLease \/ Resume \/ Look
    BY <1>0, <1>5, RunKept DEF Recover, LoseLease, Requeue, Resume, Look
  <1>6. CASE Review
    <2>1. PICK p \in Id, expected \in Nat :
             Approve(p, expected) \/ Reject(p, expected)
      BY <1>6, ShownType DEF Review, IInv
    <2>. QED  BY <1>0, <2>1, ReviewKeeps
  <1>7. CASE ApproveTask
    <2>1. /\ task' = "queued" /\ UNCHANGED <<mem, pc, proposals>>
          /\ row' = [row EXCEPT !.approved = TRUE]
      BY <1>7 DEF ApproveTask
    <2>2. /\ row'.version = row.version /\ row'.plan = row.plan
          /\ row'.iteration = row.iteration
      BY <2>1 DEF IInv, TypeOK, RunRecord
    <2>3. \A w \in Worker : Copy(w)'
      BY <2>1, <2>2 DEF IInv, Copy, Fresh, AtOwnGate, Id, Label
    <2>. QED  BY <1>0, <2>1, <2>2, <2>3 DEF IInv, Reviewed, Id
  <1>8. CASE RejectTask
    <2>1. /\ task' = "user" /\ UNCHANGED <<mem, pc, proposals>>
          /\ row' = [row EXCEPT !.status = "paused", !.version = row.version + 1]
      BY <1>8 DEF RejectTask
    <2>2. /\ row'.version = row.version + 1 /\ row'.plan = row.plan
          /\ row'.iteration = row.iteration
      BY <2>1 DEF IInv, TypeOK, RunRecord
    <2>. QED  BY <1>0, <2>1, <2>2, Superseded DEF IInv, Reviewed, Id
  <1>9. CASE Cancel
    <2>1. CASE UNCHANGED row
      BY <1>0, <1>9, <2>1, RunKept DEF Cancel
    <2>2. CASE row' = Finalized("cancelled") /\ task' = "cancelled"
      BY <1>0, <1>9, <2>2, FinalizedKeeps DEF Cancel, Over
    <2>. QED  BY <1>9, <2>1, <2>2 DEF Cancel
  <1>10. CASE UNCHANGED vars
    BY <1>0, <1>10, RunKept DEF vars
  <1>. QED
    BY <1>0, <1>1, <1>2, <1>3, <1>4, <1>5, <1>6, <1>7, <1>8, <1>9, <1>10, ClaimKeeps,
       DecideKeeps, ExecuteKeeps, ProposeKeeps, GateKeeps DEF Next, Work, Rest

LEMMA Inductive == Spec => []IInv
  <1>. QED  BY InitInv, NextInv, PTL DEF Spec

-----------------------------------------------------------------------------
(* Whatever workers, crashes and reviewers do, the stored plan and every   *)
(* plan a worker could still store were reviewed                           *)
(* (RuntimePlanProposalService._apply is the only way a plan changes).     *)
THEOREM PlansReviewed == Spec => []PlanReviewed
  <1>1. IInv => PlanReviewed
    BY DEF IInv, PlanReviewed, Copy, Fresh
  <1>. QED  BY <1>1, Inductive, PTL

(* A task in review can be decided, also when the worker died between the  *)
(* proposal's transaction and its suspension checkpoint.                   *)
THEOREM ReviewsDecidable == Spec => []ReviewAnswerable
  <1>1. IInv => ReviewAnswerable
    <2>. SUFFICES ASSUME IInv, task = "review"
                  PROVE  /\ row.gate # NoProposal /\ AtGate(row.gate)
                         /\ Open(row.gate) /\ Current(row.gate, 0) /\ Fits(row.gate)
      BY DEF ReviewAnswerable
    <2>1. Decidable
      BY DEF IInv
    <2>2. row.gate \in Id /\ row.gate # NoProposal
      BY <2>1 DEF Decidable, Id, NoProposal
    <2>3. AtGate(row.gate) /\ Open(row.gate)
      BY <2>1 DEF Decidable, AtGate, Open, Over
    <2>4. Current(row.gate, 0)
      BY <2>1, <2>2, <2>3, Numbers DEF Decidable, Current, IInv
    <2>5. Fits(row.gate)
      BY <2>1, <2>2, Numbers DEF Decidable, Fits, IInv
    <2>. QED  BY <2>2, <2>3, <2>4, <2>5
  <1>. QED  BY <1>1, Inductive, PTL

-----------------------------------------------------------------------------
(* The action of IterationsSpent. *)
Spends == /\ row'.iteration >= row.iteration
          /\ row'.plan # row.plan => row'.plan > row.plan

LEMMA CheckpointSpends ==
    ASSUME IInv, NEW w \in Worker, NEW copy \in RunRecord, NEW place \in Places,
           NEW s \in {"running", "waiting", "paused"} \cup Over,
           NEW k \in {"open", "running", "broken", "done"},
           \/ copy = [mem[w] EXCEPT !.status = s]
           \/ copy = [mem[w] EXCEPT !.status = s, !.work = k]
           \/ copy = [mem[w] EXCEPT !.work = k],
           Checkpoint(w, copy, place)
    PROVE  Spends
  <1>1. copy.plan = mem[w].plan /\ copy.iteration = mem[w].iteration
    <2>1. mem[w] \in RunRecord
      BY DEF IInv, TypeOK
    <2>. QED  BY <2>1 DEF RunRecord
  <1>2. CASE row.version # mem[w].version
    BY <1>2, CheckpointRefused, Numbers DEF IInv, Spends
  <1>3. CASE row.version = mem[w].version
    <2>1. row'.iteration = mem[w].iteration /\ row'.plan = mem[w].plan
      BY <1>1, <1>3, CheckpointDone DEF IInv
    <2>2. mem[w].iteration >= row.iteration /\ mem[w].plan = row.plan
      BY <1>3 DEF IInv, Copy, Fresh
    <2>. QED  BY <2>1, <2>2 DEF Spends
  <1>. QED  BY <1>2, <1>3

LEMMA StepSpends == IInv /\ [Next]_vars => Spends
  <1>. SUFFICES ASSUME IInv, [Next]_vars
                PROVE  Spends
    OBVIOUS
  <1>0. row.iteration \in Nat /\ row.plan \in Nat /\ row.plan <= row.iteration
    BY Numbers DEF IInv
  <1>1. CASE UNCHANGED row
    BY <1>0, <1>1 DEF Spends
  <1>2. ASSUME NEW s \in Over, row' = Finalized(s)
        PROVE  Spends
    BY <1>0, <1>2, FinalizedType DEF IInv, Spends
  <1>3. ASSUME NEW w \in Worker, NEW s \in {"running", "waiting", "paused"} \cup Over,
               NEW place \in Places, Checkpoint(w, [mem[w] EXCEPT !.status = s], place)
        PROVE  Spends
    BY <1>3, CopyType, CheckpointSpends DEF IInv
  <1>4. ASSUME NEW w \in Worker, NEW s \in {"running", "waiting", "paused"} \cup Over,
               NEW k \in {"open", "running", "broken", "done"}, NEW place \in Places,
               Checkpoint(w, [mem[w] EXCEPT !.status = s, !.work = k], place)
        PROVE  Spends
    BY <1>4, CopyType, CheckpointSpends DEF IInv
  <1>5. ASSUME NEW w \in Worker, NEW k \in {"open", "running", "broken", "done"},
               NEW place \in Places, Checkpoint(w, [mem[w] EXCEPT !.work = k], place)
        PROVE  Spends
    BY <1>5, CopyType, CheckpointSpends DEF IInv
  <1>6. ASSUME NEW w \in Worker, Decide(w)
        PROVE  Spends
    BY <1>1, <1>3, <1>4, <1>6 DEF Decide, Places, Over
  <1>7. ASSUME NEW w \in Worker, Execute(w)
        PROVE  Spends
    BY <1>4, <1>5, <1>7 DEF Execute, Places, Over
  <1>8. ASSUME NEW w \in Worker, Gate(w)
        PROVE  Spends
    BY <1>3, <1>8 DEF Gate, Places
  <1>9. ASSUME NEW w \in Worker, Propose(w)
        PROVE  Spends
    <2>1. row'.iteration = row.iteration /\ row'.plan = row.plan
      BY <1>9, ProposeDone DEF IInv
    <2>. QED  BY <1>0, <2>1 DEF Spends
  <1>10. CASE Review
    <2>1. PICK p \in Id, expected \in Nat :
             Approve(p, expected) \/ Reject(p, expected)
      BY <1>10, ShownType DEF Review, IInv
    <2>2. /\ Approve(p, expected) => /\ row'.plan = proposals[p].target
                                     /\ row'.iteration = proposals[p].target
                                     /\ proposals[p].target >= row.iteration
          /\ Reject(p, expected) => row'.plan = row.plan /\ row'.iteration = row.iteration
          /\ proposals[p].target \in Nat
      BY <2>1, ReviewDone, Numbers DEF IInv
    <2>. QED  BY <1>0, <2>1, <2>2 DEF Spends
  <1>11. CASE ApproveTask \/ RejectTask
    <2>1. row \in RunRecord
      BY DEF IInv, TypeOK
    <2>2. row'.plan = row.plan /\ row'.iteration = row.iteration
      BY <1>11, <2>1 DEF ApproveTask, RejectTask, RunRecord
    <2>. QED  BY <1>0, <2>2 DEF Spends
  <1>12. \A s \in {"completed", "failed", "cancelled"} : s \in Over
    BY DEF Over
  <1>13. ASSUME NEW w \in Worker, Claim(w) \/ Commit(w) \/ Fail(w)
         PROVE  Spends
    BY <1>1, <1>2, <1>12, <1>13 DEF Claim, Commit, Fail
  <1>14. CASE Cancel
    BY <1>1, <1>2, <1>12, <1>14 DEF Cancel
  <1>15. ASSUME NEW w \in Worker, ProposeRefused(w) \/ Crash(w)
         PROVE  Spends
    BY <1>1, <1>15 DEF ProposeRefused, Crash
  <1>16. CASE Recover \/ LoseLease \/ Look \/ Resume \/ UNCHANGED vars
    BY <1>1, <1>16 DEF Recover, LoseLease, Requeue, Look, Resume, vars
  <1>. QED
    BY <1>6, <1>7, <1>8, <1>9, <1>10, <1>11, <1>13, <1>14, <1>15, <1>16
       DEF Next, Work, Rest

(* A run never gets iterations back, and a new plan is never an older one: *)
(* whatever is approved, in whatever order, replanning comes to an end.    *)
THEOREM IterationsNeverReturn == Spec => IterationsSpent
  <1>1. IInv /\ [Next]_vars
           => [/\ row'.iteration >= row.iteration
               /\ row'.plan # row.plan => row'.plan > row.plan]_vars
    BY StepSpends DEF Spends
  <1>. QED  BY <1>1, Inductive, PTL DEF Spec, IterationsSpent

-----------------------------------------------------------------------------
(***************************************************************************)
(* Screens.  While a worker is about to suspend on a proposal, whoever has *)
(* read that proposal has read the stored version: it was made in the      *)
(* transaction that gave the run this version.  Hence the screen trails by *)
(* one at most when the suspension checkpoint comes.                       *)
(***************************************************************************)
ScreenInv ==
    /\ screen[1] \in 0 .. Len(proposals)
    /\ \A w \in Worker :
          Fresh(w) /\ pc[w] = "gating" /\ screen[1] = mem[w].gate => screen[2] = row.version

(* A step after which nobody has come to a gate or read a screen.          *)
Onward ==
    /\ row'.version \in {row.version, row.version + 1}
    /\ UNCHANGED screen /\ Len(proposals') \in Nat /\ Len(proposals') >= Len(proposals)
    /\ \A w \in Worker : pc'[w] = "gating" => pc[w] = "gating" /\ mem'[w] = mem[w]

(* The action of ScreenHonoured.                                           *)
Honours ==
    \A p \in Id : AtGate(p) /\ AtGate(p)' /\ pc' # pc
        /\ Current(p, Shown(p)) => Current(p, Shown(p))'

LEMMA OnwardScreen ==
    ASSUME IInv, ScreenInv, Onward
    PROVE  ScreenInv'
  <1>1. row.version \in Nat /\ \A w \in Worker : mem[w].version \in Nat
    BY Numbers DEF IInv
  <1>2. \A w \in Worker : mem[w].version <= row.version
    BY DEF IInv, Copy
  <1>3. Len(proposals) \in Nat
    BY TypedIs DEF IInv, Typed
  <1>4. ASSUME NEW w \in Worker, Fresh(w)', pc'[w] = "gating", screen'[1] = mem'[w].gate
        PROVE  screen'[2] = row'.version
    <2>1. mem'[w] = mem[w] /\ pc[w] = "gating" /\ screen' = screen
      BY <1>4 DEF Onward
    <2>2. row'.version = row.version /\ Fresh(w)
      BY <1>1, <1>2, <1>4, <2>1 DEF Onward, Fresh
    <2>. QED BY <1>4, <2>1, <2>2 DEF ScreenInv
  <1>. QED BY <1>3, <1>4 DEF ScreenInv, Onward

(* What leaves the run and the proposals alone is no matter for a screen,  *)
(* nor is what takes the run out of its gate.                              *)
LEMMA SameRun ==
    ASSUME UNCHANGED <<row, proposals, screen>>
    PROVE  Honours
  BY DEF Honours, Current, Shown, AtGate

LEMMA LeftGate ==
    ASSUME row'.status # "waiting" \/ row'.gate \notin Id
    PROVE  Honours
  BY DEF Honours, AtGate

LEMMA CheckpointHonours ==
    ASSUME IInv, NEW w \in Worker, NEW copy \in RunRecord, NEW place \in Places \ {"gating"},
           copy.status # "waiting", Checkpoint(w, copy, place), UNCHANGED screen
    PROVE  Onward /\ Honours
  <1>0. proposals \in Seq(ProposalRecord) /\ Len(proposals) \in Nat /\ row.version \in Nat
    BY TypedIs, Numbers DEF IInv, Typed
  <1>1. CASE row.version # mem[w].version
    BY <1>0, <1>1, CheckpointRefused, SameRun DEF IInv, TypeOK, Onward
  <1>2. CASE row.version = mem[w].version
    <2>1. /\ row'.version = row.version + 1 /\ row'.status = copy.status
          /\ row' \in RunOf(Len(proposals))
          /\ mem' = [mem EXCEPT ![w] = row']
          /\ proposals' = Sync(row'.gate, row'.version)
          /\ pc' = [pc EXCEPT ![w] = place]
      BY <1>2, CheckpointDone DEF IInv
    <2>2. row'.gate \in 0 .. Len(proposals) /\ row'.version \in Nat
      BY <2>1 DEF RunOf
    <2>3. Len(proposals') = Len(proposals)
      BY <1>0, <2>1, <2>2, SyncDone
    <2>4. \A v \in Worker : pc'[v] = "gating" => pc[v] = "gating" /\ mem'[v] = mem[v]
      BY <2>1 DEF IInv, TypeOK
    <2>. QED BY <1>0, <2>1, <2>3, <2>4, LeftGate DEF Onward
  <1>. QED BY <1>1, <1>2

(* The suspension, one version after the proposal.                         *)
LEMMA GateHonours ==
    ASSUME IInv, ScreenInv, NEW w \in Worker, Gate(w)
    PROVE  Onward /\ Honours
  <1>. DEFINE copy == [mem[w] EXCEPT !.status = "waiting"]
  <1>0. /\ proposals \in Seq(ProposalRecord) /\ Len(proposals) \in Nat
        /\ row.version \in Nat /\ screen' = screen
        /\ pc[w] = "gating" /\ Checkpoint(w, copy, "idle") /\ "idle" \in Places
    BY TypedIs, Numbers DEF IInv, Typed, Gate, Places
  <1>1. copy \in RunRecord /\ copy.status = "waiting" /\ copy.gate = mem[w].gate
    <2>1. mem[w] \in RunRecord /\ copy \in RunRecord
      BY CopyType DEF IInv
    <2>. QED BY <2>1 DEF RunRecord
  <1>. HIDE DEF copy
  <1>2. CASE row.version # mem[w].version
    <2>1. pc' = [pc EXCEPT ![w] = "failing"] /\ UNCHANGED <<row, mem, proposals>>
      BY <1>0, <1>2, CheckpointRefused DEF IInv
    <2>2. \A v \in Worker : pc'[v] = "gating" => pc[v] = "gating"
      BY <2>1 DEF IInv, TypeOK
    <2>. QED BY <1>0, <2>1, <2>2, SameRun DEF Onward
  <1>3. CASE row.version = mem[w].version
    <2>. DEFINE g == mem[w].gate
    <2>1. g \in Id /\ proposals[g].status = "pending"
      BY <1>0, <1>3 DEF IInv, Copy, Fresh, AtOwnGate
    <2>2. /\ row'.version = row.version + 1 /\ row'.gate = g
          /\ mem' = [mem EXCEPT ![w] = row']
          /\ proposals' = Sync(row'.gate, row'.version)
          /\ pc' = [pc EXCEPT ![w] = "idle"]
      BY <1>0, <1>1, <1>3, <2>1, CheckpointDone DEF IInv, Id, NoProposal
    <2>3. g \in 0 .. Len(proposals) /\ row'.version \in Nat
      BY <1>0, <2>1, <2>2 DEF Id
    <2>4. Len(proposals') = Len(proposals) /\ proposals'[g].version = row'.version
      <3>1. proposals' = Sync(g, row'.version)
        BY <2>2
      <3>. HIDE DEF g
      <3>. QED BY <1>0, <2>1, <2>3, <3>1, SyncDone
    <2>5. Onward
      <3>1. \A v \in Worker : pc'[v] = "gating" => pc[v] = "gating" /\ mem'[v] = mem[v]
        BY <2>2 DEF IInv, TypeOK
      <3>. QED BY <1>0, <2>2, <2>4, <3>1 DEF Onward
    <2>6. ASSUME NEW p \in Id, AtGate(p)'
          PROVE  Current(p, Shown(p))'
      <3>1. p = g
        BY <2>2, <2>6 DEF AtGate
      <3>2. Shown(p)' \in {0, row.version}
        BY <1>0, <1>3, <3>1 DEF Shown, ScreenInv, Fresh
      <3>. QED BY <1>0, <2>2, <2>4, <2>6, <3>1, <3>2 DEF Current
    <2>. QED BY <2>5, <2>6 DEF Honours
  <1>. QED BY <1>2, <1>3

LEMMA StepScreen == IInv /\ ScreenInv /\ [Next]_vars => ScreenInv' /\ Honours
  <1>. SUFFICES ASSUME IInv, ScreenInv, [Next]_vars
                PROVE  ScreenInv' /\ Honours
    OBVIOUS
  <1>0. /\ proposals \in Seq(ProposalRecord) /\ Len(proposals) \in Nat /\ row.version \in Nat
        /\ pc \in [Worker -> Places] /\ DOMAIN mem = Worker
    BY TypedIs, Numbers DEF IInv, Typed, RunOf
  <1>1. ASSUME NEW w \in Worker, NEW s \in Over, row' = Finalized(s),
               UNCHANGED <<proposals, screen, mem>>,
               \A v \in Worker : pc'[v] = "gating" => pc[v] = "gating"
        PROVE  Onward /\ Honours
    <2>1. row'.version = row.version + 1 /\ row'.status # "waiting"
      BY <1>1, FinalizedType DEF IInv, Over
    <2>. QED BY <1>0, <1>1, <2>1, LeftGate DEF Onward
  <1>2. ASSUME NEW w \in Worker, UNCHANGED <<row, proposals, screen>>,
               \A v \in Worker : pc'[v] = "gating" => pc[v] = "gating" /\ mem'[v] = mem[v]
        PROVE  Onward /\ Honours
    BY <1>0, <1>2, SameRun DEF Onward
  <1>3. \A s \in {"completed", "failed", "cancelled"} : s \in Over
    BY DEF Over
  <1>4. ASSUME NEW w \in Worker, Claim(w)
        PROVE  Onward /\ Honours
    BY <1>0, <1>1, <1>2, <1>3, <1>4 DEF Claim
  <1>5. ASSUME NEW w \in Worker, Decide(w)
        PROVE  Onward /\ Honours
    <2>1. ASSUME NEW s \in {"failed", "completed"}, NEW place \in {"failing", "finished"},
                 Checkpoint(w, [mem[w] EXCEPT !.status = s], place)
          PROVE  Onward /\ Honours
      <3>. DEFINE copy == [mem[w] EXCEPT !.status = s]
      <3>0. mem[w] \in RunRecord /\ copy \in RunRecord
        BY CopyType, <1>3 DEF IInv
      <3>1. copy.status = s
        BY <3>0 DEF RunRecord
      <3>2. Checkpoint(w, copy, place) /\ UNCHANGED screen
        BY <1>5, <2>1 DEF Decide
      <3>. HIDE DEF copy
      <3>. QED BY <3>0, <3>1, <3>2, CheckpointHonours DEF Places
    <2>2. ASSUME Checkpoint(w, [mem[w] EXCEPT !.status = "running", !.work = "running"],
                            "executing")
          PROVE  Onward /\ Honours
      <3>. DEFINE copy == [mem[w] EXCEPT !.status = "running", !.work = "running"]
      <3>0. mem[w] \in RunRecord /\ copy \in RunRecord
        BY CopyType DEF IInv
      <3>1. copy.status = "running"
        BY <3>0 DEF RunRecord
      <3>2. Checkpoint(w, copy, "executing") /\ UNCHANGED screen
        BY <1>5, <2>2 DEF Decide
      <3>. HIDE DEF copy
      <3>. QED BY <3>0, <3>1, <3>2, CheckpointHonours DEF Places
    <2>3. ASSUME mem' = [mem EXCEPT ![w].iteration = @ + 1, ![w].status = "running"],
                 pc' = [pc EXCEPT ![w] = "proposing"],
                 UNCHANGED <<task, row, proposals>>
          PROVE  Onward /\ Honours
      <3>1. \A v \in Worker : pc'[v] = "gating" => pc[v] = "gating" /\ mem'[v] = mem[v]
        BY <1>0, <2>3
      <3>. QED BY <1>2, <1>5, <2>3, <3>1 DEF Decide
    <2>. QED BY <1>5, <2>1, <2>2, <2>3 DEF Decide
  <1>6. ASSUME NEW w \in Worker, Execute(w)
        PROVE  Onward /\ Honours
    <2>0. mem[w] \in RunRecord /\ mem[w].status = "running" /\ UNCHANGED screen
      BY <1>6, CopyType DEF IInv, Copy, Execute
    <2>1. CASE Checkpoint(w, [mem[w] EXCEPT !.status = "completed", !.work = "done"], "finished")
      <3>. DEFINE copy == [mem[w] EXCEPT !.status = "completed", !.work = "done"]
      <3>0. copy \in RunRecord
        BY CopyType, <1>3 DEF IInv
      <3>1. copy.status = "completed"
        BY <2>0 DEF RunRecord
      <3>2. Checkpoint(w, copy, "finished")
        BY <2>1
      <3>. HIDE DEF copy
      <3>. QED BY <2>0, <3>0, <3>1, <3>2, CheckpointHonours DEF Places
    <2>2. CASE Checkpoint(w, [mem[w] EXCEPT !.work = "broken"], "deciding")
      <3>. DEFINE copy == [mem[w] EXCEPT !.work = "broken"]
      <3>0. copy \in RunRecord
        BY CopyType DEF IInv
      <3>1. copy.status = "running"
        BY <2>0 DEF RunRecord
      <3>2. Checkpoint(w, copy, "deciding")
        BY <2>2
      <3>. HIDE DEF copy
      <3>. QED BY <2>0, <3>0, <3>1, <3>2, CheckpointHonours DEF Places
    <2>. QED BY <1>6, <2>1, <2>2 DEF Execute
  <1>7. ASSUME NEW w \in Worker, Propose(w)
        PROVE  ScreenInv' /\ Honours
    <2>. DEFINE n == Len(proposals) + 1
    <2>1. /\ Len(proposals') = n /\ row'.gate = n /\ row'.version = row.version + 1
          /\ mem'[w].gate = n
          /\ \A v \in Worker : v # w => mem'[v] = mem[v]
      BY <1>7, ProposeDone DEF IInv
    <2>2. screen' = screen
      BY <1>7 DEF Propose
    <2>3. screen[1] # n /\ screen[1] \in 0 .. n /\ n \notin Id
      BY <1>0 DEF ScreenInv, Id
    <2>4. ASSUME NEW v \in Worker, Fresh(v)', screen'[1] = mem'[v].gate
          PROVE  FALSE
      <3>1. CASE v = w
        BY <2>1, <2>2, <2>3, <2>4, <3>1
      <3>2. CASE v # w
        <4>1. mem[v].version <= row.version /\ mem[v].version \in Nat
          BY Numbers DEF IInv, Copy
        <4>. QED BY <1>0, <2>1, <2>4, <3>2, <4>1 DEF Fresh
      <3>. QED BY <3>1, <3>2
    <2>5. ScreenInv'
      BY <2>1, <2>2, <2>3, <2>4 DEF ScreenInv
    <2>. QED BY <2>1, <2>3, <2>5, LeftGate
  <1>8. ASSUME NEW w \in Worker, ProposeRefused(w) \/ Crash(w)
        PROVE  Onward /\ Honours
    BY <1>0, <1>2, <1>8 DEF ProposeRefused, Crash
  <1>9. ASSUME NEW w \in Worker, Commit(w) \/ Fail(w)
        PROVE  Onward /\ Honours
    <2>1. /\ UNCHANGED <<mem, proposals, screen>>
          /\ \A v \in Worker : pc'[v] = "gating" => pc[v] = "gating"
      BY <1>0, <1>9 DEF Commit, Fail
    <2>2. UNCHANGED row \/ \E s \in Over : row' = Finalized(s)
      BY <1>3, <1>9 DEF Commit, Fail
    <2>. QED BY <1>1, <1>2, <2>1, <2>2
  <1>10. CASE Recover \/ LoseLease \/ Resume \/ Cancel \/ UNCHANGED vars
    <2>1. UNCHANGED <<mem, pc, proposals, screen>>
      BY <1>10 DEF Recover, LoseLease, Requeue, Resume, Cancel, vars
    <2>2. row'.version \in {row.version, row.version + 1}
      BY <1>3, <1>10, FinalizedType DEF Recover, LoseLease, Requeue, Resume, Cancel, vars, IInv
    <2>3. Onward
      BY <1>0, <2>1, <2>2 DEF Onward
    <2>. QED BY <2>1, <2>3, OnwardScreen DEF Honours
  <1>11. CASE Look
    <2>1. UNCHANGED <<row, mem, pc, proposals>> /\ row.gate # NoProposal
      BY <1>11 DEF Look
    <2>2. \/ screen' = <<row.gate, row.version>>
          \/ screen' = <<row.gate, proposals[row.gate].version>>
      BY <1>11 DEF Look
    <2>3. screen'[1] \in 0 .. Len(proposals)
      BY <2>2, TypedIs DEF IInv, Typed, RunOf
    <2>4. ASSUME NEW w \in Worker, Fresh(w), pc[w] = "gating", screen'[1] = mem[w].gate
          PROVE  screen'[2] = row.version
      <3>1. proposals[mem[w].gate].version = row.version
        BY <2>4 DEF IInv, Copy, AtOwnGate
      <3>. QED BY <2>2, <2>4, <3>1
    <2>5. ScreenInv'
      BY <2>1, <2>3, <2>4 DEF ScreenInv, Fresh
    <2>. QED BY <2>1, <2>5 DEF Honours
  <1>12. CASE Review
    <2>1. PICK p \in Id, expected \in Nat :
             Approve(p, expected) \/ Reject(p, expected)
      BY <1>12, ShownType DEF Review, IInv
    <2>2. Onward /\ UNCHANGED pc
      BY <1>0, <2>1, ReviewDone DEF Onward, IInv
    <2>. QED BY <2>2, OnwardScreen DEF Honours
  <1>13. CASE ApproveTask \/ RejectTask
    <2>1. row \in RunRecord
      BY DEF IInv, TypeOK
    <2>2. row'.version \in {row.version, row.version + 1}
      BY <1>13, <2>1 DEF ApproveTask, RejectTask, RunRecord
    <2>3. UNCHANGED <<mem, pc, proposals, screen>>
      BY <1>13 DEF ApproveTask, RejectTask
    <2>4. Onward
      BY <1>0, <2>2, <2>3 DEF Onward
    <2>. QED BY <2>3, <2>4, OnwardScreen DEF Honours
  <1>. QED
    BY <1>4, <1>5, <1>6, <1>7, <1>8, <1>9, <1>10, <1>11, <1>12, <1>13, OnwardScreen,
       GateHonours DEF Next, Work, Rest

(* The version a reviewer has on the screen stays good through the steps   *)
(* of any worker while the run is at the gate of the proposal: decide      *)
(* accepts what trails by the one suspension checkpoint, and no more than  *)
(* one comes (runtime_plan_proposals.py, decide).                          *)
THEOREM ScreensHonoured == Spec => ScreenHonoured
  <1>1. Init => ScreenInv
    BY DEF Init, ScreenInv, NoProposal
  <1>2. IInv /\ ScreenInv /\ [Next]_vars => ScreenInv'
    BY StepScreen
  <1>3. IInv /\ ScreenInv /\ [Next]_vars
           => [\A p \in Id : AtGate(p) /\ AtGate(p)' /\ pc' # pc
                  /\ Current(p, Shown(p)) => Current(p, Shown(p))']_vars
    BY StepScreen DEF Honours
  <1>. QED  BY <1>1, <1>2, <1>3, Inductive, PTL DEF Spec, ScreenHonoured

=============================================================================
