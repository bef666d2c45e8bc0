------------------------- MODULE RuntimeExecutor_proofs -------------------------
(***************************************************************************)
(* Theorems about RuntimeExecutor, for every plan, handler table, budget   *)
(* and set of workers.  First the plan: what settling does to it.  Then    *)
(* the types, and that a side effect is called once.  Then the history of  *)
(* a run: what its checkpoints never take back, what its grants and its    *)
(* budget pay for, and how it ends.  The last rest on one another's        *)
(* strengthenings and on the type invariant.                               *)
(***************************************************************************)
EXTENDS RuntimeExecutor, FiniteSetTheorems, TLAPS

-----------------------------------------------------------------------------
(* The plan.                                                               *)

(* A set of natural numbers has a least element: the sets 0 .. x are       *)
(* finite, and strict inclusion is well-founded on finite sets.            *)
LEMMA LeastNatural ==
    ASSUME NEW S \in SUBSET Nat, S # {}
    PROVE  \E x \in S : \A y \in S : x <= y
  <1> DEFINE T == {0 .. x : x \in S}
  <1>1. T \subseteq FiniteSubsetsOf(Nat) /\ T # {}
    <2>1. ASSUME NEW x \in S PROVE 0 .. x \in FiniteSubsetsOf(Nat)
      <3>1. IsFiniteSet(0 .. x) /\ 0 .. x \subseteq Nat
        BY FS_Interval
      <3>. QED BY <3>1 DEF FiniteSubsetsOf
    <2>. QED BY <2>1
  <1>2. IsWellFoundedOn(StrictSubsetOrdering(Nat), FiniteSubsetsOf(Nat))
    BY FS_StrictSubsetOrderingWellFounded
  <1> HIDE DEF T
  <1>3. PICK I \in T : \A J \in T : ~ (<<J, I>> \in StrictSubsetOrdering(Nat))
    BY <1>1, <1>2, WFMin
  <1>4. PICK x \in S : I = 0 .. x
    BY DEF T
  <1>5. ASSUME NEW y \in S, y < x PROVE FALSE
    <2>1. 0 .. y \in T
      BY DEF T
    <2>2. 0 .. y \subseteq 0 .. x /\ x \in 0 .. x /\ x \notin 0 .. y /\ 0 .. x \subseteq Nat
      BY <1>5
    <2>3. <<0 .. y, I>> \in StrictSubsetOrdering(Nat)
      BY <1>4, <2>2 DEF StrictSubsetOrdering
    <2>. QED BY <1>3, <2>1, <2>3
  <1>. QED BY <1>5

(***************************************************************************)
(* Settlements are what the blocking loop computes (UnreachableNodes).     *)
(* Here: there is one, so that the actions that settle a run take their    *)
(* step whatever its plan and statuses are.  Of the assignments in which   *)
(* everything settled is justified, one with the fewest open nodes has     *)
(* nothing left to settle.                                                 *)
(***************************************************************************)
MustBlock(n, f) == Activation[n] = "all_succeeded" /\ \E d \in DependsOn[n] : f[d] \in Broken

MustSkip(n, f) == /\ Activation[n] = "any_failed"
                  /\ \A d \in DependsOn[n] : f[d] \in Terminal \ Broken

Justified(n, st, f) ==
    \/ f[n] = st[n]
    \/ st[n] \in Open /\ f[n] = "blocked" /\ MustBlock(n, f)
    \/ st[n] \in Open /\ f[n] = "skipped" /\ MustSkip(n, f)

StillOpen(f) == {n \in Node : f[n] \in Open}

LEMMA PlanShape ==
    /\ IsFiniteSet(Node) /\ Node \subseteq Nat
    /\ \A n \in Node : DependsOn[n] \subseteq Node
    /\ \E rank \in [Node -> Node] :
          \A n \in Node : \A d \in DependsOn[n] : rank[d] < rank[n]
  <1>1. NodeCount \in Nat
    BY PlanValid DEF PlanAssumption
  <1>2. IsFiniteSet(Node) /\ Node \subseteq Nat
    BY <1>1, FS_Interval DEF Node
  <1>. QED BY <1>2, PlanValid DEF PlanAssumption

(* Settling one more node keeps what was settled justified.                *)
LEMMA SettleOneMore ==
    ASSUME NEW st \in [Node -> NodeStatus], NEW f \in [Node -> NodeStatus],
           \A n \in Node : Justified(n, st, f), NEW k \in Node, f[k] \in Open,
           NEW verdict, NEW g, g = [f EXCEPT ![k] = verdict],
           (verdict = "blocked" /\ MustBlock(k, f)) \/ (verdict = "skipped" /\ MustSkip(k, f))
    PROVE  /\ g \in [Node -> NodeStatus]
           /\ \A n \in Node : Justified(n, st, g)
           /\ Cardinality(StillOpen(g)) < Cardinality(StillOpen(f))
           /\ Cardinality(StillOpen(g)) \in Nat
  <1>1. g \in [Node -> NodeStatus]
    BY DEF NodeStatus, Terminal
  <1>2. g[k] = verdict /\ \A n \in Node : n # k => g[n] = f[n]
    OBVIOUS
  <1>3. st[k] \in Open
    BY DEF Justified, Open
  <1>4. \A n \in Node : (MustBlock(n, f) => MustBlock(n, g)) /\ (MustSkip(n, f) => MustSkip(n, g))
    <2> TAKE n \in Node
    <2>1. \A d \in DependsOn[n] : f[d] \notin Open => g[d] = f[d]
      BY <1>2, PlanShape
    <2>. QED BY <2>1 DEF MustBlock, MustSkip, Open, Broken, Terminal
  <1>5. \A n \in Node : Justified(n, st, g)
    BY <1>2, <1>3, <1>4 DEF Justified
  <1>6. StillOpen(g) = StillOpen(f) \ {k} /\ k \in StillOpen(f) /\ IsFiniteSet(StillOpen(f))
    <2>1. IsFiniteSet(StillOpen(f))
      BY PlanShape, FS_Subset DEF StillOpen
    <2>. QED BY <1>2, <2>1 DEF StillOpen, Open
  <1>7. /\ Cardinality(StillOpen(g)) = Cardinality(StillOpen(f)) - 1
        /\ IsFiniteSet(StillOpen(g))
    BY <1>6, FS_RemoveElement
  <1>8. Cardinality(StillOpen(g)) \in Nat /\ Cardinality(StillOpen(f)) \in Nat
    BY <1>6, <1>7, FS_CardinalityType
  <1>9. Cardinality(StillOpen(g)) < Cardinality(StillOpen(f))
    BY <1>7, <1>8
  <1>. QED BY <1>1, <1>5, <1>8, <1>9

(* A settlement assigns every node the verdict of the settlement itself.  *)
LEMMA SettlementIs ==
    ASSUME NEW st \in [Node -> NodeStatus], NEW f
    PROVE  f \in Settlements(st) <=> /\ f \in [Node -> NodeStatus]
                                   /\ \A n \in Node : f[n] = Verdict(n, st, f)
  <1>1. ASSUME f \in Settlements(st)
        PROVE  f \in [Node -> NodeStatus] /\ \A n \in Node : f[n] = Verdict(n, st, f)
    <2>1. PICK S \in SUBSET OpenNodes(st) : f = Closing(st, S)
      BY <1>1 DEF Settlements
    <2>2. Closing(st, S) \in [Node -> NodeStatus]
      BY DEF Closing, NodeStatus, Terminal
    <2>. QED BY <1>1, <2>1, <2>2 DEF Settlements
  <1>2. ASSUME f \in [Node -> NodeStatus], \A n \in Node : f[n] = Verdict(n, st, f)
        PROVE  f \in Settlements(st)
    <2> DEFINE S == {n \in Node : f[n] # st[n]}
    <2>1. \A n \in S : /\ st[n] \in Open
                      /\ f[n] = IF Activation[n] = "any_failed" THEN "skipped" ELSE "blocked"
      BY <1>2 DEF Verdict
    <2>2. S \in SUBSET OpenNodes(st)
      BY <2>1 DEF OpenNodes
    <2>3. f = Closing(st, S)
      BY <1>2, <2>1 DEF Closing
    <2> HIDE DEF S
    <2>. QED BY <1>2, <2>2, <2>3 DEF Settlements
  <1>. QED BY <1>1, <1>2

LEMMA SettlementExists ==
    ASSUME NEW st \in [Node -> NodeStatus]
    PROVE  Settlements(st) # {}
  <1> DEFINE J == {f \in [Node -> NodeStatus] : \A n \in Node : Justified(n, st, f)}
             C == {Cardinality(StillOpen(f)) : f \in J}
  <1>1. st \in J
    BY DEF Justified
  <1>2. \A f \in J : Cardinality(StillOpen(f)) \in Nat
    <2> TAKE f \in J
    <2>1. IsFiniteSet(StillOpen(f))
      BY PlanShape, FS_Subset DEF StillOpen
    <2>. QED BY <2>1, FS_CardinalityType
  <1>3. C \in SUBSET Nat /\ C # {}
    BY <1>1, <1>2
  <1>4. PICK c \in C : \A d \in C : c <= d
    <2> HIDE DEF C
    <2>. QED BY <1>3, LeastNatural
  <1>5. PICK f \in J : c = Cardinality(StillOpen(f))
    BY <1>4
  <1>6. /\ f \in [Node -> NodeStatus] /\ \A n \in Node : Justified(n, st, f)
        /\ \A g \in [Node -> NodeStatus] : (\A n \in Node : Justified(n, st, g))
              => Cardinality(StillOpen(f)) <= Cardinality(StillOpen(g))
    BY <1>4, <1>5
  <1> HIDE DEF J, C
  <1>7. ASSUME NEW n \in Node, f[n] \in Open
        PROVE  ~MustBlock(n, f) /\ ~MustSkip(n, f)
    <2> SUFFICES ASSUME NEW verdict,
                        \/ verdict = "blocked" /\ MustBlock(n, f)
                        \/ verdict = "skipped" /\ MustSkip(n, f)
                 PROVE  FALSE
      OBVIOUS
    <2> DEFINE g == [f EXCEPT ![n] = verdict]
    <2>1. /\ g \in [Node -> NodeStatus] /\ \A k \in Node : Justified(k, st, g)
          /\ Cardinality(StillOpen(g)) < Cardinality(StillOpen(f))
          /\ Cardinality(StillOpen(g)) \in Nat
      BY <1>6, <1>7, SettleOneMore
    <2>2. Cardinality(StillOpen(f)) <= Cardinality(StillOpen(g))
      BY <1>6, <2>1
    <2>3. Cardinality(StillOpen(f)) \in Nat
      BY <1>2, <1>5
    <2> HIDE DEF g
    <2>. QED BY <2>1, <2>2, <2>3
  <1>8. \A n \in Node : f[n] = Verdict(n, st, f)
    <2> TAKE n \in Node
    <2>1. Justified(n, st, f) /\ (f[n] \in Open => ~MustBlock(n, f) /\ ~MustSkip(n, f))
      BY <1>6, <1>7
    <2>2. MustBlock(n, f) => ~MustSkip(n, f)
      BY DEF MustBlock, MustSkip
    <2>. QED BY <2>1, <2>2 DEF Verdict, Justified, MustBlock, MustSkip, Open
  <1>. QED BY <1>6, <1>8, SettlementIs

(* Two settlements agree: of the nodes where they differ one has the least *)
(* rank, and both gave it the verdict of the same dependencies.            *)
LEMMA SettlementUnique ==
    ASSUME NEW st \in [Node -> NodeStatus],
           NEW f \in Settlements(st), NEW g \in Settlements(st)
    PROVE  f = g
  <1>1. PICK rank \in [Node -> Node] :
           \A n \in Node : \A d \in DependsOn[n] : rank[d] < rank[n]
    BY PlanShape
  <1>2. /\ f = [n \in Node |-> f[n]] /\ g = [n \in Node |-> g[n]]
        /\ \A n \in Node : f[n] = Verdict(n, st, f) /\ g[n] = Verdict(n, st, g)
    BY SettlementIs
  <1> SUFFICES ASSUME NEW m \in Node, f[m] # g[m] PROVE FALSE
    BY <1>2
  <1> DEFINE R == {rank[n] : n \in {k \in Node : f[k] # g[k]}}
  <1>3. R \in SUBSET Nat /\ R # {}
    BY PlanShape
  <1>4. PICK r \in R : \A s \in R : r <= s
    <2> HIDE DEF R
    <2>. QED BY <1>3, LeastNatural
  <1>5. PICK n \in Node : r = rank[n] /\ f[n] # g[n]
    BY <1>4
  <1>6. ASSUME NEW d \in DependsOn[n], f[d] # g[d] PROVE FALSE
    <2>1. d \in Node /\ rank[d] < rank[n]
      BY <1>1, PlanShape
    <2>2. rank[d] \in R
      BY <1>6, <2>1
    <2>3. rank[n] <= rank[d] /\ rank[n] \in Nat /\ rank[d] \in Nat
      BY <1>4, <1>5, <2>1, <2>2, PlanShape
    <2>. QED BY <2>1, <2>3
  <1>7. Verdict(n, st, f) = Verdict(n, st, g)
    BY <1>6 DEF Verdict
  <1>. QED BY <1>2, <1>5, <1>7

(* block_unreachable_nodes has one result, whatever the statuses: the      *)
(* settlement the executor's steps choose exists and leaves no choice.     *)
THEOREM SettlementDetermined ==
    \A st \in [Node -> NodeStatus] :
        \E final \in [Node -> NodeStatus] : Settlements(st) = {final}
  <1> TAKE st \in [Node -> NodeStatus]
  <1>1. PICK final : final \in Settlements(st)
    BY SettlementExists
  <1>2. final \in [Node -> NodeStatus]
    BY <1>1, SettlementIs
  <1>. QED BY <1>1, <1>2, SettlementUnique

(* A settled plan is never stuck: while a node waits and none is ready,    *)
(* running or ended PARTIAL, a waiting node may start.  The executor's     *)
(* error that a plan has no executable ready node (executor.py 98) needs a *)
(* node of those.                                                          *)
THEOREM SettledNotStuck ==
    \A st \in [Node -> NodeStatus] : \A final \in Settlements(st) :
        (\A n \in Node : final[n] \notin {"ready", "running", "partial"})
            /\ (\E n \in Node : final[n] = "pending") => ReadyNodes(final) # {}
  <1> TAKE st \in [Node -> NodeStatus]
  <1> TAKE final \in Settlements(st)
  <1> SUFFICES ASSUME \A n \in Node : final[n] \notin {"ready", "running", "partial"},
                      NEW m \in Node, final[m] = "pending"
               PROVE  ReadyNodes(final) # {}
    OBVIOUS
  <1>1. PICK rank \in [Node -> Node] :
           \A n \in Node : \A d \in DependsOn[n] : rank[d] < rank[n]
    BY PlanShape
  <1>2. /\ \A n \in Node : final[n] \in NodeStatus
        /\ \A n \in Node : final[n] = Verdict(n, st, final)
    BY SettlementIs
  <1> DEFINE R == {rank[n] : n \in {k \in Node : final[k] = "pending"}}
  <1>3. R \in SUBSET Nat /\ R # {}
    BY PlanShape
  <1>4. PICK r \in R : \A s \in R : r <= s
    <2> HIDE DEF R
    <2>. QED BY <1>3, LeastNatural
  <1>5. PICK n \in Node : r = rank[n] /\ final[n] = "pending"
    BY <1>4
  <1>6. ASSUME NEW d \in DependsOn[n] PROVE final[d] \in Terminal \ {"partial"}
    <2>1. d \in Node /\ rank[d] < rank[n]
      BY <1>1, PlanShape
    <2>2. final[d] # "pending"
      <3> SUFFICES ASSUME final[d] = "pending" PROVE FALSE
        OBVIOUS
      <3>1. rank[d] \in R
        BY <2>1
      <3>2. rank[n] <= rank[d] /\ rank[n] \in Nat /\ rank[d] \in Nat
        BY <1>4, <1>5, <2>1, <3>1, PlanShape
      <3>. QED BY <2>1, <3>2
    <2>. QED BY <1>2, <2>1, <2>2 DEF NodeStatus, Terminal
  <1>7. ActivationSatisfied(n, final)
    <2>1. Verdict(n, st, final) = "pending" /\ st[n] \in Open
      BY <1>2, <1>5 DEF Verdict, Open
    <2>2. Activation[n] \in {"all_succeeded", "any_failed", "always"}
      BY PlanValid DEF PlanAssumption
    <2>3. CASE Activation[n] = "all_succeeded"
      <3>1. \A d \in DependsOn[n] : final[d] \notin Broken
        BY <2>1, <2>3 DEF Verdict
      <3>. QED BY <1>6, <2>3, <3>1 DEF ActivationSatisfied, Terminal, Broken, Achieved
    <2>4. CASE Activation[n] = "any_failed"
      <3>1. ~ \A d \in DependsOn[n] : final[d] \in Terminal \ Broken
        BY <2>1, <2>4 DEF Verdict
      <3>. QED BY <1>6, <2>4, <3>1 DEF ActivationSatisfied
    <2>5. CASE Activation[n] = "always"
      BY <1>6, <2>5 DEF ActivationSatisfied
    <2>. QED BY <2>2, <2>3, <2>4, <2>5
  <1>. QED BY <1>5, <1>7 DEF ReadyNodes

-----------------------------------------------------------------------------
(* The types, and side effects called once.                                *)

(* The nodes of a plan are finitely many, so sets of them have a size. *)
LEMMA NodesCountable ==
    ASSUME NEW S \in SUBSET Node
    PROVE  IsFiniteSet(S) /\ Cardinality(S) \in Nat
  <1>1. IsFiniteSet(Node)
    BY PlanValid, FS_Interval DEF PlanAssumption, Node
  <1>. QED
    BY <1>1, FS_Subset, FS_CardinalityType

LEMMA MarkReadyType ==
    ASSUME NEW st \in [Node -> NodeStatus], NEW allowed
    PROVE  MarkReady(st, allowed) \in [Node -> NodeStatus]
  BY DEF MarkReady, NodeStatus

LEMMA SettlementsType ==
    ASSUME NEW st \in [Node -> NodeStatus], NEW final \in Settlements(st)
    PROVE  final \in [Node -> NodeStatus]
  BY SettlementIs

(* Neither a settlement nor mark_ready puts a node back to work. *)
LEMMA SettlingOffersNoMore ==
    ASSUME NEW st \in [Node -> NodeStatus], NEW final \in Settlements(st), NEW allowed,
           NEW n \in Node
    PROVE  /\ final[n] \in Open => st[n] \in Open
           /\ MarkReady(st, allowed)[n] \in Open => st[n] \in Open
  <1>1. final[n] = Verdict(n, st, final)
    BY SettlementIs
  <1>2. final[n] \in Open => st[n] \in Open
    BY <1>1 DEF Verdict, Open
  <1>3. MarkReady(st, allowed)[n] \in Open => st[n] \in Open
    BY DEF MarkReady, ReadyNodes, Open
  <1>. QED BY <1>2, <1>3

LEMMA RefreshType ==
    ASSUME NEW st, NEW old \in RunStatus
    PROVE  RefreshRunStatus(st, old) \in RunStatus
  BY DEF RefreshRunStatus, RunStatus

LEMMA NewRunType ==
    ASSUME NEW status \in RunStatus
    PROVE  NewRun(status) \in Run
  BY ExecutorValid DEF ExecutorAssumption, NewRun, Run, NodeStatus, Scope

LEMMA MergedType ==
    ASSUME TypeOK, NEW m \in Run
    PROVE  Merged(m) \in Run
  BY DEF TypeOK, Merged, Run, Scope

LEMMA FinalizedType ==
    ASSUME NEW m \in Run, NEW status \in RunStatus
    PROVE  Finalized(m, status) \in Run
  BY DEF Finalized, Run, NodeStatus, Terminal, Open

(* What a checkpoint leaves behind is well typed if what it saves is. *)
CoreType ==
    /\ run \in Run
    /\ control \in [request : {"none", "pause"}, grant : Scope]
    /\ task \in [status : TaskStatus, owner : Worker \cup {NoWorker, Gone},
                 leased : BOOLEAN]
    /\ current \in SUBSET Worker
    /\ pc \in [Worker -> Pcs]
    /\ mem \in [Worker -> Run]

LEMMA StoreRowType ==
    ASSUME NEW m \in Run, StoreRow(m)
    PROVE  run' \in Run /\ control' \in [request : {"none", "pause"}, grant : Scope]
  BY DEF StoreRow, Run

LEMMA ForgetType ==
    ASSUME TypeOK, NEW w \in Worker, Forget(w)
    PROVE  mem' \in [Worker -> Run]
  BY NewRunType DEF TypeOK, Forget, RunStatus

LEMMA CheckpointType ==
    ASSUME TypeOK, NEW w \in Worker, NEW m \in Run, NEW next \in Pcs,
           Checkpoint(w, m, next)
    PROVE  CoreType'
  <1>1. CASE w \in current
    <2>1. Merged(m) \in Run
      BY MergedType
    <2>2. StoreRow(Merged(m))
      BY <1>1 DEF Checkpoint
    <2>3. run' \in Run /\ control' \in [request : {"none", "pause"}, grant : Scope]
      BY <2>1, <2>2, StoreRowType
    <2>4. Projected(m.status) \in TaskStatus
      BY DEF Projected, TypeOK, TaskStatus
    <2>5. task' \in [status : TaskStatus, owner : Worker \cup {NoWorker, Gone},
                     leased : BOOLEAN]
      BY <1>1, <2>4 DEF Checkpoint, TypeOK
    <2>6. mem' \in [Worker -> Run] /\ current' \in SUBSET Worker
      <3>1. CASE next \in {"idle", "failing"}
        BY <1>1, <3>1, ForgetType DEF Checkpoint
      <3>2. CASE next \notin {"idle", "failing"}
        BY <1>1, <2>1, <3>2 DEF Checkpoint, TypeOK
      <3>. QED BY <3>1, <3>2
    <2>7. pc' \in [Worker -> Pcs]
      BY <1>1 DEF Checkpoint, TypeOK
    <2>. QED BY <2>3, <2>5, <2>6, <2>7 DEF CoreType
  <1>2. CASE w \notin current
    BY <1>2, ForgetType DEF Checkpoint, TypeOK, CoreType, durable, Pcs
  <1>. QED BY <1>1, <1>2

LEMMA LocallyType ==
    ASSUME TypeOK, NEW w \in Worker, NEW m \in Run, NEW next \in Pcs,
           Locally(w, m, next)
    PROVE  CoreType'
  BY DEF TypeOK, CoreType, Locally, durable

(* The variables a checkpoint does not touch. *)
AuxType ==
    /\ selected \in [Worker -> SUBSET Node]
    /\ batch \in [Worker -> SUBSET Node]
    /\ todo \in [Worker -> SUBSET Node]
    /\ denied \in [Worker -> SUBSET Node]
    /\ faults \in Nat
    /\ invoked \in [Node -> Nat]
    /\ credit \in [Handler -> Int]
    /\ consumed \in [Pool -> Nat]
    /\ inherited \in [Pool -> Nat]

LEMMA TypeParts ==
    (CoreType /\ AuxType => TypeOK) /\ (CoreType' /\ AuxType' => TypeOK')
  BY DEF TypeOK, CoreType, AuxType

LEMMA InitType == Init => TypeOK
  <1> SUFFICES ASSUME Init PROVE TypeOK
    OBVIOUS
  <1>1. NewRun("absent") \in Run
    BY NewRunType DEF RunStatus
  <1>2. CoreType
    BY <1>1 DEF Init, CoreType, Scope, TaskStatus, Pcs
  <1>3. AuxType
    BY DEF Init, AuxType
  <1>. QED BY <1>2, <1>3, TypeParts

LEMMA ClaimType ==
    ASSUME TypeOK, NEW w \in Worker, Claim(w)
    PROVE  TypeOK'
  <1> DEFINE stored == [run EXCEPT !.status = IF @ = "absent" THEN "created" ELSE @]
  <1>1. stored \in Run
    BY DEF TypeOK, Run, RunStatus
  <1>2. [stored EXCEPT !.request = control.request, !.grant = control.grant] \in Run
    BY <1>1 DEF TypeOK, Run
  <1>3. /\ run' = stored /\ current' = current \cup {w}
        /\ mem' = [mem EXCEPT ![w] = [stored EXCEPT !.request = control.request,
                                                    !.grant = control.grant]]
    BY DEF Claim, StartOrRestore
  <1>4. task' = [status |-> "running", owner |-> w, leased |-> TRUE]
        /\ pc' = [pc EXCEPT ![w] = "control"]
        /\ UNCHANGED <<control, working, faults, invoked, credit, consumed>>
    BY DEF Claim, MarkRunning
  <1>5. run' \in Run /\ mem' \in [Worker -> Run]
    BY <1>1, <1>2, <1>3 DEF TypeOK
  <1>6. CoreType'
    BY <1>3, <1>4, <1>5 DEF TypeOK, CoreType, TaskStatus, Pcs
  <1>7. inherited' \in [Pool -> Nat]
    <2> DEFINE Found(p) == {n \in Inflight(run) : MayReplay(n) /\ PoolOf[n] = p}
    <2>1. inherited' = [p \in Pool |-> inherited[p] + Cardinality(Found(p))]
      BY DEF Claim
    <2>2. \A p \in Pool : Found(p) \in SUBSET Node
      BY DEF Inflight
    <2> HIDE DEF Found
    <2>3. \A p \in Pool : inherited[p] + Cardinality(Found(p)) \in Nat
      BY <2>2, NodesCountable DEF TypeOK
    <2>. QED BY <2>1, <2>3
  <1>8. AuxType'
    BY <1>4, <1>7 DEF TypeOK, AuxType, working
  <1>. QED BY <1>6, <1>8, TypeParts

LEMMA ControlType ==
    ASSUME TypeOK, NEW w \in Worker, ConsultControl(w) \/ Verify(w)
    PROVE  TypeOK'
  <1>1. mem[w] \in Run
    BY DEF TypeOK
  <1>2. [mem[w] EXCEPT !.status = "paused", !.asked = NoHandler] \in Run
    BY <1>1 DEF Run, RunStatus, Scope
  <1>3. CoreType'
    <2>1. CASE Verify(w)
      BY <1>1, <2>1, CheckpointType DEF Verify, Pcs
    <2>2. CASE ConsultControl(w) /\ control.request = "pause"
      BY <1>2, <2>2, CheckpointType DEF ConsultControl, Pcs
    <2>3. CASE ConsultControl(w) /\ control.request # "pause"
      BY <1>1, <2>3, LocallyType DEF ConsultControl, Pcs
    <2>. QED BY <2>1, <2>2, <2>3
  <1>4. AuxType'
    BY DEF ConsultControl, Verify, TypeOK, AuxType, working, history
  <1>. QED BY <1>3, <1>4, TypeParts

LEMMA DecideType ==
    ASSUME TypeOK, NEW w \in Worker,
           DecideFail(w) \/ DecideFinish(w) \/ DecideExecute(w)
    PROVE  TypeOK'
  <1>1. mem[w] \in Run
    BY DEF TypeOK
  <1>2. ASSUME NEW status \in RunStatus
        PROVE  [mem[w] EXCEPT !.status = status, !.asked = NoHandler] \in Run
    BY <1>1, <1>2 DEF Run, Scope
  <1>3. CASE DecideFail(w)
    <2>1. CoreType'
      BY <1>2, <1>3, CheckpointType DEF DecideFail, Pcs, RunStatus
    <2>2. AuxType'
      BY <1>3 DEF DecideFail, TypeOK, AuxType, working, history
    <2>. QED BY <2>1, <2>2, TypeParts
  <1>4. CASE DecideFinish(w)
    <2>1. CoreType'
      BY <1>2, <1>4, CheckpointType DEF DecideFinish, Pcs, RunStatus
    <2>2. AuxType'
      BY <1>4 DEF DecideFinish, TypeOK, AuxType, working, history
    <2>. QED BY <2>1, <2>2, TypeParts
  <1>5. CASE DecideExecute(w)
    <2> DEFINE named == IF Provider = "goal" THEN Node ELSE Observed(mem[w])
               opened == [n \in Node |-> IF n \in named /\ mem[w].node[n] = "pending"
                                         THEN "ready" ELSE mem[w].node[n]]
               m == [mem[w] EXCEPT !.status = "running", !.asked = NoHandler,
                                   !.node = opened]
    <2>1. named \in SUBSET Node
      BY DEF Observed, Unachieved
    <2>2. opened \in [Node -> NodeStatus]
      BY <1>1 DEF Run, NodeStatus
    <2> HIDE DEF opened
    <2>3. m \in Run
      BY <1>1, <2>2 DEF Run, RunStatus, Scope
    <2>4. Locally(w, m, "enter")
      BY <1>5 DEF DecideExecute, opened
    <2>5. CoreType'
      BY <2>3, <2>4, LocallyType DEF Pcs
    <2>6. selected' = [selected EXCEPT ![w] = named]
          /\ UNCHANGED <<batch, todo, denied, faults, history>>
      BY <1>5 DEF DecideExecute
    <2>7. AuxType'
      BY <2>1, <2>6 DEF TypeOK, AuxType, history
    <2>. QED BY <2>5, <2>7, TypeParts
  <1>. QED BY <1>3, <1>4, <1>5

LEMMA RecoveringType ==
    ASSUME TypeOK, NEW w \in Worker
    PROVE  Recovering(w) \in Run
  <1>1. mem[w] \in Run
    BY DEF TypeOK
  <1>2. [n \in Node |-> IF n \in Replayable(w) THEN "ready" ELSE mem[w].node[n]]
            \in [Node -> NodeStatus]
    BY <1>1 DEF Run, NodeStatus
  <1>3. Replayable(w) \subseteq Node /\ Interrupted(w) \subseteq Node
    BY DEF Replayable, Interrupted, Inflight
  <1>. QED BY <1>1, <1>2, <1>3 DEF Recovering, Run

(* What entering the executor leaves in memory, saved or not: recovery's   *)
(* run, its newly satisfied nodes marked and its unreachable ones settled. *)
LEMMA EnterSaves ==
    ASSUME TypeOK, NEW w \in Worker, PauseForReconciliation(w) \/ Prepare(w)
    PROVE  \E m \in Run :
              /\ \A n \in Node : m.node[n] \in Open => Recovering(w).node[n] \in Open
              /\ Checkpoint(w, m, "idle") \/ Checkpoint(w, m, "loop") \/ Locally(w, m, "loop")
  <1>1. Recovering(w) \in Run
    BY RecoveringType
  <1>2. CASE PauseForReconciliation(w)
    <2> DEFINE m == [Recovering(w) EXCEPT !.status = "paused", !.asked = NoHandler]
    <2>1. m \in Run /\ m.node = Recovering(w).node
      BY <1>1 DEF Run, RunStatus, Scope
    <2>2. Checkpoint(w, m, "idle")
      BY <1>2 DEF PauseForReconciliation
    <2>. QED BY <2>1, <2>2
  <1>3. CASE Prepare(w)
    <2> DEFINE marked == MarkReady(Recovering(w).node, selected[w])
               M(final) == [Recovering(w) EXCEPT
                              !.node = final,
                              !.status = IF final # marked
                                         THEN RefreshRunStatus(final, "running")
                                         ELSE "running"]
    <2>1. marked \in [Node -> NodeStatus]
      BY <1>1, MarkReadyType DEF Run
    <2>2. PICK final \in Settlements(marked) :
             IF final # Recovering(w).node THEN Checkpoint(w, M(final), "loop")
             ELSE Locally(w, M(final), "loop")
      BY <1>3 DEF Prepare
    <2>3. final \in [Node -> NodeStatus]
      BY <2>1, SettlementsType
    <2>4. (IF final # marked THEN RefreshRunStatus(final, "running") ELSE "running")
             \in RunStatus
      BY RefreshType DEF RunStatus
    <2>5. M(final) \in Run /\ M(final).node = final
      BY <1>1, <2>3, <2>4 DEF Run
    <2>6. \A n \in Node : marked[n] \in Open => Recovering(w).node[n] \in Open
      BY DEF MarkReady, ReadyNodes, Open
    <2>7. \A n \in Node : final[n] \in Open => marked[n] \in Open
      BY <2>1, SettlingOffersNoMore
    <2> HIDE DEF M, marked
    <2>. QED BY <2>2, <2>5, <2>6, <2>7
  <1>. QED BY <1>2, <1>3

LEMMA EnterType ==
    ASSUME TypeOK, NEW w \in Worker, PauseForReconciliation(w) \/ Prepare(w)
    PROVE  TypeOK'
  <1>1. CoreType'
    BY EnterSaves, CheckpointType, LocallyType DEF Pcs
  <1>2. AuxType'
    BY DEF PauseForReconciliation, Prepare, TypeOK, AuxType, working, history
  <1>. QED BY <1>1, <1>2, TypeParts

LEMMA ReturnType ==
    ASSUME TypeOK, NEW w \in Worker, ReturnToController(w) \/ RequestApproval(w)
    PROVE  TypeOK'
  <1>1. mem[w] \in Run
    BY DEF TypeOK
  <1>2. CASE ReturnToController(w)
    <2>1. CoreType'
      BY <1>1, <1>2, LocallyType DEF ReturnToController, Pcs
    <2>2. AuxType'
      BY <1>2 DEF ReturnToController, TypeOK, AuxType, history
    <2>. QED BY <2>1, <2>2, TypeParts
  <1>3. CASE RequestApproval(w)
    <2>1. PICK n \in Node :
             Checkpoint(w, [mem[w] EXCEPT !.status = "waiting_approval",
                                          !.asked = HandlerOf[n],
                                          !.grant = NoHandler], "idle")
      BY <1>3 DEF RequestApproval
    <2>2. HandlerOf[n] \in Scope
      BY ExecutorValid DEF ExecutorAssumption, Scope
    <2>3. [mem[w] EXCEPT !.status = "waiting_approval", !.asked = HandlerOf[n],
                         !.grant = NoHandler] \in Run
      BY <1>1, <2>2 DEF Run, RunStatus, Scope
    <2>4. CoreType'
      BY <2>1, <2>3, CheckpointType DEF Pcs
    <2>5. AuxType'
      BY <1>3 DEF RequestApproval, TypeOK, AuxType, history
    <2>. QED BY <2>4, <2>5, TypeParts
  <1>. QED BY <1>2, <1>3

LEMMA ChargedCount ==
    ASSUME NEW S \in SUBSET Node, NEW p, NEW replay
    PROVE  Cardinality(Charged(S, p, replay)) \in Nat
  <1>1. Charged(S, p, replay) \in SUBSET Node
    BY DEF Charged
  <1>. QED BY <1>1, NodesCountable

(* What StartBatch saves: the nodes it chose among the startable ones run. *)
LEMMA StartSaves ==
    ASSUME TypeOK, NEW w \in Worker, NEW lead \in {0} \cup Node, StartBatch(w, lead)
    PROVE  \E chosen \in SUBSET Startable(w), refused \in SUBSET Node, started \in Run :
              /\ started.node = [n \in Node |-> IF n \in chosen THEN "running"
                                                ELSE mem[w].node[n]]
              /\ Checkpoint(w, started, "dispatch")
              /\ \/ /\ w \in current
                    /\ batch' = [batch EXCEPT ![w] = chosen]
                    /\ todo' = [todo EXCEPT ![w] = chosen \ refused]
                    /\ denied' = [denied EXCEPT ![w] = refused]
                 \/ w \notin current /\ UNCHANGED <<batch, todo, denied>>
              /\ UNCHANGED <<selected, faults, history>>
  <1> DEFINE m == mem[w]
             eligible == IF lead = 0 THEN Startable(w)
                         ELSE {lead} \cup (Startable(w) \ Privileged(w))
             chosen == {n \in eligible :
                          Cardinality(Ahead(eligible, lead, n)) < MaxParallelism}
             refused == {n \in chosen \ m.replay :
                           /\ PoolOf[n] # "none"
                           /\ m.calls[PoolOf[n]] + Cardinality(
                                Charged(Ahead(chosen, lead, n), PoolOf[n], m.replay))
                                >= MaxCalls[PoolOf[n]]}
             node == [n \in Node |-> IF n \in chosen THEN "running" ELSE m.node[n]]
             attempt == [n \in Node |-> IF n \in chosen
                           THEN Lower(m.attempt[n] + 1, MaxRetries + 1) ELSE m.attempt[n]]
             calls == [p \in Pool |-> m.calls[p] +
                         Cardinality(Charged(chosen \ refused, p, m.replay))]
             grant == IF lead = 0 THEN m.grant ELSE NoHandler
             started == [m EXCEPT !.status = "running", !.node = node,
                           !.attempt = attempt, !.replay = @ \ chosen,
                           !.calls = calls, !.grant = grant]
  <1>1. m \in Run
    BY DEF TypeOK
  <1>2. chosen \subseteq Startable(w) /\ chosen \subseteq Node
    <2>1. lead # 0 => lead \in Startable(w)
      BY DEF StartBatch, First, Granted, Privileged
    <2>2. eligible \subseteq Startable(w) /\ Startable(w) \subseteq Node
      BY <2>1 DEF Startable, Ready
    <2>. QED BY <2>2
  <1>3. node \in [Node -> NodeStatus]
    BY <1>1 DEF Run, NodeStatus
  <1>4. attempt \in [Node -> 0 .. MaxRetries + 1]
    <2> SUFFICES ASSUME NEW n \in Node PROVE attempt[n] \in 0 .. MaxRetries + 1
      OBVIOUS
    <2>1. MaxRetries \in Nat /\ m.attempt[n] \in 0 .. MaxRetries + 1
      BY <1>1, ExecutorValid DEF ExecutorAssumption, Run
    <2>. QED BY <2>1 DEF Lower
  <1>5. refused \subseteq chosen
    OBVIOUS
  <1>6. calls \in [Pool -> Nat]
    <2> SUFFICES ASSUME NEW p \in Pool PROVE calls[p] \in Nat
      OBVIOUS
    <2>1. chosen \ refused \in SUBSET Node
      BY <1>2
    <2>2. Cardinality(Charged(chosen \ refused, p, m.replay)) \in Nat
      BY <2>1, ChargedCount
    <2>3. m.calls[p] \in Nat
      BY <1>1 DEF Run
    <2>. QED BY <2>2, <2>3
  <1>7. grant \in Scope
    BY <1>1 DEF Run, Scope
  <1>8. /\ Checkpoint(w, started, "dispatch")
        /\ \/ /\ w \in current
              /\ batch' = [batch EXCEPT ![w] = chosen]
              /\ todo' = [todo EXCEPT ![w] = chosen \ refused]
              /\ denied' = [denied EXCEPT ![w] = refused]
           \/ w \notin current /\ UNCHANGED <<batch, todo, denied>>
        /\ UNCHANGED <<selected, faults, history>>
    BY DEF StartBatch
  <1> HIDE DEF chosen, refused, node, attempt, calls, grant
  <1>9. started \in Run /\ started.node = node
    BY <1>1, <1>3, <1>4, <1>6, <1>7 DEF Run, RunStatus
  <1> HIDE DEF started
  <1>10. started.node = [n \in Node |-> IF n \in chosen THEN "running"
                                        ELSE mem[w].node[n]]
    BY <1>9 DEF node
  <1>. QED BY <1>2, <1>5, <1>8, <1>9, <1>10

LEMMA StartType ==
    ASSUME TypeOK, NEW w \in Worker, NEW lead \in {0} \cup Node, StartBatch(w, lead)
    PROVE  TypeOK'
  <1>1. PICK chosen \in SUBSET Startable(w), refused \in SUBSET Node, started \in Run :
           /\ started.node = [n \in Node |-> IF n \in chosen THEN "running"
                                             ELSE mem[w].node[n]]
           /\ Checkpoint(w, started, "dispatch")
           /\ \/ /\ w \in current
                 /\ batch' = [batch EXCEPT ![w] = chosen]
                 /\ todo' = [todo EXCEPT ![w] = chosen \ refused]
                 /\ denied' = [denied EXCEPT ![w] = refused]
              \/ w \notin current /\ UNCHANGED <<batch, todo, denied>>
           /\ UNCHANGED <<selected, faults, history>>
    BY StartSaves
  <1>2. CoreType'
    BY <1>1, CheckpointType DEF Pcs
  <1>3. chosen \in SUBSET Node
    BY DEF Startable, Ready
  <1>4. AuxType'
    BY <1>1, <1>3 DEF TypeOK, AuxType, history
  <1>. QED BY <1>2, <1>4, TypeParts

LEMMA LeaveType ==
    ASSUME TypeOK, NEW w \in Worker, DeadlineExceeded(w) \/ RefuseResult(w)
    PROVE  TypeOK'
  <1>1. /\ pc' = [pc EXCEPT ![w] = "failing"] /\ Forget(w)
        /\ current' = current \ {w} /\ UNCHANGED <<durable, working, faults, history>>
    BY DEF DeadlineExceeded, RefuseResult
  <1>2. CoreType'
    BY <1>1, ForgetType DEF TypeOK, CoreType, durable, Pcs
  <1>3. AuxType'
    BY <1>1 DEF TypeOK, AuxType, working, history
  <1>. QED BY <1>2, <1>3, TypeParts

LEMMA InvokeType ==
    ASSUME TypeOK, NEW w \in Worker, NEW n \in Node, Invoke(w, n)
    PROVE  TypeOK'
  <1>1. HandlerOf[n] \in Handler
    BY ExecutorValid DEF ExecutorAssumption
  <1>2. CoreType'
    BY DEF Invoke, TypeOK, CoreType, durable
  <1>3. consumed' \in [Pool -> Nat]
    BY DEF Invoke, TypeOK
  <1>4. /\ invoked' = [invoked EXCEPT ![n] = @ + 1]
        /\ credit' = [credit EXCEPT ![HandlerOf[n]] = @ - 1]
    BY DEF Invoke
  <1>5. invoked' \in [Node -> Nat]
    BY <1>4 DEF TypeOK
  <1>6. credit' \in [Handler -> Int]
    BY <1>1, <1>4 DEF TypeOK
  <1>7. AuxType'
    BY <1>3, <1>5, <1>6 DEF Invoke, TypeOK, AuxType
  <1>. QED BY <1>2, <1>7, TypeParts

(* What a call may do to its node. *)
LEMMA AfterResultType ==
    ASSUME NEW m, NEW n, NEW result \in Outcomes \cup {"error"}
    PROVE  AfterResult(m, n, result) \in {"succeeded", "partial", "skipped", "failed", "ready"}
  BY ExecutorValid DEF ExecutorAssumption, AfterResult

(* What Collect saves: the results of the batch, settled and marked.  A    *)
(* node of the batch keeps what its call gave unless it has to be retried. *)
LEMMA CollectSaves ==
    ASSUME TypeOK, NEW w \in Worker, Collect(w)
    PROVE  \E applied \in [Node -> NodeStatus] : \E final \in Settlements(applied) :
           \E saved \in Run :
              /\ \A n \in Node :
                    \/ n \notin batch[w] \cup denied[w] /\ applied[n] = mem[w].node[n]
                    \/ \E r \in Outcomes \cup {"error"} :
                          applied[n] = AfterResult(mem[w], n, r)
              /\ saved.node = MarkReady(final, Node)
              /\ Checkpoint(w, saved, "loop")
  <1> DEFINE m == mem[w]
             Applied(result) ==
               [n \in Node |-> IF n \in denied[w] THEN AfterResult(m, n, "error")
                               ELSE IF n \in batch[w] THEN AfterResult(m, n, result[n])
                               ELSE m.node[n]]
             M(final) == [m EXCEPT !.node = MarkReady(final, Node),
                                   !.status = RefreshRunStatus(final, "running"),
                                   !.stuck = @ \ batch[w],
                                   !.replay = @ \ batch[w]]
  <1>1. m \in Run
    BY DEF TypeOK
  <1>2. PICK result \in [batch[w] \ denied[w] -> Outcomes] :
           \E final \in Settlements(Applied(result)) : Checkpoint(w, M(final), "loop")
    BY DEF Collect
  <1>3. Applied(result) \in [Node -> NodeStatus]
    <2> SUFFICES ASSUME NEW n \in Node PROVE Applied(result)[n] \in NodeStatus
      OBVIOUS
    <2>1. CASE n \in denied[w]
      BY <2>1, AfterResultType DEF NodeStatus, Terminal
    <2>2. CASE n \notin denied[w] /\ n \in batch[w]
      <3>1. AfterResult(m, n, result[n]) \in NodeStatus
        BY <2>2, AfterResultType DEF NodeStatus, Terminal
      <3>. QED BY <2>2, <3>1
    <2>3. CASE n \notin denied[w] /\ n \notin batch[w]
      BY <1>1, <2>3 DEF Run
    <2>. QED BY <2>1, <2>2, <2>3
  <1>4. PICK final \in Settlements(Applied(result)) : Checkpoint(w, M(final), "loop")
    BY <1>2
  <1>5. final \in [Node -> NodeStatus]
    BY <1>3, SettlementsType
  <1>6. MarkReady(final, Node) \in [Node -> NodeStatus]
    BY <1>5, MarkReadyType
  <1>7. RefreshRunStatus(final, "running") \in RunStatus
    BY RefreshType DEF RunStatus
  <1>8. M(final) \in Run /\ M(final).node = MarkReady(final, Node)
    BY <1>1, <1>6, <1>7 DEF Run
  <1>9. \A n \in Node :
           \/ n \notin batch[w] \cup denied[w] /\ Applied(result)[n] = m.node[n]
           \/ \E r \in Outcomes \cup {"error"} : Applied(result)[n] = AfterResult(m, n, r)
    OBVIOUS
  <1> HIDE DEF M, Applied
  <1>. QED BY <1>3, <1>4, <1>8, <1>9

LEMMA CollectType ==
    ASSUME TypeOK, NEW w \in Worker, Collect(w)
    PROVE  TypeOK'
  <1>1. PICK saved \in Run : Checkpoint(w, saved, "loop")
    BY CollectSaves
  <1>2. CoreType'
    BY <1>1, CheckpointType DEF Pcs
  <1>3. AuxType'
    BY DEF Collect, TypeOK, AuxType, history
  <1>. QED BY <1>2, <1>3, TypeParts

LEMMA EndType ==
    ASSUME TypeOK, NEW w \in Worker, Finish(w) \/ FailTask(w)
    PROVE  TypeOK'
  <1>1. /\ Finalized(mem[w], "completed") \in Run
        /\ Finalized(run, "failed") \in Run
    BY FinalizedType DEF TypeOK, RunStatus
  <1>2. CASE Finish(w)
    <2>1. mem' \in [Worker -> Run]
      BY <1>2, ForgetType DEF Finish
    <2>2. CASE w \in current
      <3>1. run' \in Run /\ control' \in [request : {"none", "pause"}, grant : Scope]
        BY <1>1, <1>2, <2>2, StoreRowType DEF Finish
      <3>2. CoreType'
        BY <1>2, <2>1, <2>2, <3>1 DEF Finish, TypeOK, CoreType, TaskStatus, Pcs
      <3>. QED BY <3>2, <1>2, TypeParts DEF Finish, TypeOK, AuxType, working, history
    <2>3. CASE w \notin current
      <3>1. CoreType'
        BY <1>2, <2>1, <2>3 DEF Finish, TypeOK, CoreType, durable, Pcs
      <3>. QED BY <3>1, <1>2, TypeParts DEF Finish, TypeOK, AuxType, working, history
    <2>. QED BY <2>2, <2>3
  <1>3. CASE FailTask(w)
    <2>1. mem' \in [Worker -> Run]
      BY <1>3, ForgetType DEF FailTask
    <2>2. AuxType'
      BY <1>3 DEF FailTask, TypeOK, AuxType, history
    <2>3. CASE task.status = "completed"
      BY <1>3, <2>1, <2>2, <2>3, TypeParts DEF FailTask, TypeOK, CoreType, durable, Pcs
    <2>4. CASE task.status # "completed"
      <3>1. run' \in Run /\ control' \in [request : {"none", "pause"}, grant : Scope]
        BY <1>1, <1>3, <2>4, StoreRowType DEF FailTask
      <3>2. CoreType'
        BY <1>3, <2>1, <2>4, <3>1 DEF FailTask, TypeOK, CoreType, TaskStatus, Pcs
      <3>. QED BY <2>2, <3>2, TypeParts
    <2>. QED BY <2>3, <2>4
  <1>. QED BY <1>2, <1>3

LEMMA FaultType ==
    ASSUME TypeOK,
           \/ \E w \in Worker : Crash(w) \/ RecoverTask(w)
           \/ LeaseLapses \/ HeartbeatFails
    PROVE  TypeOK'
  <1>1. ASSUME NEW w \in Worker, Crash(w) PROVE TypeOK'
    <2>1. mem' \in [Worker -> Run]
      BY <1>1, ForgetType DEF Crash
    <2>2. CoreType'
      BY <1>1, <2>1 DEF Crash, TypeOK, CoreType, Pcs
    <2>3. AuxType'
      BY <1>1 DEF Crash, TypeOK, AuxType, history
    <2>. QED BY <2>2, <2>3, TypeParts
  <1>2. ASSUME NEW w \in Worker, RecoverTask(w) PROVE TypeOK'
    <2>1. CoreType'
      BY <1>2 DEF RecoverTask, TypeOK, CoreType, TaskStatus
    <2>2. AuxType'
      BY <1>2 DEF RecoverTask, TypeOK, AuxType, working, history
    <2>. QED BY <2>1, <2>2, TypeParts
  <1>3. CASE LeaseLapses
    <2>1. CoreType'
      BY <1>3 DEF LeaseLapses, TypeOK, CoreType
    <2>2. AuxType'
      BY <1>3 DEF LeaseLapses, TypeOK, AuxType, working, history
    <2>. QED BY <2>1, <2>2, TypeParts
  <1>4. CASE HeartbeatFails
    <2>1. CoreType'
      BY <1>4 DEF HeartbeatFails, TypeOK, CoreType
    <2>2. AuxType'
      BY <1>4 DEF HeartbeatFails, TypeOK, AuxType, working, history
    <2>. QED BY <2>1, <2>2, TypeParts
  <1>. QED BY <1>1, <1>2, <1>3, <1>4

LEMMA UserType ==
    ASSUME TypeOK, User
    PROVE  TypeOK'
  <1>1. CASE Pause
    <2>1. CoreType'
      BY <1>1 DEF Pause, RequestControl, TypeOK, CoreType, Scope
    <2>2. AuxType'
      BY <1>1 DEF Pause, TypeOK, AuxType, working, history
    <2>. QED BY <2>1, <2>2, TypeParts
  <1>2. CASE Approve
    <2>1. CoreType'
      BY <1>2 DEF Approve, RequestControl, TypeOK, CoreType, Run, TaskStatus
    <2>2. credit' \in [Handler -> Int]
      <3>1. /\ credit' = [credit EXCEPT ![run.asked] = credit[run.asked] + 1]
            /\ credit \in [Handler -> Int]
        BY <1>2 DEF Approve, TypeOK
      <3>2. CASE run.asked \in Handler
        BY <3>1, <3>2
      <3>3. CASE run.asked \notin Handler
        BY <3>1, <3>3
      <3>. QED BY <3>2, <3>3
    <2>3. AuxType'
      BY <1>2, <2>2 DEF Approve, TypeOK, AuxType, working
    <2>. QED BY <2>1, <2>3, TypeParts
  <1>3. CASE Reject
    <2>1. [run EXCEPT !.status = "paused", !.request = "none"] \in Run
      BY DEF TypeOK, Run, RunStatus
    <2>2. run' \in Run /\ control' \in [request : {"none", "pause"}, grant : Scope]
      BY <1>3, <2>1, StoreRowType DEF Reject
    <2>3. CoreType'
      BY <1>3, <2>2 DEF Reject, TypeOK, CoreType, TaskStatus
    <2>4. AuxType'
      BY <1>3 DEF Reject, TypeOK, AuxType, working, history
    <2>. QED BY <2>3, <2>4, TypeParts
  <1>4. CASE Resume
    <2>1. CoreType'
      BY <1>4 DEF Resume, RequestControl, TypeOK, CoreType, Run, TaskStatus
    <2>2. AuxType'
      BY <1>4 DEF Resume, TypeOK, AuxType, working, history
    <2>. QED BY <2>1, <2>2, TypeParts
  <1>5. ASSUME NEW n \in Node, NEW outcome \in {"succeeded", "failed"},
               Reconcile(n, outcome)
        PROVE  TypeOK'
    <2> DEFINE m == [run EXCEPT !.node[n] = outcome,
                                !.stuck = @ \ {n},
                                !.request = "none",
                                !.grant = IF @ # NoHandler THEN @ ELSE control.grant]
    <2>1. [run.node EXCEPT ![n] = outcome] \in [Node -> NodeStatus]
      BY DEF TypeOK, Run, NodeStatus, Terminal
    <2>2. m \in Run
      BY <2>1 DEF TypeOK, Run
    <2>3. run' \in Run /\ control' \in [request : {"none", "pause"}, grant : Scope]
      BY <1>5, <2>2, StoreRowType DEF Reconcile
    <2>4. CoreType'
      BY <1>5, <2>3 DEF Reconcile, TypeOK, CoreType, TaskStatus
    <2>5. AuxType'
      BY <1>5 DEF Reconcile, TypeOK, AuxType, working, history
    <2>. QED BY <2>4, <2>5, TypeParts
  <1>. QED BY <1>1, <1>2, <1>3, <1>4, <1>5 DEF User

(* Every step of the system, as the list its proofs go through. *)
LEMMA NextCases ==
    ASSUME Next
    PROVE  \/ \E w \in Worker :
                \/ Claim(w) \/ ConsultControl(w) \/ Verify(w)
                \/ DecideFail(w) \/ DecideFinish(w) \/ DecideExecute(w)
                \/ PauseForReconciliation(w) \/ Prepare(w)
                \/ ReturnToController(w) \/ RequestApproval(w)
                \/ \E lead \in {0} \cup Node : StartBatch(w, lead)
                \/ \E n \in Node : Invoke(w, n)
                \/ Collect(w) \/ Finish(w) \/ FailTask(w)
                \/ DeadlineExceeded(w) \/ RefuseResult(w)
                \/ Crash(w) \/ RecoverTask(w)
           \/ LeaseLapses \/ HeartbeatFails \/ User \/ UNCHANGED vars
  BY DEF Next, Execute, Rest

LEMMA StepType ==
    ASSUME TypeOK, [Next]_vars
    PROVE  TypeOK'
  <1>1. CASE UNCHANGED vars
    BY <1>1 DEF TypeOK, vars, durable, working, history
  <1>2. CASE Next
    BY <1>1, <1>2, NextCases, ClaimType, ControlType, DecideType, EnterType,
       ReturnType, StartType, InvokeType, CollectType, EndType, LeaveType,
       FaultType, UserType
  <1>. QED BY <1>1, <1>2

(* Every variable keeps its type, whatever the plan, the handlers, the     *)
(* budget and the number of workers.                                       *)
THEOREM TypeCorrect == Spec => []TypeOK
  <1>1. Init => TypeOK
    BY InitType
  <1>2. TypeOK /\ [Next]_vars => TypeOK'
    BY StepType
  <1>. QED BY <1>1, <1>2, PTL DEF Spec

-----------------------------------------------------------------------------
(***************************************************************************)
(* The strengthening of AtMostOnce.  It speaks of the nodes whose side     *)
(* effect must not be repeated:                                            *)
(*   - one that the stored run still offers has not been called, and no    *)
(*     worker is about to call it;                                         *)
(*   - at most one worker is about to call it, and nobody has;             *)
(*   - a worker whose version is current offers it only if the stored run  *)
(*     does: this is what the compare-and-swap of a checkpoint rests on.   *)
(* A worker on the failure path has lost its version (FailingStale).       *)
(***************************************************************************)
OfferedUncalled(n) ==
    run.node[n] \in Open => invoked[n] = 0 /\ \A w \in Worker : n \notin todo[w]
OneCaller(n) ==
    \A w \in Worker : n \in todo[w] =>
        invoked[n] = 0 /\ \A v \in Worker \ {w} : n \notin todo[v]
CurrentAgrees(n) ==
    \A w \in current : mem[w].node[n] \in Open => run.node[n] \in Open

SingleCall ==
    \A n \in Node : RetryUnsafe(n) =>
        OfferedUncalled(n) /\ OneCaller(n) /\ CurrentAgrees(n) /\ invoked[n] <= 1

FailingStale == \A w \in Worker : pc[w] = "failing" => w \notin current

OnceInv == TypeOK /\ SingleCall /\ FailingStale

(* m offers no node whose side effect must not be repeated, unless what    *)
(* worker w holds in memory offers it.                                     *)
OffersNoMore(w, m) ==
    \A n \in Node : RetryUnsafe(n) /\ m.node[n] \in Open => mem[w].node[n] \in Open

LEMMA MergedNode ==
    ASSUME NEW m \in Run
    PROVE  Merged(m).node = m.node
  BY DEF Merged, Run

LEMMA CheckpointOnce ==
    ASSUME OnceInv, NEW w \in Worker, NEW m \in Run, NEW next \in Pcs,
           OffersNoMore(w, m), Checkpoint(w, m, next), UNCHANGED <<todo, invoked>>
    PROVE  SingleCall' /\ FailingStale'
  <1>1. CASE w \in current
    <2>1. run' = Merged(m) /\ pc' = [pc EXCEPT ![w] = next]
      BY <1>1 DEF Checkpoint, StoreRow
    <2>2. run'.node = m.node
      BY <2>1, MergedNode
    <2>3. \/ current' = {} /\ next \in {"idle", "failing"}
          \/ current' = {w} /\ mem'[w] = run' /\ next # "failing"
      BY <1>1, <2>1 DEF Checkpoint, OnceInv, TypeOK
    <2>4. FailingStale'
      BY <2>1, <2>3 DEF FailingStale, OnceInv, TypeOK
    <2>5. ASSUME NEW n \in Node, RetryUnsafe(n)
          PROVE  (OfferedUncalled(n) /\ OneCaller(n) /\ CurrentAgrees(n) /\ invoked[n] <= 1)'
      <3>1. OfferedUncalled(n) /\ OneCaller(n) /\ CurrentAgrees(n) /\ invoked[n] <= 1
        BY <2>5 DEF OnceInv, SingleCall
      <3>2. run'.node[n] \in Open => run.node[n] \in Open
        BY <1>1, <2>2, <2>5, <3>1 DEF OffersNoMore, CurrentAgrees
      <3>3. CurrentAgrees(n)'
        BY <2>3 DEF CurrentAgrees
      <3>. QED BY <3>1, <3>2, <3>3 DEF OfferedUncalled, OneCaller
    <2>. QED BY <2>4, <2>5 DEF SingleCall, RetryUnsafe
  <1>2. CASE w \notin current
    <2>1. /\ pc' = [pc EXCEPT ![w] = "failing"] /\ UNCHANGED <<run, current>>
          /\ \A v \in Worker \ {w} : mem'[v] = mem[v]
      BY <1>2 DEF Checkpoint, Forget, durable, OnceInv, TypeOK
    <2>2. FailingStale'
      BY <1>2, <2>1 DEF FailingStale, OnceInv, TypeOK
    <2>3. SingleCall'
      BY <1>2, <2>1 DEF OnceInv, SingleCall, OfferedUncalled, OneCaller, CurrentAgrees,
         RetryUnsafe, TypeOK
    <2>. QED BY <2>2, <2>3
  <1>. QED BY <1>1, <1>2

LEMMA LocallyOnce ==
    ASSUME OnceInv, NEW w \in Worker, NEW m \in Run, NEW next \in Pcs \ {"failing"},
           OffersNoMore(w, m), Locally(w, m, next), UNCHANGED <<todo, invoked>>
    PROVE  SingleCall' /\ FailingStale'
  <1>1. /\ mem'[w] = m /\ pc' = [pc EXCEPT ![w] = next] /\ UNCHANGED <<run, current>>
        /\ \A v \in Worker \ {w} : mem'[v] = mem[v]
    BY DEF Locally, durable, OnceInv, TypeOK
  <1>2. FailingStale'
    BY <1>1 DEF FailingStale, OnceInv, TypeOK
  <1>3. ASSUME NEW n \in Node, RetryUnsafe(n)
        PROVE  (OfferedUncalled(n) /\ OneCaller(n) /\ CurrentAgrees(n) /\ invoked[n] <= 1)'
    <2>1. OfferedUncalled(n) /\ OneCaller(n) /\ CurrentAgrees(n) /\ invoked[n] <= 1
      BY <1>3 DEF OnceInv, SingleCall
    <2>2. CurrentAgrees(n)'
      BY <1>1, <1>3, <2>1 DEF CurrentAgrees, OffersNoMore, OnceInv, TypeOK
    <2>. QED BY <1>1, <2>1, <2>2 DEF OfferedUncalled, OneCaller
  <1>. QED BY <1>2, <1>3 DEF SingleCall, RetryUnsafe

(* Steps of the controller that leave every node as it is, or make a       *)
(* pending node ready.                                                     *)
LEMMA ControllerOnce ==
    ASSUME OnceInv, NEW w \in Worker,
           \/ ConsultControl(w) \/ Verify(w) \/ DecideFail(w) \/ DecideFinish(w)
           \/ DecideExecute(w) \/ ReturnToController(w) \/ RequestApproval(w)
    PROVE  SingleCall' /\ FailingStale'
  <1>1. mem[w] \in Run
    BY DEF OnceInv, TypeOK
  <1>2. UNCHANGED <<todo, invoked>>
    BY DEF ConsultControl, Verify, DecideFail, DecideFinish, DecideExecute,
       ReturnToController, RequestApproval, working, history
  <1>3. ASSUME NEW status \in RunStatus, NEW asked \in Scope, NEW grant \in Scope
        PROVE  LET m == [mem[w] EXCEPT !.status = status, !.asked = asked,
                                       !.grant = grant]
               IN  m \in Run /\ OffersNoMore(w, m)
    BY <1>1, <1>3 DEF Run, OffersNoMore
  <1>4. ASSUME NEW status \in RunStatus
        PROVE  LET m == [mem[w] EXCEPT !.status = status, !.asked = NoHandler]
               IN  m \in Run /\ OffersNoMore(w, m)
    BY <1>1, <1>4 DEF Run, OffersNoMore, Scope
  <1>5. OffersNoMore(w, mem[w])
    BY DEF OffersNoMore
  <1>6. CASE Verify(w)
    BY <1>1, <1>2, <1>5, <1>6, CheckpointOnce DEF Verify, Pcs
  <1>7. CASE ConsultControl(w)
    <2>1. CASE control.request = "pause"
      BY <1>2, <1>4, <1>7, <2>1, CheckpointOnce DEF ConsultControl, Pcs, RunStatus
    <2>2. CASE control.request # "pause"
      BY <1>1, <1>2, <1>5, <1>7, <2>2, LocallyOnce DEF ConsultControl, Pcs
    <2>. QED BY <2>1, <2>2
  <1>8. CASE DecideFail(w)
    BY <1>2, <1>4, <1>8, CheckpointOnce DEF DecideFail, Pcs, RunStatus
  <1>9. CASE DecideFinish(w)
    BY <1>2, <1>4, <1>9, CheckpointOnce DEF DecideFinish, Pcs, RunStatus
  <1>10. CASE DecideExecute(w)
    <2> DEFINE named == IF Provider = "goal" THEN Node ELSE Observed(mem[w])
               opened == [n \in Node |-> IF n \in named /\ mem[w].node[n] = "pending"
                                         THEN "ready" ELSE mem[w].node[n]]
               m == [mem[w] EXCEPT !.status = "running", !.asked = NoHandler,
                                   !.node = opened]
    <2>1. opened \in [Node -> NodeStatus]
      BY <1>1 DEF Run, NodeStatus
    <2>2. \A n \in Node : opened[n] \in Open => mem[w].node[n] \in Open
      BY DEF Open
    <2> HIDE DEF opened
    <2>3. m \in Run /\ m.node = opened
      BY <1>1, <2>1 DEF Run, RunStatus, Scope
    <2>4. Locally(w, m, "enter")
      BY <1>10 DEF DecideExecute, opened
    <2> HIDE DEF m
    <2>5. OffersNoMore(w, m)
      BY <2>2, <2>3 DEF OffersNoMore
    <2>. QED BY <1>2, <2>3, <2>4, <2>5, LocallyOnce DEF Pcs
  <1>11. CASE ReturnToController(w)
    BY <1>1, <1>2, <1>5, <1>11, LocallyOnce DEF ReturnToController, Pcs
  <1>12. CASE RequestApproval(w)
    <2>1. PICK n \in Node :
             Checkpoint(w, [mem[w] EXCEPT !.status = "waiting_approval",
                                          !.asked = HandlerOf[n],
                                          !.grant = NoHandler], "idle")
      BY <1>12 DEF RequestApproval
    <2>2. HandlerOf[n] \in Scope /\ NoHandler \in Scope
      BY ExecutorValid DEF ExecutorAssumption, Scope
    <2>. QED BY <1>2, <1>3, <2>1, <2>2, CheckpointOnce DEF Pcs, RunStatus
  <1>. QED BY <1>6, <1>7, <1>8, <1>9, <1>10, <1>11, <1>12

(* Recovery puts a node back to work only if its handler may be replayed.  *)
LEMMA EnterOnce ==
    ASSUME OnceInv, NEW w \in Worker, PauseForReconciliation(w) \/ Prepare(w)
    PROVE  SingleCall' /\ FailingStale'
  <1>1. PICK m \in Run :
           /\ \A n \in Node : m.node[n] \in Open => Recovering(w).node[n] \in Open
           /\ Checkpoint(w, m, "idle") \/ Checkpoint(w, m, "loop") \/ Locally(w, m, "loop")
    BY EnterSaves DEF OnceInv
  <1>2. ASSUME NEW n \in Node, RetryUnsafe(n)
        PROVE  Recovering(w).node[n] = mem[w].node[n]
    <2>1. n \notin Replayable(w)
      BY <1>2 DEF RetryUnsafe, Replayable, MayReplay
    <2>. QED BY <2>1 DEF Recovering, OnceInv, TypeOK, Run
  <1>3. OffersNoMore(w, m)
    BY <1>1, <1>2 DEF OffersNoMore
  <1>4. UNCHANGED <<todo, invoked>>
    BY DEF PauseForReconciliation, Prepare, working, history
  <1>. QED BY <1>1, <1>3, <1>4, CheckpointOnce, LocallyOnce DEF Pcs

(* No result puts a node whose side effect must not be repeated to work.   *)
LEMMA CollectOnce ==
    ASSUME OnceInv, NEW w \in Worker, Collect(w)
    PROVE  SingleCall' /\ FailingStale'
  <1>0. PICK applied \in [Node -> NodeStatus] : \E final \in Settlements(applied) :
           \E saved \in Run :
              /\ \A n \in Node :
                    \/ applied[n] = mem[w].node[n]
                    \/ \E r \in Outcomes \cup {"error"} :
                          applied[n] = AfterResult(mem[w], n, r)
              /\ saved.node = MarkReady(final, Node)
              /\ Checkpoint(w, saved, "loop")
    BY CollectSaves DEF OnceInv
  <1>1. PICK final \in Settlements(applied), saved \in Run :
              /\ \A n \in Node :
                    \/ applied[n] = mem[w].node[n]
                    \/ \E r \in Outcomes \cup {"error"} :
                          applied[n] = AfterResult(mem[w], n, r)
              /\ saved.node = MarkReady(final, Node)
              /\ Checkpoint(w, saved, "loop")
    BY <1>0
  <1>2. ASSUME NEW n \in Node, RetryUnsafe(n), applied[n] \in Open
        PROVE  mem[w].node[n] \in Open
    <2>1. \A r \in Outcomes \cup {"error"} : AfterResult(mem[w], n, r) \notin Open
      BY <1>2, ExecutorValid DEF AfterResult, Open, ExecutorAssumption
    <2>. QED BY <1>1, <1>2, <2>1
  <1>3. \A n \in Node : MarkReady(final, Node)[n] \in Open => final[n] \in Open
    BY DEF MarkReady, ReadyNodes, Open
  <1>4. \A n \in Node : final[n] \in Open => applied[n] \in Open
    BY SettlingOffersNoMore
  <1>5. OffersNoMore(w, saved)
    BY <1>1, <1>2, <1>3, <1>4 DEF OffersNoMore
  <1>6. UNCHANGED <<todo, invoked>>
    BY DEF Collect, history
  <1>. QED BY <1>1, <1>5, <1>6, CheckpointOnce DEF Pcs

LEMMA ClaimOnce ==
    ASSUME OnceInv, NEW w \in Worker, Claim(w)
    PROVE  SingleCall' /\ FailingStale'
  <1>1. /\ run'.node = run.node /\ mem'[w].node = run.node
        /\ current' = current \cup {w} /\ UNCHANGED <<todo, invoked>>
        /\ pc' = [pc EXCEPT ![w] = "control"]
        /\ \A v \in Worker \ {w} : mem'[v] = mem[v]
    BY DEF Claim, StartOrRestore, OnceInv, TypeOK, Run, working, history
  <1>2. FailingStale'
    BY <1>1 DEF FailingStale, OnceInv, TypeOK
  <1>3. ASSUME NEW n \in Node, RetryUnsafe(n)
        PROVE  (OfferedUncalled(n) /\ OneCaller(n) /\ CurrentAgrees(n) /\ invoked[n] <= 1)'
    <2>1. OfferedUncalled(n) /\ OneCaller(n) /\ CurrentAgrees(n) /\ invoked[n] <= 1
      BY <1>3 DEF OnceInv, SingleCall
    <2>2. CurrentAgrees(n)'
      BY <1>1, <2>1 DEF CurrentAgrees, OnceInv, TypeOK
    <2>. QED BY <1>1, <2>1, <2>2 DEF OfferedUncalled, OneCaller
  <1>. QED BY <1>2, <1>3 DEF SingleCall, RetryUnsafe

(* A batch starts nodes that the stored run offers, because the checkpoint *)
(* that starts them succeeds only for a current worker.                    *)
LEMMA StartOnce ==
    ASSUME OnceInv, NEW w \in Worker, NEW lead \in {0} \cup Node, StartBatch(w, lead)
    PROVE  SingleCall' /\ FailingStale'
  <1>1. CASE w \notin current
    <2>1. /\ pc' = [pc EXCEPT ![w] = "failing"] /\ UNCHANGED <<run, current, todo, invoked>>
          /\ \A v \in Worker \ {w} : mem'[v] = mem[v]
      BY <1>1 DEF StartBatch, Checkpoint, Forget, durable, history, OnceInv, TypeOK
    <2>2. FailingStale'
      BY <1>1, <2>1 DEF FailingStale, OnceInv, TypeOK
    <2>3. SingleCall'
      BY <1>1, <2>1 DEF OnceInv, SingleCall, OfferedUncalled, OneCaller, CurrentAgrees,
         RetryUnsafe, TypeOK
    <2>. QED BY <2>2, <2>3
  <1>2. CASE w \in current
    <2>1. PICK chosen \in SUBSET Startable(w), refused \in SUBSET Node, started \in Run :
             /\ started.node = [n \in Node |-> IF n \in chosen THEN "running"
                                               ELSE mem[w].node[n]]
             /\ Checkpoint(w, started, "dispatch")
             /\ todo' = [todo EXCEPT ![w] = chosen \ refused]
      BY <1>2, StartSaves DEF OnceInv
    <2>2. /\ run' = Merged(started) /\ pc' = [pc EXCEPT ![w] = "dispatch"]
          /\ current' = {w} /\ mem' = [mem EXCEPT ![w] = Merged(started)]
      BY <1>2, <2>1 DEF Checkpoint, StoreRow
    <2>3. run'.node = started.node /\ mem'[w] = run'
      BY <2>1, <2>2, MergedNode DEF OnceInv, TypeOK
    <2>4. FailingStale'
      BY <2>2 DEF FailingStale, OnceInv, TypeOK
    <2>5. UNCHANGED invoked
      BY DEF StartBatch, history
    <2>6. ASSUME NEW n \in Node, RetryUnsafe(n)
          PROVE  (OfferedUncalled(n) /\ OneCaller(n) /\ CurrentAgrees(n) /\ invoked[n] <= 1)'
      <3>1. OfferedUncalled(n) /\ OneCaller(n) /\ CurrentAgrees(n) /\ invoked[n] <= 1
        BY <2>6 DEF OnceInv, SingleCall
      <3>2. CurrentAgrees(n)'
        BY <2>2, <2>3 DEF CurrentAgrees
      <3>3. /\ todo'[w] \subseteq chosen
            /\ \A v \in Worker \ {w} : todo'[v] = todo[v]
        BY <2>1 DEF OnceInv, TypeOK
      <3>4. CASE n \in chosen
        <4>1. mem[w].node[n] \in Open
          BY <2>1, <3>4 DEF Startable, Ready, Open
        <4>2. invoked[n] = 0 /\ \A v \in Worker : n \notin todo[v]
          BY <1>2, <3>1, <4>1 DEF CurrentAgrees, OfferedUncalled
        <4>3. run'.node[n] = "running"
          BY <2>1, <2>3, <3>4
        <4>. QED BY <2>5, <3>2, <3>3, <4>2, <4>3 DEF OfferedUncalled, OneCaller, Open
      <3>5. CASE n \notin chosen
        <4>1. run'.node[n] = mem[w].node[n]
          BY <2>1, <2>3, <3>5
        <4>2. n \notin todo'[w]
          BY <3>3, <3>5
        <4>3. OfferedUncalled(n)'
          BY <1>2, <2>5, <3>1, <3>3, <4>1, <4>2 DEF OfferedUncalled, CurrentAgrees
        <4>4. OneCaller(n)'
          BY <2>5, <3>1, <3>3, <4>2 DEF OneCaller
        <4>. QED BY <2>5, <3>1, <3>2, <4>3, <4>4
      <3>. QED BY <3>4, <3>5
    <2>. QED BY <2>4, <2>6 DEF SingleCall, RetryUnsafe
  <1>. QED BY <1>1, <1>2

LEMMA InvokeOnce ==
    ASSUME OnceInv, NEW w \in Worker, NEW k \in Node, Invoke(w, k)
    PROVE  SingleCall' /\ FailingStale'
  <1>1. /\ k \in todo[w] /\ todo' = [todo EXCEPT ![w] = todo[w] \ {k}]
        /\ invoked' = [invoked EXCEPT ![k] = invoked[k] + 1]
        /\ UNCHANGED <<run, current, pc, mem>>
    BY DEF Invoke, durable
  <1>2. FailingStale'
    BY <1>1 DEF FailingStale, OnceInv
  <1>3. ASSUME NEW n \in Node, RetryUnsafe(n)
        PROVE  (OfferedUncalled(n) /\ OneCaller(n) /\ CurrentAgrees(n) /\ invoked[n] <= 1)'
    <2>1. OfferedUncalled(n) /\ OneCaller(n) /\ CurrentAgrees(n) /\ invoked[n] <= 1
      BY <1>3 DEF OnceInv, SingleCall
    <2>2. \A v \in Worker : todo'[v] \subseteq todo[v]
      BY <1>1 DEF OnceInv, TypeOK
    <2>3. CurrentAgrees(n)'
      BY <1>1, <2>1 DEF CurrentAgrees
    <2>4. CASE n = k
      <3>1. invoked'[n] = 1
        BY <1>1, <2>1, <2>4 DEF OneCaller, OnceInv, TypeOK
      <3>2. \A v \in Worker : n \notin todo'[v]
        BY <1>1, <2>1, <2>4 DEF OneCaller, OnceInv, TypeOK
      <3>3. run.node[n] \notin Open
        BY <1>1, <2>1, <2>4 DEF OfferedUncalled
      <3>. QED BY <1>1, <2>3, <3>1, <3>2, <3>3 DEF OfferedUncalled, OneCaller
    <2>5. CASE n # k
      <3>1. invoked'[n] = invoked[n]
        BY <1>1, <2>5 DEF OnceInv, TypeOK
      <3>. QED BY <1>1, <2>1, <2>2, <2>3, <3>1 DEF OfferedUncalled, OneCaller
    <2>. QED BY <2>4, <2>5
  <1>. QED BY <1>2, <1>3 DEF SingleCall, RetryUnsafe

(* A step that calls nothing, lets the stored run offer nothing new, and   *)
(* leaves every version stale or the run and the current copies alone.     *)
LEMMA QuietOnce ==
    ASSUME OnceInv, UNCHANGED invoked,
           \A v \in Worker : todo'[v] \subseteq todo[v],
           \A n \in Node : run'.node[n] \in Open => run.node[n] \in Open,
           \/ current' = {}
           \/ /\ run'.node = run.node /\ current' \subseteq current
              /\ \A v \in current' : mem'[v] = mem[v]
    PROVE  SingleCall'
  <1> SUFFICES ASSUME NEW n \in Node, RetryUnsafe(n)
               PROVE  (OfferedUncalled(n) /\ OneCaller(n) /\ CurrentAgrees(n)
                       /\ invoked[n] <= 1)'
    BY DEF SingleCall, RetryUnsafe
  <1>1. OfferedUncalled(n) /\ OneCaller(n) /\ CurrentAgrees(n) /\ invoked[n] <= 1
    BY DEF OnceInv, SingleCall
  <1>2. OfferedUncalled(n)' /\ OneCaller(n)'
    BY <1>1 DEF OfferedUncalled, OneCaller
  <1>3. CurrentAgrees(n)'
    BY <1>1 DEF CurrentAgrees
  <1>. QED BY <1>1, <1>2, <1>3

(* Nothing is open in a finalized run. *)
LEMMA FinalizedCloses ==
    ASSUME NEW m \in Run, NEW status, NEW n \in Node
    PROVE  Finalized(m, status).node[n] \notin Open
  BY DEF Finalized, Run, NodeStatus, Open, Terminal

LEMMA EndOnce ==
    ASSUME OnceInv, NEW w \in Worker,
           \/ Finish(w) \/ FailTask(w) \/ DeadlineExceeded(w) \/ RefuseResult(w)
    PROVE  SingleCall' /\ FailingStale'
  <1>1. UNCHANGED <<todo, invoked>> /\ \A v \in Worker \ {w} : mem'[v] = mem[v]
    BY DEF Finish, FailTask, DeadlineExceeded, RefuseResult, Forget, working, history,
       OnceInv, TypeOK
  <1>2. ASSUME NEW m \in Run, NEW status, StoreRow(Finalized(m, status))
        PROVE  \A n \in Node : run'.node[n] \notin Open
    BY <1>2, FinalizedCloses DEF StoreRow
  <1>3. mem[w] \in Run /\ run \in Run
    BY DEF OnceInv, TypeOK
  <1>4. CASE Finish(w)
    <2>1. CASE w \in current
      <3>1. /\ StoreRow(Finalized(mem[w], "completed")) /\ current' = {}
        BY <1>4, <2>1 DEF Finish
      <3>. QED BY <1>1, <1>2, <1>3, <3>1, QuietOnce DEF FailingStale
    <2>2. CASE w \notin current
      <3>1. pc' = [pc EXCEPT ![w] = "failing"] /\ UNCHANGED <<run, current>>
        BY <1>4, <2>2 DEF Finish, durable
      <3>2. SingleCall'
        BY <1>1, <2>2, <3>1, QuietOnce DEF OnceInv, TypeOK
      <3>. QED BY <2>2, <3>1, <3>2 DEF FailingStale, OnceInv, TypeOK
    <2>. QED BY <2>1, <2>2
  <1>5. CASE FailTask(w)
    <2>1. w \notin current /\ pc' = [pc EXCEPT ![w] = "idle"]
      BY <1>5 DEF FailTask, OnceInv, FailingStale
    <2>2. CASE task.status = "completed"
      <3>1. UNCHANGED <<run, current>>
        BY <1>5, <2>2 DEF FailTask, durable
      <3>2. SingleCall'
        BY <1>1, <2>1, <3>1, QuietOnce DEF OnceInv, TypeOK
      <3>. QED BY <2>1, <3>1, <3>2 DEF FailingStale, OnceInv, TypeOK
    <2>3. CASE task.status # "completed"
      <3>1. StoreRow(Finalized(run, "failed")) /\ current' = {}
        BY <1>5, <2>3 DEF FailTask
      <3>. QED BY <1>1, <1>2, <1>3, <3>1, QuietOnce DEF FailingStale
    <2>. QED BY <2>2, <2>3
  <1>6. CASE DeadlineExceeded(w) \/ RefuseResult(w)
    <2>1. /\ pc' = [pc EXCEPT ![w] = "failing"] /\ current' = current \ {w}
          /\ UNCHANGED run
      BY <1>6 DEF DeadlineExceeded, RefuseResult, durable
    <2>2. SingleCall'
      BY <1>1, <2>1, QuietOnce DEF OnceInv, TypeOK
    <2>. QED BY <2>1, <2>2 DEF FailingStale, OnceInv, TypeOK
  <1>. QED BY <1>4, <1>5, <1>6

(* A crash takes the worker's copy and its calls still to be made with it; *)
(* leases move the task between workers and leave the run alone.           *)
LEMMA FaultOnce ==
    ASSUME OnceInv,
           \/ \E w \in Worker : Crash(w) \/ RecoverTask(w)
           \/ LeaseLapses \/ HeartbeatFails
    PROVE  SingleCall' /\ FailingStale'
  <1>1. ASSUME NEW w \in Worker, Crash(w)
        PROVE  SingleCall' /\ FailingStale'
    <2>1. /\ pc' = [pc EXCEPT ![w] = "idle"] /\ current' = current \ {w}
          /\ UNCHANGED <<run, invoked>>
          /\ \A v \in Worker : todo'[v] \subseteq todo[v]
          /\ \A v \in Worker \ {w} : mem'[v] = mem[v]
      BY <1>1 DEF Crash, Forget, history, OnceInv, TypeOK
    <2>2. SingleCall'
      BY <2>1, QuietOnce DEF OnceInv, TypeOK
    <2>. QED BY <2>1, <2>2 DEF FailingStale, OnceInv, TypeOK
  <1>2. CASE LeaseLapses \/ HeartbeatFails \/ \E w \in Worker : RecoverTask(w)
    <2>1. UNCHANGED <<run, current, pc, mem, todo, invoked>>
      BY <1>2 DEF LeaseLapses, HeartbeatFails, RecoverTask, working, history
    <2>2. SingleCall'
      BY <2>1, QuietOnce DEF OnceInv, TypeOK
    <2>. QED BY <2>1, <2>2 DEF FailingStale, OnceInv
  <1>. QED BY <1>1, <1>2

(* Whatever the user does to the stored run makes every copy of it stale.  *)
LEMMA UserOnce ==
    ASSUME OnceInv, User
    PROVE  SingleCall' /\ FailingStale'
  <1>1. UNCHANGED <<pc, mem, todo, invoked>>
    BY DEF User, Pause, Approve, Reject, Resume, Reconcile, working, history
  <1>2. CASE Pause \/ Approve \/ Resume
    <2>1. UNCHANGED <<run, current>>
      BY <1>2 DEF Pause, Approve, Resume
    <2>2. SingleCall'
      BY <1>1, <2>1, QuietOnce DEF OnceInv, TypeOK
    <2>. QED BY <1>1, <2>1, <2>2 DEF FailingStale, OnceInv
  <1>3. CASE Reject
    <2>1. run'.node = run.node /\ current' = {}
      BY <1>3 DEF Reject, StoreRow, OnceInv, TypeOK, Run
    <2>. QED BY <1>1, <2>1, QuietOnce DEF FailingStale
  <1>4. ASSUME NEW n \in Node, NEW outcome \in {"succeeded", "failed"},
               Reconcile(n, outcome)
        PROVE  SingleCall' /\ FailingStale'
    <2>1. run'.node = [run.node EXCEPT ![n] = outcome] /\ current' = {}
      BY <1>4 DEF Reconcile, StoreRow, OnceInv, TypeOK, Run
    <2>2. \A k \in Node : run'.node[k] \in Open => run.node[k] \in Open
      BY <2>1 DEF OnceInv, TypeOK, Run, Open
    <2>. QED BY <1>1, <2>1, <2>2, QuietOnce DEF FailingStale
  <1>. QED BY <1>2, <1>3, <1>4 DEF User

LEMMA StepOnce ==
    ASSUME OnceInv, [Next]_vars
    PROVE  OnceInv'
  <1>1. TypeOK'
    BY StepType DEF OnceInv
  <1>2. CASE UNCHANGED vars
    <2>1. UNCHANGED <<run, current, pc, mem, todo, invoked>>
      BY <1>2 DEF vars, durable, working, history
    <2>2. SingleCall'
      BY <2>1, QuietOnce DEF OnceInv, TypeOK
    <2>. QED BY <1>1, <2>1, <2>2 DEF FailingStale, OnceInv
  <1>3. CASE Next
    <2>1. SingleCall' /\ FailingStale'
      BY <1>2, <1>3, NextCases, ClaimOnce, ControllerOnce, EnterOnce, StartOnce,
         InvokeOnce, CollectOnce, EndOnce, FaultOnce, UserOnce DEF OnceInv
    <2>. QED BY <1>1, <2>1 DEF OnceInv
  <1>. QED BY <1>2, <1>3

(* A call whose side effect must not be repeated is made at most once, in  *)
(* every behaviour: the RUNNING checkpoint is versioned and precedes the   *)
(* call, recovery never reopens such a node, and no result does.           *)
THEOREM SideEffectsOnce == Spec => []AtMostOnce
  <1>1. Init => OnceInv
    <2> SUFFICES ASSUME Init PROVE OnceInv
      OBVIOUS
    <2>1. SingleCall
      BY DEF Init, SingleCall, OfferedUncalled, OneCaller, CurrentAgrees
    <2>2. FailingStale
      BY DEF Init, FailingStale
    <2>. QED BY <2>1, <2>2, InitType DEF OnceInv
  <1>2. OnceInv /\ [Next]_vars => OnceInv'
    BY StepOnce
  <1>3. OnceInv => AtMostOnce
    BY DEF OnceInv, SingleCall, AtMostOnce
  <1>. QED BY <1>1, <1>2, <1>3, PTL DEF Spec

-----------------------------------------------------------------------------
(* What the steps of a worker save, field by field.                        *)

LEMMA MergedKeeps ==
    ASSUME NEW m \in Run
    PROVE  /\ Merged(m).node = m.node /\ Merged(m).attempt = m.attempt
           /\ Merged(m).stuck = m.stuck /\ Merged(m).replay = m.replay
           /\ Merged(m).calls = m.calls /\ Merged(m).status = m.status
           /\ Merged(m).asked = m.asked
  BY DEF Merged, Run

LEMMA RecoveringKeeps ==
    ASSUME TypeOK, NEW w \in Worker
    PROVE  /\ Recovering(w) \in Run
           /\ Recovering(w).attempt = mem[w].attempt
           /\ Recovering(w).calls = mem[w].calls
           /\ Recovering(w).grant = mem[w].grant
           /\ Recovering(w).stuck = mem[w].stuck \cup (Interrupted(w) \ Replayable(w))
           /\ Recovering(w).replay = mem[w].replay \cup Replayable(w)
           /\ \A n \in Node : Recovering(w).node[n] =
                                IF n \in Replayable(w) THEN "ready" ELSE mem[w].node[n]
  <1>1. mem[w] \in Run /\ Recovering(w) \in Run
    BY RecoveringType DEF TypeOK
  <1>2. /\ Recovering(w).attempt = mem[w].attempt
        /\ Recovering(w).calls = mem[w].calls
        /\ Recovering(w).grant = mem[w].grant
        /\ Recovering(w).stuck = mem[w].stuck \cup (Interrupted(w) \ Replayable(w))
        /\ Recovering(w).replay = mem[w].replay \cup Replayable(w)
        /\ Recovering(w).node = [n \in Node |-> IF n \in Replayable(w) THEN "ready"
                                                ELSE mem[w].node[n]]
    BY <1>1 DEF Recovering, Run
  <1>. QED BY <1>1, <1>2

(* The controller's steps keep the plan's nodes, their attempts, the       *)
(* budget and the nodes to be reconciled; deciding may open nodes.         *)
LEMMA ControllerSaves ==
    ASSUME TypeOK, NEW w \in Worker,
           \/ ConsultControl(w) \/ Verify(w) \/ DecideFail(w) \/ DecideFinish(w)
           \/ DecideExecute(w) \/ ReturnToController(w) \/ RequestApproval(w)
    PROVE  /\ pc[w] # "dispatch"
           /\ UNCHANGED <<batch, todo, denied, faults, history>>
           /\ \E m \in Run, next \in Pcs \ {"dispatch"} :
                 /\ m.attempt = mem[w].attempt /\ m.stuck = mem[w].stuck
                 /\ m.replay = mem[w].replay /\ m.calls = mem[w].calls
                 /\ m.grant \in {mem[w].grant, NoHandler}
                 /\ \A n \in Node : \/ m.node[n] = mem[w].node[n]
                                    \/ mem[w].node[n] = "pending" /\ m.node[n] = "ready"
                 /\ DecideExecute(w) \/ (m.node = mem[w].node /\ next # "enter")
                 /\ \/ Checkpoint(w, m, next)
                    \/ Locally(w, m, next) /\ next # "failing"
  <1>1. mem[w] \in Run
    BY DEF TypeOK
  <1>2. pc[w] # "dispatch"
    BY DEF ConsultControl, Verify, DecideFail, DecideFinish, DecideExecute,
       ReturnToController, RequestApproval
  <1>3. UNCHANGED <<batch, todo, denied, faults, history>>
    BY DEF ConsultControl, Verify, DecideFail, DecideFinish, DecideExecute,
       ReturnToController, RequestApproval, working
  <1> DEFINE Saved(m, next) ==
               /\ m.attempt = mem[w].attempt /\ m.stuck = mem[w].stuck
               /\ m.replay = mem[w].replay /\ m.calls = mem[w].calls
               /\ m.grant \in {mem[w].grant, NoHandler}
               /\ \A n \in Node : \/ m.node[n] = mem[w].node[n]
                                  \/ mem[w].node[n] = "pending" /\ m.node[n] = "ready"
               /\ DecideExecute(w) \/ (m.node = mem[w].node /\ next # "enter")
               /\ Checkpoint(w, m, next) \/ (Locally(w, m, next) /\ next # "failing")
  <1>4. ASSUME NEW next \in Pcs \ {"dispatch", "enter"},
               Checkpoint(w, mem[w], next) \/ (Locally(w, mem[w], next) /\ next # "failing")
        PROVE  \E m \in Run, k \in Pcs \ {"dispatch"} : Saved(m, k)
    <2>1. Saved(mem[w], next)
      BY <1>4
    <2>. QED BY <1>1, <2>1
  <1>5. ASSUME NEW status \in RunStatus, NEW next \in Pcs \ {"dispatch", "enter"},
               Checkpoint(w, [mem[w] EXCEPT !.status = status, !.asked = NoHandler], next)
        PROVE  \E m \in Run, k \in Pcs \ {"dispatch"} : Saved(m, k)
    <2> DEFINE m == [mem[w] EXCEPT !.status = status, !.asked = NoHandler]
    <2>1. m \in Run
      BY <1>1 DEF Run, Scope
    <2>2. Saved(m, next)
      BY <1>1, <1>5 DEF Run
    <2>. QED BY <2>1, <2>2
  <1>6. CASE ConsultControl(w)
    <2>1. CASE control.request = "pause"
      BY <1>2, <1>3, <1>5, <1>6, <2>1 DEF ConsultControl, Pcs, RunStatus
    <2>2. CASE control.request # "pause"
      BY <1>2, <1>3, <1>4, <1>6, <2>2 DEF ConsultControl, Pcs
    <2>. QED BY <2>1, <2>2
  <1>7. CASE Verify(w)
    BY <1>2, <1>3, <1>4, <1>7 DEF Verify, Pcs
  <1>8. CASE DecideFail(w)
    BY <1>2, <1>3, <1>5, <1>8 DEF DecideFail, Pcs, RunStatus
  <1>9. CASE DecideFinish(w)
    BY <1>2, <1>3, <1>5, <1>9 DEF DecideFinish, Pcs, RunStatus
  <1>10. CASE DecideExecute(w)
    <2> DEFINE named == IF Provider = "goal" THEN Node ELSE Observed(mem[w])
               opened == [n \in Node |-> IF n \in named /\ mem[w].node[n] = "pending"
                                         THEN "ready" ELSE mem[w].node[n]]
               m == [mem[w] EXCEPT !.status = "running", !.asked = NoHandler,
                                   !.node = opened]
    <2>1. opened \in [Node -> NodeStatus]
      BY <1>1 DEF Run, NodeStatus
    <2>2. \A n \in Node : \/ opened[n] = mem[w].node[n]
                          \/ mem[w].node[n] = "pending" /\ opened[n] = "ready"
      OBVIOUS
    <2> HIDE DEF opened
    <2>3. m \in Run /\ m.node = opened
      BY <1>1, <2>1 DEF Run, RunStatus, Scope
    <2>4. Locally(w, m, "enter")
      BY <1>10 DEF DecideExecute, opened
    <2>5. Saved(m, "enter")
      BY <1>1, <1>10, <2>2, <2>3, <2>4 DEF Run
    <2> HIDE DEF m, Saved
    <2>6. \E saved \in Run, k \in Pcs \ {"dispatch"} : Saved(saved, k)
      BY <2>3, <2>5 DEF Pcs
    <2>. QED BY <1>2, <1>3, <2>6 DEF Saved
  <1>11. CASE ReturnToController(w)
    BY <1>2, <1>3, <1>4, <1>11 DEF ReturnToController, Pcs
  <1>12. CASE RequestApproval(w)
    <2>1. PICK n \in Node :
             Checkpoint(w, [mem[w] EXCEPT !.status = "waiting_approval",
                                          !.asked = HandlerOf[n],
                                          !.grant = NoHandler], "idle")
      BY <1>12 DEF RequestApproval
    <2> DEFINE m == [mem[w] EXCEPT !.status = "waiting_approval",
                                   !.asked = HandlerOf[n], !.grant = NoHandler]
    <2>2. HandlerOf[n] \in Scope
      BY ExecutorValid DEF ExecutorAssumption, Scope
    <2>3. m \in Run
      BY <1>1, <2>2 DEF Run, RunStatus, Scope
    <2>4. Saved(m, "idle")
      BY <1>1, <2>1 DEF Run
    <2>. QED BY <1>2, <1>3, <2>3, <2>4 DEF Pcs
  <1>. QED BY <1>6, <1>7, <1>8, <1>9, <1>10, <1>11, <1>12

(* Entering the executor saves what recovery left: as it is, when a node   *)
(* has to be reconciled; else with its newly satisfied nodes marked and    *)
(* its unreachable ones settled.                                           *)
LEMMA PrepareSaves ==
    ASSUME TypeOK, NEW w \in Worker, Prepare(w)
    PROVE  LET marked == MarkReady(Recovering(w).node, selected[w]) IN
           \E final \in Settlements(marked), status \in RunStatus :
              LET m == [Recovering(w) EXCEPT !.node = final, !.status = status] IN
              /\ final \in [Node -> NodeStatus] /\ m \in Run
              /\ status # "running" => status = RefreshRunStatus(final, "running")
              /\ Checkpoint(w, m, "loop") \/ Locally(w, m, "loop")
  <1> DEFINE marked == MarkReady(Recovering(w).node, selected[w])
             Status(final) == IF final # marked THEN RefreshRunStatus(final, "running")
                              ELSE "running"
             M(final) == [Recovering(w) EXCEPT !.node = final, !.status = Status(final)]
  <1>1. Recovering(w) \in Run /\ marked \in [Node -> NodeStatus]
    BY RecoveringType, MarkReadyType DEF Run
  <1>2. PICK final \in Settlements(marked) :
           IF final # Recovering(w).node THEN Checkpoint(w, M(final), "loop")
           ELSE Locally(w, M(final), "loop")
    BY DEF Prepare
  <1> HIDE DEF marked
  <1>3. final \in [Node -> NodeStatus]
    BY <1>1, SettlementsType
  <1>4. /\ Status(final) \in RunStatus
        /\ Status(final) # "running" => Status(final) = RefreshRunStatus(final, "running")
    BY RefreshType DEF RunStatus
  <1> DEFINE status == Status(final)
  <1> HIDE DEF Status
  <1>5. [Recovering(w) EXCEPT !.node = final, !.status = status] \in Run
    BY <1>1, <1>3, <1>4 DEF Run
  <1>. QED BY <1>2, <1>3, <1>4, <1>5 DEF marked

(* The nodes StartBatch starts, and those of them the budget refuses.      *)
Eligible(w, lead) ==
    IF lead = 0 THEN Startable(w) ELSE {lead} \cup (Startable(w) \ Privileged(w))
Chosen(w, lead) ==
    {n \in Eligible(w, lead) :
        Cardinality(Ahead(Eligible(w, lead), lead, n)) < MaxParallelism}
Refused(w, lead) ==
    {n \in Chosen(w, lead) \ mem[w].replay :
        /\ PoolOf[n] # "none"
        /\ mem[w].calls[PoolOf[n]] + Cardinality(
             Charged(Ahead(Chosen(w, lead), lead, n), PoolOf[n], mem[w].replay))
             >= MaxCalls[PoolOf[n]]}

LEMMA ChosenStartable ==
    ASSUME NEW w \in Worker, NEW lead \in {0} \cup Node, StartBatch(w, lead)
    PROVE  /\ Chosen(w, lead) \subseteq Startable(w)
           /\ Chosen(w, lead) \subseteq Node /\ Refused(w, lead) \subseteq Chosen(w, lead)
           /\ lead # 0 => lead \in Node /\ HandlerOf[lead] = mem[w].grant
           /\ \A n \in Chosen(w, lead) : HandlerOf[n] \in NeedsApproval => n = lead
           /\ \A n \in Chosen(w, lead) : mem[w].node[n] = "ready" /\ n \in selected[w]
  <1>0. /\ IF Privileged(w) = {} THEN lead = 0 ELSE lead \in Granted(w)
        /\ Granted(w) \subseteq Privileged(w) /\ Privileged(w) \subseteq Startable(w)
        /\ Startable(w) \subseteq Node /\ 0 \notin Node
    <2>1. IF Privileged(w) = {} THEN lead = 0 ELSE First(lead, Granted(w))
      BY DEF StartBatch
    <2>2. First(lead, Granted(w)) => lead \in Granted(w)
      BY DEF First
    <2>3. /\ Granted(w) \subseteq Privileged(w) /\ Privileged(w) \subseteq Startable(w)
          /\ Startable(w) \subseteq Node
      BY DEF Granted, Privileged, Startable, Ready
    <2>4. 0 \notin Node
      BY PlanValid DEF PlanAssumption, Node
    <2>. QED BY <2>1, <2>2, <2>3, <2>4
  <1>1. lead # 0 => /\ lead \in Startable(w) /\ lead \in Node
                    /\ HandlerOf[lead] = mem[w].grant
    BY <1>0 DEF Granted
  <1>2. lead = 0 => Privileged(w) = {}
    BY <1>0
  <1>3. Eligible(w, lead) \subseteq Startable(w)
    BY <1>1 DEF Eligible
  <1>4. Chosen(w, lead) \subseteq Eligible(w, lead) /\ Refused(w, lead) \subseteq Chosen(w, lead)
    BY DEF Chosen, Refused
  <1>5. Startable(w) \subseteq {n \in Node : mem[w].node[n] = "ready" /\ n \in selected[w]}
    BY DEF Startable, Ready
  <1>6. ASSUME NEW n \in Eligible(w, lead), HandlerOf[n] \in NeedsApproval
        PROVE  n = lead
    BY <1>2, <1>3, <1>6 DEF Eligible, Privileged
  <1>. QED BY <1>1, <1>3, <1>4, <1>5, <1>6

LEMMA StartSavesAll ==
    ASSUME TypeOK, NEW w \in Worker, NEW lead \in {0} \cup Node, StartBatch(w, lead)
    PROVE  \E started \in Run :
              /\ started.status = "running"
              /\ started.node = [n \in Node |-> IF n \in Chosen(w, lead) THEN "running"
                                                ELSE mem[w].node[n]]
              /\ \A n \in Node \ Chosen(w, lead) : started.attempt[n] = mem[w].attempt[n]
              /\ started.stuck = mem[w].stuck
              /\ started.replay = mem[w].replay \ Chosen(w, lead)
              /\ started.calls = [p \in Pool |-> mem[w].calls[p] + Cardinality(
                     Charged(Chosen(w, lead) \ Refused(w, lead), p, mem[w].replay))]
              /\ started.grant = IF lead = 0 THEN mem[w].grant ELSE NoHandler
              /\ Checkpoint(w, started, "dispatch")
              /\ \/ /\ w \in current
                    /\ batch' = [batch EXCEPT ![w] = Chosen(w, lead)]
                    /\ todo' = [todo EXCEPT ![w] = Chosen(w, lead) \ Refused(w, lead)]
                    /\ denied' = [denied EXCEPT ![w] = Refused(w, lead)]
                 \/ w \notin current /\ UNCHANGED <<batch, todo, denied>>
              /\ UNCHANGED <<selected, faults, history>>
  <1> DEFINE m == mem[w]
             chosen == Chosen(w, lead)
             refused == Refused(w, lead)
             node == [n \in Node |-> IF n \in chosen THEN "running" ELSE m.node[n]]
             attempt == [n \in Node |-> IF n \in chosen
                           THEN Lower(m.attempt[n] + 1, MaxRetries + 1) ELSE m.attempt[n]]
             calls == [p \in Pool |-> m.calls[p] +
                         Cardinality(Charged(chosen \ refused, p, m.replay))]
             grant == IF lead = 0 THEN m.grant ELSE NoHandler
             started == [m EXCEPT !.status = "running", !.node = node,
                           !.attempt = attempt, !.replay = @ \ chosen,
                           !.calls = calls, !.grant = grant]
  <1>1. m \in Run
    BY DEF TypeOK
  <1>2. chosen \subseteq Node /\ refused \subseteq Node
    BY ChosenStartable
  <1>3. /\ Checkpoint(w, started, "dispatch")
        /\ \/ /\ w \in current
              /\ batch' = [batch EXCEPT ![w] = chosen]
              /\ todo' = [todo EXCEPT ![w] = chosen \ refused]
              /\ denied' = [denied EXCEPT ![w] = refused]
           \/ w \notin current /\ UNCHANGED <<batch, todo, denied>>
        /\ UNCHANGED <<selected, faults, history>>
    BY DEF StartBatch, Chosen, Refused, Eligible
  <1> HIDE DEF chosen, refused
  <1>4. node \in [Node -> NodeStatus]
    BY <1>1 DEF Run, NodeStatus
  <1>5. attempt \in [Node -> 0 .. MaxRetries + 1]
    <2> SUFFICES ASSUME NEW n \in Node PROVE attempt[n] \in 0 .. MaxRetries + 1
      OBVIOUS
    <2>1. MaxRetries \in Nat /\ m.attempt[n] \in 0 .. MaxRetries + 1
      BY <1>1, ExecutorValid DEF ExecutorAssumption, Run
    <2>. QED BY <2>1 DEF Lower
  <1>6. calls \in [Pool -> Nat]
    <2> SUFFICES ASSUME NEW p \in Pool PROVE calls[p] \in Nat
      OBVIOUS
    <2>1. chosen \ refused \in SUBSET Node
      BY <1>2
    <2>2. Cardinality(Charged(chosen \ refused, p, m.replay)) \in Nat
      BY <2>1, ChargedCount
    <2>3. m.calls[p] \in Nat
      BY <1>1 DEF Run
    <2>. QED BY <2>2, <2>3
  <1>7. grant \in Scope
    BY <1>1 DEF Run, Scope
  <1>8. \A n \in Node \ chosen : attempt[n] = m.attempt[n]
    OBVIOUS
  <1> HIDE DEF attempt
  <1>9. /\ started \in Run /\ started.status = "running" /\ started.node = node
        /\ started.attempt = attempt /\ started.stuck = m.stuck
        /\ started.replay = m.replay \ chosen /\ started.calls = calls
        /\ started.grant = grant
    BY <1>1, <1>4, <1>5, <1>6, <1>7 DEF Run, RunStatus
  <1> HIDE DEF started
  <1>. QED BY <1>3, <1>8, <1>9 DEF chosen, refused

(* What Collect saves, with what it says of the whole run.                 *)
LEMMA CollectSavesAll ==
    ASSUME TypeOK, NEW w \in Worker, Collect(w)
    PROVE  \E applied \in [Node -> NodeStatus] : \E final \in Settlements(applied) :
           \E saved \in Run :
              /\ \A n \in Node :
                    \/ n \notin batch[w] \cup denied[w] /\ applied[n] = mem[w].node[n]
                    \/ /\ n \in batch[w] \cup denied[w]
                       /\ applied[n] \in {"succeeded", "partial", "skipped", "failed", "ready"}
              /\ saved.node = MarkReady(final, Node)
              /\ saved.status = RefreshRunStatus(final, "running")
              /\ saved.attempt = mem[w].attempt /\ saved.calls = mem[w].calls
              /\ saved.stuck = mem[w].stuck \ batch[w]
              /\ saved.replay = mem[w].replay \ batch[w]
              /\ saved.grant = mem[w].grant
              /\ Checkpoint(w, saved, "loop")
  <1> DEFINE m == mem[w]
             Applied(result) ==
               [n \in Node |-> IF n \in denied[w] THEN AfterResult(m, n, "error")
                               ELSE IF n \in batch[w] THEN AfterResult(m, n, result[n])
                               ELSE m.node[n]]
             M(final) == [m EXCEPT !.node = MarkReady(final, Node),
                                   !.status = RefreshRunStatus(final, "running"),
                                   !.stuck = @ \ batch[w],
                                   !.replay = @ \ batch[w]]
  <1>1. m \in Run
    BY DEF TypeOK
  <1>2. PICK result \in [batch[w] \ denied[w] -> Outcomes] :
           \E final \in Settlements(Applied(result)) : Checkpoint(w, M(final), "loop")
    BY DEF Collect
  <1>3. ASSUME NEW n \in Node
        PROVE  \/ n \notin batch[w] \cup denied[w] /\ Applied(result)[n] = m.node[n]
               \/ /\ n \in batch[w] \cup denied[w]
                  /\ Applied(result)[n]
                       \in {"succeeded", "partial", "skipped", "failed", "ready"}
    <2>1. CASE n \in denied[w]
      BY <2>1, AfterResultType
    <2>2. CASE n \notin denied[w] /\ n \in batch[w]
      <3>1. result[n] \in Outcomes
        BY <2>2
      <3>2. AfterResult(m, n, result[n])
               \in {"succeeded", "partial", "skipped", "failed", "ready"}
        BY <3>1, AfterResultType
      <3>. QED BY <2>2, <3>2
    <2>3. CASE n \notin denied[w] /\ n \notin batch[w]
      BY <2>3
    <2>. QED BY <2>1, <2>2, <2>3
  <1>4. Applied(result) \in [Node -> NodeStatus]
    <2> SUFFICES ASSUME NEW n \in Node PROVE Applied(result)[n] \in NodeStatus
      OBVIOUS
    <2>1. m.node[n] \in NodeStatus
      BY <1>1 DEF Run
    <2> HIDE DEF Applied
    <2>. QED BY <1>3, <2>1 DEF NodeStatus, Terminal
  <1>5. PICK final \in Settlements(Applied(result)) : Checkpoint(w, M(final), "loop")
    BY <1>2
  <1> HIDE DEF Applied
  <1>6. final \in [Node -> NodeStatus]
    BY <1>4, SettlementsType
  <1>7. MarkReady(final, Node) \in [Node -> NodeStatus]
    BY <1>6, MarkReadyType
  <1>8. RefreshRunStatus(final, "running") \in RunStatus
    BY RefreshType DEF RunStatus
  <1>9. /\ M(final) \in Run /\ M(final).node = MarkReady(final, Node)
        /\ M(final).status = RefreshRunStatus(final, "running")
        /\ M(final).attempt = m.attempt /\ M(final).calls = m.calls
        /\ M(final).stuck = m.stuck \ batch[w] /\ M(final).replay = m.replay \ batch[w]
        /\ M(final).grant = m.grant
    BY <1>1, <1>7, <1>8 DEF Run
  <1> HIDE DEF M
  <1>. QED BY <1>3, <1>4, <1>5, <1>9

-----------------------------------------------------------------------------
(***************************************************************************)
(* The strengthening of HistoryKept and NoImplicitReplay: what a worker    *)
(* with a current version holds continues the stored run.                  *)
(*   - A node to be reconciled is in flight, and its handler is not one    *)
(*     that recovery may replay, in the stored run and in every copy       *)
(*     (StuckStays); else recovery could put it back to work.              *)
(*   - A copy whose version is current keeps the finished nodes, the paid  *)
(*     budget and the nodes to be reconciled of the stored run             *)
(*     (CopiesFollow): this is what the compare-and-swap of a checkpoint   *)
(*     gives, for only such a copy is ever saved.                          *)
(*   - The batch a worker carries out is in flight in its own copy         *)
(*     (BatchesInFlight), so that its results overwrite no finished node.  *)
(***************************************************************************)
StuckRuns(m) == \A n \in m.stuck : m.node[n] = "running" /\ HandlerOf[n] \notin ReplaySafe

Continues(old, new) ==
    /\ \A n \in Node : old.node[n] \in Terminal => new.node[n] = old.node[n]
    /\ \A p \in Pool : new.calls[p] >= old.calls[p]
    /\ \A n \in old.stuck : n \in new.stuck /\ new.attempt[n] = old.attempt[n]

InFlight(w) ==
    /\ denied[w] \subseteq batch[w] /\ todo[w] \subseteq batch[w]
    /\ pc[w] # "dispatch" => batch[w] = {}
    /\ \A n \in batch[w] : mem[w].node[n] = "running" /\ n \notin mem[w].stuck

StuckStays == StuckRuns(run) /\ \A w \in Worker : StuckRuns(mem[w])
CopiesFollow == \A w \in current : Continues(run, mem[w])
BatchesInFlight == \A w \in Worker : InFlight(w)

CopyInv == TypeOK /\ FailingStale /\ StuckStays /\ CopiesFollow /\ BatchesInFlight

(* What one step does to the stored run: the two action properties.        *)
StepKept ==
    /\ \A n \in Node : run.node[n] \in Terminal => run'.node[n] = run.node[n]
    /\ \A p \in Pool : run'.calls[p] >= run.calls[p]
    /\ \A n \in run.stuck :
          /\ run'.attempt[n] = run.attempt[n]
          /\ \/ n \in run'.stuck /\ run'.node[n] = "running"
             \/ run'.node[n] \in {"succeeded", "failed"}

LEMMA ContinuesOn ==
    ASSUME NEW a \in Run, NEW b \in Run, NEW c \in Run, Continues(a, b), Continues(b, c)
    PROVE  Continues(a, c)
  <1>1. \A p \in Pool : a.calls[p] \in Nat /\ b.calls[p] \in Nat /\ c.calls[p] \in Nat
    BY DEF Run
  <1>2. \A p \in Pool : c.calls[p] >= a.calls[p]
    BY <1>1 DEF Continues
  <1>3. \A n \in Node : a.node[n] \in Terminal => c.node[n] = a.node[n]
    BY DEF Continues
  <1>4. \A n \in a.stuck : n \in c.stuck /\ c.attempt[n] = a.attempt[n]
    BY DEF Continues
  <1>. QED BY <1>2, <1>3, <1>4 DEF Continues

LEMMA ContinuesSame ==
    ASSUME NEW a \in Run, NEW b, b.node = a.node, b.calls = a.calls, b.attempt = a.attempt,
           b.stuck = a.stuck
    PROVE  Continues(a, b)
  <1>1. \A p \in Pool : a.calls[p] \in Nat
    BY DEF Run
  <1>. QED BY <1>1 DEF Continues

LEMMA SameCopies ==
    ASSUME CopyInv, run' = run, current' \subseteq current, \A w \in current' : mem'[w] = mem[w],
           \A w \in Worker : mem'[w] = mem[w] \/ mem'[w].stuck = {}
    PROVE  StuckStays' /\ CopiesFollow' /\ StepKept
  <1>1. run \in Run
    BY DEF CopyInv, TypeOK
  <1>2. StuckStays'
    BY DEF CopyInv, StuckStays, StuckRuns
  <1>3. CopiesFollow'
    <2>1. \A w \in current' : w \in current
      OBVIOUS
    <2>. QED BY <2>1 DEF CopyInv, CopiesFollow, Continues
  <1>4. StepKept
    <2>1. \A p \in Pool : run.calls[p] \in Nat
      BY <1>1 DEF Run
    <2>. QED BY <2>1 DEF StepKept, CopyInv, StuckStays, StuckRuns
  <1>. QED BY <1>2, <1>3, <1>4

LEMMA ForgetCopies ==
    ASSUME TypeOK, NEW w \in Worker, Forget(w)
    PROVE  /\ \A v \in Worker \ {w} : mem'[v] = mem[v]
           /\ mem'[w].stuck = {}
  BY DEF Forget, NewRun, TypeOK

(* A worker that saves a run continuing its own copy continues the stored  *)
(* one, if the checkpoint accepts it.                                      *)
LEMMA CheckpointCopies ==
    ASSUME CopyInv, NEW w \in Worker, NEW m \in Run, NEW next \in Pcs,
           Continues(mem[w], m), StuckRuns(m), Checkpoint(w, m, next)
    PROVE  StuckStays' /\ CopiesFollow' /\ StepKept
  <1>1. TypeOK /\ run \in Run /\ mem[w] \in Run
    BY DEF CopyInv, TypeOK
  <1>2. CASE w \in current
    <2>1. run' = Merged(m) /\ Merged(m) \in Run
      BY <1>1, <1>2, MergedType DEF Checkpoint, StoreRow
    <2>2. /\ run'.node = m.node /\ run'.attempt = m.attempt /\ run'.stuck = m.stuck
          /\ run'.calls = m.calls
      BY <2>1, MergedKeeps
    <2>3. Continues(run, mem[w])
      BY <1>2 DEF CopyInv, CopiesFollow
    <2>4. Continues(run, m)
      BY <1>1, <2>3, ContinuesOn
    <2>5. StuckRuns(run')
      BY <2>2 DEF StuckRuns
    <2>6. StepKept
      BY <2>2, <2>4, <2>5 DEF StepKept, Continues, StuckRuns
    <2>7. \/ current' = {} /\ Forget(w)
          \/ current' = {w} /\ mem' = [mem EXCEPT ![w] = run']
      BY <1>2, <2>1 DEF Checkpoint
    <2>8. StuckStays'
      <3>1. ASSUME NEW v \in Worker PROVE StuckRuns(mem'[v])
        <4>1. StuckRuns(mem[v])
          BY DEF CopyInv, StuckStays
        <4>2. mem'[v] = mem[v] \/ mem'[v].stuck = {} \/ mem'[v] = run'
          BY <1>1, <2>7, ForgetCopies DEF TypeOK
        <4>. QED BY <2>5, <4>1, <4>2 DEF StuckRuns
      <3>. QED BY <2>5, <3>1 DEF StuckStays, StuckRuns
    <2>9. CopiesFollow'
      <3>1. current' = {} \/ (current' = {w} /\ mem'[w] = run')
        BY <1>1, <2>7 DEF TypeOK
      <3>2. Continues(run', run')
        BY <2>1, ContinuesSame
      <3>. QED BY <3>1, <3>2 DEF CopiesFollow, Continues
    <2>. QED BY <2>6, <2>8, <2>9
  <1>3. CASE w \notin current
    <2>1. Forget(w) /\ run' = run /\ current' = current
      BY <1>3 DEF Checkpoint, durable
    <2>2. \A v \in current' : mem'[v] = mem[v]
      BY <1>1, <1>3, <2>1, ForgetCopies DEF TypeOK
    <2>3. \A v \in Worker : mem'[v] = mem[v] \/ mem'[v].stuck = {}
      BY <1>1, <2>1, ForgetCopies
    <2>. QED BY <2>1, <2>2, <2>3, SameCopies
  <1>. QED BY <1>2, <1>3

LEMMA LocallyCopies ==
    ASSUME CopyInv, NEW w \in Worker, NEW m \in Run, NEW next \in Pcs,
           Continues(mem[w], m), StuckRuns(m), Locally(w, m, next)
    PROVE  StuckStays' /\ CopiesFollow' /\ StepKept
  <1>1. TypeOK /\ run \in Run /\ mem[w] \in Run
    BY DEF CopyInv, TypeOK
  <1>2. /\ mem' = [mem EXCEPT ![w] = m] /\ run' = run /\ current' = current
    BY DEF Locally, durable
  <1>3. mem'[w] = m /\ \A v \in Worker \ {w} : mem'[v] = mem[v]
    BY <1>1, <1>2 DEF TypeOK
  <1>4. StuckStays'
    BY <1>2, <1>3 DEF CopyInv, StuckStays, StuckRuns
  <1>5. w \in current => Continues(run, m)
    BY <1>1, ContinuesOn DEF CopyInv, CopiesFollow
  <1>6. CopiesFollow'
    BY <1>1, <1>2, <1>3, <1>5 DEF CopyInv, CopiesFollow, Continues, TypeOK
  <1>7. StepKept
    <2>1. \A p \in Pool : run.calls[p] \in Nat
      BY <1>1 DEF Run
    <2>. QED BY <1>2, <2>1 DEF StepKept, CopyInv, StuckStays, StuckRuns
  <1>. QED BY <1>4, <1>6, <1>7

(* A worker outside its batch has none; what it does leaves the others'.   *)
LEMMA BatchesAside ==
    ASSUME CopyInv, NEW w \in Worker, pc[w] # "dispatch", UNCHANGED <<batch, todo, denied>>,
           \A v \in Worker \ {w} : mem'[v] = mem[v] /\ pc'[v] = pc[v]
    PROVE  BatchesInFlight'
  <1> SUFFICES ASSUME NEW v \in Worker PROVE InFlight(v)'
    BY DEF BatchesInFlight
  <1>1. InFlight(v)
    BY DEF CopyInv, BatchesInFlight
  <1>2. CASE v = w
    BY <1>1, <1>2 DEF InFlight
  <1>3. CASE v # w
    <2>1. mem'[v] = mem[v] /\ pc'[v] = pc[v]
      BY <1>3
    <2>. QED BY <1>1, <2>1 DEF InFlight
  <1>. QED BY <1>2, <1>3

(* The steps of one worker leave the others' memory and position alone.    *)
LEMMA OthersAside ==
    ASSUME TypeOK, NEW w \in Worker, NEW m, NEW next,
           Checkpoint(w, m, next) \/ Locally(w, m, next)
    PROVE  \A v \in Worker \ {w} : mem'[v] = mem[v] /\ pc'[v] = pc[v]
  BY DEF TypeOK, Checkpoint, Locally, Forget

LEMMA ControllerCopies ==
    ASSUME CopyInv, NEW w \in Worker,
           \/ ConsultControl(w) \/ Verify(w) \/ DecideFail(w) \/ DecideFinish(w)
           \/ DecideExecute(w) \/ ReturnToController(w) \/ RequestApproval(w)
    PROVE  StuckStays' /\ CopiesFollow' /\ BatchesInFlight' /\ StepKept
  <1>1. TypeOK /\ mem[w] \in Run /\ StuckRuns(mem[w])
    BY DEF CopyInv, TypeOK, StuckStays
  <1>2. /\ pc[w] # "dispatch" /\ UNCHANGED <<batch, todo, denied>>
        /\ \E m \in Run, next \in Pcs \ {"dispatch"} :
              /\ m.attempt = mem[w].attempt /\ m.stuck = mem[w].stuck
              /\ m.calls = mem[w].calls
              /\ \A n \in Node : \/ m.node[n] = mem[w].node[n]
                                 \/ mem[w].node[n] = "pending" /\ m.node[n] = "ready"
              /\ Checkpoint(w, m, next) \/ Locally(w, m, next)
    BY <1>1, ControllerSaves
  <1>3. PICK m \in Run, next \in Pcs :
              /\ m.attempt = mem[w].attempt /\ m.stuck = mem[w].stuck
              /\ m.calls = mem[w].calls
              /\ \A n \in Node : \/ m.node[n] = mem[w].node[n]
                                 \/ mem[w].node[n] = "pending" /\ m.node[n] = "ready"
              /\ Checkpoint(w, m, next) \/ Locally(w, m, next)
    BY <1>2
  <1>4. \A n \in Node : mem[w].node[n] \in Terminal \cup {"running"}
                            => m.node[n] = mem[w].node[n]
    BY <1>3 DEF Terminal
  <1>5. Continues(mem[w], m)
    <2>1. \A p \in Pool : mem[w].calls[p] \in Nat
      BY <1>1 DEF Run
    <2>. QED BY <1>3, <1>4, <2>1 DEF Continues
  <1>6. StuckRuns(m)
    <2>1. mem[w].stuck \subseteq Node
      BY <1>1 DEF Run
    <2>. QED BY <1>1, <1>3, <1>4, <2>1 DEF StuckRuns
  <1>7. BatchesInFlight'
    BY <1>1, <1>2, <1>3, OthersAside, BatchesAside
  <1>. QED BY <1>3, <1>5, <1>6, <1>7, CheckpointCopies, LocallyCopies

(* Recovery reopens only nodes whose handler may be replayed, and those    *)
(* are never among the nodes to be reconciled.                             *)
LEMMA RecoveringContinues ==
    ASSUME CopyInv, NEW w \in Worker
    PROVE  Continues(mem[w], Recovering(w)) /\ StuckRuns(Recovering(w))
  <1>1. TypeOK /\ mem[w] \in Run /\ StuckRuns(mem[w])
    BY DEF CopyInv, TypeOK, StuckStays
  <1>2. \A n \in Interrupted(w) : n \in Node /\ mem[w].node[n] = "running"
    BY DEF Interrupted, Inflight
  <1>3. \A n \in Replayable(w) : n \in Interrupted(w) /\ HandlerOf[n] \in ReplaySafe
    BY DEF Replayable, MayReplay
  <1>4. \A n \in Interrupted(w) \ Replayable(w) : HandlerOf[n] \notin ReplaySafe
    BY DEF Replayable, MayReplay
  <1>5. \A n \in mem[w].stuck :
           n \in Node /\ n \notin Replayable(w) /\ mem[w].node[n] = "running"
    BY <1>1, <1>3 DEF StuckRuns, Run
  <1>6. Continues(mem[w], Recovering(w))
    <2>1. \A p \in Pool : mem[w].calls[p] \in Nat
      BY <1>1 DEF Run
    <2>2. \A n \in Node : mem[w].node[n] \in Terminal
                              => Recovering(w).node[n] = mem[w].node[n]
      BY <1>1, <1>2, <1>3, RecoveringKeeps DEF Terminal
    <2>. QED BY <1>1, <2>1, <2>2, RecoveringKeeps DEF Continues
  <1>7. StuckRuns(Recovering(w))
    <2> SUFFICES ASSUME NEW n \in Recovering(w).stuck
                 PROVE  Recovering(w).node[n] = "running" /\ HandlerOf[n] \notin ReplaySafe
      BY DEF StuckRuns
    <2>1. n \in mem[w].stuck \/ n \in Interrupted(w) \ Replayable(w)
      BY <1>1, RecoveringKeeps
    <2>2. n \in Node /\ n \notin Replayable(w) /\ mem[w].node[n] = "running"
          /\ HandlerOf[n] \notin ReplaySafe
      BY <1>1, <1>2, <1>4, <1>5, <2>1 DEF StuckRuns
    <2>. QED BY <1>1, <2>2, RecoveringKeeps
  <1>. QED BY <1>6, <1>7

(* What settles is open before, so nodes in flight and finished ones keep  *)
(* their status through marking and settling.                              *)
LEMMA SettlingKeeps ==
    ASSUME NEW st \in [Node -> NodeStatus], NEW final \in Settlements(st), NEW allowed,
           NEW n \in Node
    PROVE  /\ st[n] \notin Open => final[n] = st[n]
           /\ st[n] # "pending" => MarkReady(st, allowed)[n] = st[n]
           /\ final[n] = st[n] \/ final[n] \in {"blocked", "skipped"}
           /\ MarkReady(st, allowed)[n] = st[n] \/ MarkReady(st, allowed)[n] = "ready"
  <1>1. final[n] = Verdict(n, st, final)
    BY DEF Settlements
  <1>2. /\ st[n] \notin Open => final[n] = st[n]
        /\ final[n] = st[n] \/ final[n] \in {"blocked", "skipped"}
    BY <1>1 DEF Verdict
  <1>3. /\ st[n] # "pending" => MarkReady(st, allowed)[n] = st[n]
        /\ MarkReady(st, allowed)[n] = st[n] \/ MarkReady(st, allowed)[n] = "ready"
    BY DEF MarkReady, ReadyNodes
  <1>. QED BY <1>2, <1>3

LEMMA EnterCopies ==
    ASSUME CopyInv, NEW w \in Worker, PauseForReconciliation(w) \/ Prepare(w)
    PROVE  StuckStays' /\ CopiesFollow' /\ BatchesInFlight' /\ StepKept
  <1>1. TypeOK /\ mem[w] \in Run /\ Recovering(w) \in Run
    BY RecoveringType DEF CopyInv, TypeOK
  <1>2. pc[w] # "dispatch" /\ UNCHANGED <<batch, todo, denied>>
    BY DEF PauseForReconciliation, Prepare, working
  <1>3. Continues(mem[w], Recovering(w)) /\ StuckRuns(Recovering(w))
    BY RecoveringContinues
  <1>4. CASE PauseForReconciliation(w)
    <2> DEFINE m == [Recovering(w) EXCEPT !.status = "paused", !.asked = NoHandler]
    <2>1. /\ m \in Run /\ m.node = Recovering(w).node /\ m.stuck = Recovering(w).stuck
          /\ m.attempt = Recovering(w).attempt /\ m.calls = Recovering(w).calls
      BY <1>1 DEF Run, RunStatus, Scope
    <2>2. Checkpoint(w, m, "idle")
      BY <1>4 DEF PauseForReconciliation
    <2> HIDE DEF m
    <2>3. Continues(mem[w], m) /\ StuckRuns(m)
      BY <1>3, <2>1 DEF Continues, StuckRuns
    <2>4. BatchesInFlight'
      BY <1>1, <1>2, <2>2, OthersAside, BatchesAside
    <2>. QED BY <2>1, <2>2, <2>3, <2>4, CheckpointCopies DEF Pcs
  <1>5. CASE Prepare(w)
    <2> DEFINE marked == MarkReady(Recovering(w).node, selected[w])
               M(final, status) == [Recovering(w) EXCEPT !.node = final, !.status = status]
    <2>1. PICK final \in Settlements(marked), status \in RunStatus :
             /\ final \in [Node -> NodeStatus] /\ M(final, status) \in Run
             /\ Checkpoint(w, M(final, status), "loop") \/ Locally(w, M(final, status), "loop")
      BY <1>1, <1>5, PrepareSaves
    <2>2. marked \in [Node -> NodeStatus]
      BY <1>1, MarkReadyType DEF Run
    <2> DEFINE m == M(final, status)
    <2>3. /\ m.node = final /\ m.stuck = Recovering(w).stuck
          /\ m.attempt = Recovering(w).attempt /\ m.calls = Recovering(w).calls
      BY <1>1, <2>1 DEF Run
    <2> HIDE DEF m
    <2>4. \A n \in Node : Recovering(w).node[n] \in Terminal \cup {"running"}
                              => marked[n] = Recovering(w).node[n]
      BY <1>1, SettlingKeeps DEF Run, Terminal, MarkReady, ReadyNodes
    <2> HIDE DEF marked
    <2>5. \A n \in Node : marked[n] \in Terminal \cup {"running"} => final[n] = marked[n]
      BY <2>1, <2>2, SettlingKeeps DEF Terminal, Open
    <2>6. \A n \in Node : Recovering(w).node[n] \in Terminal \cup {"running"}
                              => m.node[n] = Recovering(w).node[n]
      BY <2>3, <2>4, <2>5
    <2>7. Continues(Recovering(w), m)
      <3>1. \A p \in Pool : Recovering(w).calls[p] \in Nat
        BY <1>1 DEF Run
      <3>. QED BY <2>3, <2>6, <3>1 DEF Continues
    <2>8. StuckRuns(m)
      <3>1. Recovering(w).stuck \subseteq Node
        BY <1>1 DEF Run
      <3>. QED BY <1>3, <2>3, <2>6, <3>1 DEF StuckRuns
    <2>9. m \in Run /\ (Checkpoint(w, m, "loop") \/ Locally(w, m, "loop"))
      BY <2>1 DEF m
    <2>10. Continues(mem[w], m)
      BY <1>1, <1>3, <2>7, <2>9, ContinuesOn
    <2>11. BatchesInFlight'
      BY <1>1, <1>2, <2>9, OthersAside, BatchesAside
    <2>. QED BY <2>8, <2>9, <2>10, <2>11, CheckpointCopies, LocallyCopies DEF Pcs
  <1>. QED BY <1>4, <1>5

(* A batch starts nodes its own copy offers, so no node to be reconciled.  *)
LEMMA StartCopies ==
    ASSUME CopyInv, NEW w \in Worker, NEW lead \in {0} \cup Node, StartBatch(w, lead)
    PROVE  StuckStays' /\ CopiesFollow' /\ BatchesInFlight' /\ StepKept
  <1>1. TypeOK /\ mem[w] \in Run /\ StuckRuns(mem[w])
    BY DEF CopyInv, TypeOK, StuckStays
  <1> DEFINE chosen == Chosen(w, lead)
             refused == Refused(w, lead)
  <1>2. /\ chosen \subseteq Node /\ refused \subseteq chosen
        /\ \A n \in chosen : mem[w].node[n] = "ready"
    BY ChosenStartable
  <1>3. PICK started \in Run :
           /\ started.node = [n \in Node |-> IF n \in chosen THEN "running"
                                             ELSE mem[w].node[n]]
           /\ \A n \in Node \ chosen : started.attempt[n] = mem[w].attempt[n]
           /\ started.stuck = mem[w].stuck
           /\ started.calls = [p \in Pool |-> mem[w].calls[p] + Cardinality(
                  Charged(chosen \ refused, p, mem[w].replay))]
           /\ Checkpoint(w, started, "dispatch")
           /\ \/ /\ w \in current
                 /\ batch' = [batch EXCEPT ![w] = chosen]
                 /\ todo' = [todo EXCEPT ![w] = chosen \ refused]
                 /\ denied' = [denied EXCEPT ![w] = refused]
              \/ w \notin current /\ UNCHANGED <<batch, todo, denied>>
    BY <1>1, StartSavesAll
  <1>4. pc[w] = "loop"
    BY DEF StartBatch
  <1> HIDE DEF chosen, refused
  <1>5. mem[w].stuck \subseteq Node \ chosen
    BY <1>1, <1>2 DEF StuckRuns, Run
  <1>6. Continues(mem[w], started)
    <2>1. \A p \in Pool : mem[w].calls[p] \in Nat
                          /\ Cardinality(Charged(chosen \ refused, p, mem[w].replay)) \in Nat
      <3>1. chosen \ refused \in SUBSET Node
        BY <1>2
      <3>. QED BY <1>1, <3>1, ChargedCount DEF Run
    <2>2. \A p \in Pool : started.calls[p] >= mem[w].calls[p]
      BY <1>3, <2>1
    <2>3. \A n \in Node : mem[w].node[n] \in Terminal => started.node[n] = mem[w].node[n]
      BY <1>2, <1>3 DEF Terminal
    <2>. QED BY <1>3, <1>5, <2>2, <2>3 DEF Continues
  <1>7. StuckRuns(started)
    BY <1>1, <1>3, <1>5 DEF StuckRuns
  <1>8. StuckStays' /\ CopiesFollow' /\ StepKept
    BY <1>3, <1>6, <1>7, CheckpointCopies DEF Pcs
  <1>9. BatchesInFlight'
    <2>1. CASE w \notin current
      BY <1>1, <1>3, <1>4, <2>1, OthersAside, BatchesAside
    <2>2. CASE w \in current
      <3> SUFFICES ASSUME NEW v \in Worker PROVE InFlight(v)'
        BY DEF BatchesInFlight
      <3>1. CASE v # w
        <4>1. mem'[v] = mem[v] /\ pc'[v] = pc[v]
          BY <1>1, <1>3, <3>1, OthersAside
        <4>2. batch'[v] = batch[v] /\ todo'[v] = todo[v] /\ denied'[v] = denied[v]
          BY <1>1, <1>3, <2>2, <3>1 DEF TypeOK
        <4>. QED BY <4>1, <4>2 DEF InFlight, CopyInv, BatchesInFlight
      <3>2. CASE v = w
        <4>1. batch'[w] = chosen /\ todo'[w] = chosen \ refused /\ denied'[w] = refused
          BY <1>1, <1>3, <2>2 DEF TypeOK
        <4>2. mem'[w] = Merged(started) /\ pc'[w] = "dispatch"
          BY <1>1, <1>3, <2>2 DEF Checkpoint, TypeOK
        <4>3. mem'[w].node = started.node /\ mem'[w].stuck = started.stuck
          BY <4>2, MergedKeeps
        <4>4. \A n \in chosen : started.node[n] = "running" /\ n \notin started.stuck
          BY <1>2, <1>3, <1>5
        <4>. QED BY <1>2, <3>2, <4>1, <4>2, <4>3, <4>4 DEF InFlight
      <3>. QED BY <3>1, <3>2
    <2>. QED BY <2>1, <2>2
  <1>. QED BY <1>8, <1>9

(* Results fall on the nodes of the batch, all of them in flight.          *)
LEMMA CollectCopies ==
    ASSUME CopyInv, NEW w \in Worker, Collect(w)
    PROVE  StuckStays' /\ CopiesFollow' /\ BatchesInFlight' /\ StepKept
  <1>1. TypeOK /\ mem[w] \in Run /\ StuckRuns(mem[w]) /\ InFlight(w)
    BY DEF CopyInv, TypeOK, StuckStays, BatchesInFlight
  <1>2. PICK applied \in [Node -> NodeStatus] : \E final \in Settlements(applied) :
        \E saved \in Run :
           /\ \A n \in Node \ (batch[w] \cup denied[w]) : applied[n] = mem[w].node[n]
           /\ saved.node = MarkReady(final, Node)
           /\ saved.attempt = mem[w].attempt /\ saved.calls = mem[w].calls
           /\ saved.stuck = mem[w].stuck \ batch[w]
           /\ Checkpoint(w, saved, "loop")
    BY <1>1, CollectSavesAll
  <1>3. PICK final \in Settlements(applied), saved \in Run :
           /\ \A n \in Node \ (batch[w] \cup denied[w]) : applied[n] = mem[w].node[n]
           /\ saved.node = MarkReady(final, Node)
           /\ saved.attempt = mem[w].attempt /\ saved.calls = mem[w].calls
           /\ saved.stuck = mem[w].stuck \ batch[w]
           /\ Checkpoint(w, saved, "loop")
    BY <1>2
  <1>4. final \in [Node -> NodeStatus]
    BY SettlementsType
  <1>5. ASSUME NEW n \in Node \ batch[w], mem[w].node[n] \in Terminal \cup {"running"}
        PROVE  saved.node[n] = mem[w].node[n]
    <2>1. applied[n] = mem[w].node[n]
      BY <1>1, <1>3 DEF InFlight
    <2>2. final[n] = applied[n]
      BY <1>5, <2>1, SettlingKeeps DEF Terminal, Open
    <2>3. MarkReady(final, Node)[n] = final[n]
      <3>1. final[n] # "pending"
        BY <1>5, <2>1, <2>2 DEF Terminal
      <3>. QED BY <1>4, <3>1 DEF MarkReady, ReadyNodes
    <2>. QED BY <1>3, <2>1, <2>2, <2>3
  <1>6. \A n \in Node : mem[w].node[n] \in Terminal => n \notin batch[w]
    BY <1>1 DEF InFlight, Terminal
  <1>7. \A n \in mem[w].stuck : n \in Node \ batch[w] /\ mem[w].node[n] = "running"
    BY <1>1 DEF InFlight, StuckRuns, Run
  <1>8. Continues(mem[w], saved)
    <2>1. \A p \in Pool : mem[w].calls[p] \in Nat
      BY <1>1 DEF Run
    <2>2. \A n \in Node : mem[w].node[n] \in Terminal => saved.node[n] = mem[w].node[n]
      BY <1>5, <1>6
    <2>. QED BY <1>3, <1>7, <2>1, <2>2 DEF Continues
  <1>9. StuckRuns(saved)
    BY <1>1, <1>3, <1>5, <1>7 DEF StuckRuns
  <1>10. StuckStays' /\ CopiesFollow' /\ StepKept
    BY <1>3, <1>8, <1>9, CheckpointCopies DEF Pcs
  <1>11. BatchesInFlight'
    <2> SUFFICES ASSUME NEW v \in Worker PROVE InFlight(v)'
      BY DEF BatchesInFlight
    <2>1. /\ batch' = [batch EXCEPT ![w] = {}] /\ denied' = [denied EXCEPT ![w] = {}]
          /\ todo' = todo /\ todo[w] = {}
      BY DEF Collect
    <2>2. CASE v # w
      <3>1. mem'[v] = mem[v] /\ pc'[v] = pc[v]
        BY <1>1, <1>3, <2>2, OthersAside
      <3>2. batch'[v] = batch[v] /\ todo'[v] = todo[v] /\ denied'[v] = denied[v]
        BY <1>1, <2>1, <2>2 DEF TypeOK
      <3>. QED BY <3>1, <3>2 DEF InFlight, CopyInv, BatchesInFlight
    <2>3. CASE v = w
      BY <1>1, <2>1, <2>3 DEF InFlight, TypeOK
    <2>. QED BY <2>2, <2>3
  <1>. QED BY <1>10, <1>11

(* A claimed copy is the stored run, but for its status and control.       *)
LEMMA ClaimCopies ==
    ASSUME CopyInv, NEW w \in Worker, Claim(w)
    PROVE  StuckStays' /\ CopiesFollow' /\ BatchesInFlight' /\ StepKept
  <1>1. TypeOK /\ run \in Run
    BY DEF CopyInv, TypeOK
  <1> DEFINE stored == [run EXCEPT !.status = IF @ = "absent" THEN "created" ELSE @]
             held == [stored EXCEPT !.request = control.request, !.grant = control.grant]
  <1>2. /\ run' = stored /\ mem' = [mem EXCEPT ![w] = held] /\ current' = current \cup {w}
        /\ pc[w] = "idle" /\ pc' = [pc EXCEPT ![w] = "control"]
        /\ UNCHANGED <<batch, todo, denied>>
    BY DEF Claim, StartOrRestore, working
  <1>3. /\ stored.node = run.node /\ stored.attempt = run.attempt
        /\ stored.stuck = run.stuck /\ stored.calls = run.calls
        /\ held.node = run.node /\ held.attempt = run.attempt
        /\ held.stuck = run.stuck /\ held.calls = run.calls
    BY <1>1 DEF Run
  <1> HIDE DEF stored, held
  <1>4. /\ mem'[w] = held
        /\ \A v \in Worker \ {w} : mem'[v] = mem[v] /\ pc'[v] = pc[v]
    BY <1>1, <1>2 DEF TypeOK
  <1>5. \A p \in Pool : run.calls[p] \in Nat
    BY <1>1 DEF Run
  <1>6. StuckStays'
    BY <1>2, <1>3, <1>4 DEF CopyInv, StuckStays, StuckRuns
  <1>7. CopiesFollow'
    <2> SUFFICES ASSUME NEW v \in current' PROVE Continues(run', mem'[v])
      BY DEF CopiesFollow, Continues
    <2>1. CASE v = w
      BY <1>2, <1>3, <1>4, <1>5, <2>1 DEF Continues
    <2>2. CASE v # w
      <3>1. v \in current /\ v \in Worker
        BY <1>1, <1>2, <2>2 DEF TypeOK
      <3>2. Continues(run, mem[v])
        BY <3>1 DEF CopyInv, CopiesFollow
      <3>. QED BY <1>2, <1>3, <1>4, <2>2, <3>1, <3>2 DEF Continues
    <2>. QED BY <2>1, <2>2
  <1>8. BatchesInFlight'
    BY <1>2, <1>4, BatchesAside
  <1>9. StepKept
    BY <1>2, <1>3, <1>5 DEF StepKept, CopyInv, StuckStays, StuckRuns
  <1>. QED BY <1>6, <1>7, <1>8, <1>9

(* Finalizing keeps finished nodes, and fails the nodes in flight.         *)
LEMMA FinalizedKeeps ==
    ASSUME NEW m \in Run, NEW status \in RunStatus
    PROVE  LET f == Finalized(m, status) IN
           /\ f.attempt = m.attempt /\ f.calls = m.calls /\ f.stuck = {}
           /\ f.status = status /\ f.grant = m.grant /\ f.replay = m.replay
           /\ \A n \in Node : /\ m.node[n] \in Terminal => f.node[n] = m.node[n]
                              /\ m.node[n] = "running" => f.node[n] = "failed"
                              /\ f.node[n] \in Terminal
  BY DEF Finalized, Run, NodeStatus, Terminal, Open

LEMMA FinalizingCopies ==
    ASSUME CopyInv, NEW m \in Run, NEW status \in RunStatus, Continues(run, m), StuckRuns(m),
           StoreRow(Finalized(m, status)), current' = {},
           \A v \in Worker : mem'[v] = mem[v] \/ mem'[v].stuck = {}
    PROVE  StuckStays' /\ CopiesFollow' /\ StepKept
  <1>1. run' = Finalized(m, status)
    BY DEF StoreRow
  <1>2. /\ run'.attempt = m.attempt /\ run'.calls = m.calls /\ run'.stuck = {}
        /\ \A n \in Node : /\ m.node[n] \in Terminal => run'.node[n] = m.node[n]
                           /\ m.node[n] = "running" => run'.node[n] = "failed"
    BY <1>1, FinalizedKeeps
  <1>3. StuckStays'
    BY <1>2 DEF CopyInv, StuckStays, StuckRuns
  <1>4. StepKept
    <2>1. \A n \in run.stuck : n \in Node
      BY DEF CopyInv, TypeOK, Run
    <2>2. \A n \in run.stuck : run'.attempt[n] = run.attempt[n] /\ run'.node[n] = "failed"
      BY <1>2, <2>1 DEF Continues, StuckRuns
    <2>3. \A n \in Node : run.node[n] \in Terminal => run'.node[n] = run.node[n]
      BY <1>2 DEF Continues
    <2>. QED BY <1>2, <2>2, <2>3 DEF StepKept, Continues
  <1>. QED BY <1>3, <1>4 DEF CopiesFollow

LEMMA EndCopies ==
    ASSUME CopyInv, NEW w \in Worker,
           \/ Finish(w) \/ FailTask(w) \/ DeadlineExceeded(w) \/ RefuseResult(w)
    PROVE  StuckStays' /\ CopiesFollow' /\ BatchesInFlight' /\ StepKept
  <1>1. TypeOK /\ run \in Run /\ mem[w] \in Run /\ StuckRuns(mem[w]) /\ StuckRuns(run)
    BY DEF CopyInv, TypeOK, StuckStays
  <1>2. /\ pc[w] # "dispatch" /\ UNCHANGED <<batch, todo, denied>> /\ Forget(w)
        /\ \A v \in Worker \ {w} : pc'[v] = pc[v]
    BY <1>1 DEF Finish, FailTask, DeadlineExceeded, RefuseResult, working, TypeOK
  <1>3. /\ \A v \in Worker \ {w} : mem'[v] = mem[v]
        /\ \A v \in Worker : mem'[v] = mem[v] \/ mem'[v].stuck = {}
    BY <1>1, <1>2, ForgetCopies
  <1>4. BatchesInFlight'
    BY <1>2, <1>3, BatchesAside
  <1>5. ASSUME run' = run, current' \subseteq current, w \notin current'
        PROVE  StuckStays' /\ CopiesFollow' /\ StepKept
    <2>1. \A v \in current' : mem'[v] = mem[v]
      BY <1>1, <1>3, <1>5 DEF TypeOK
    <2>. QED BY <1>3, <1>5, <2>1, SameCopies
  <1>6. CASE Finish(w)
    <2>1. CASE w \in current
      <3>1. StoreRow(Finalized(mem[w], "completed")) /\ current' = {}
        BY <1>6, <2>1 DEF Finish
      <3>2. Continues(run, mem[w])
        BY <2>1 DEF CopyInv, CopiesFollow
      <3>. QED BY <1>1, <1>3, <1>4, <3>1, <3>2, FinalizingCopies DEF RunStatus
    <2>2. CASE w \notin current
      <3>1. run' = run /\ current' = current
        BY <1>6, <2>2 DEF Finish, durable
      <3>. QED BY <1>4, <1>5, <2>2, <3>1
    <2>. QED BY <2>1, <2>2
  <1>7. CASE FailTask(w)
    <2>1. CASE task.status # "completed"
      <3>1. StoreRow(Finalized(run, "failed")) /\ current' = {}
        BY <1>7, <2>1 DEF FailTask
      <3>2. Continues(run, run)
        BY <1>1, ContinuesSame
      <3>. QED BY <1>1, <1>3, <1>4, <3>1, <3>2, FinalizingCopies DEF RunStatus
    <2>2. CASE task.status = "completed"
      <3>1. run' = run /\ current' = current
        BY <1>7, <2>2 DEF FailTask, durable
      <3>2. StuckStays' /\ CopiesFollow' /\ StepKept
        <4>1. pc[w] = "failing"
          BY <1>7 DEF FailTask
        <4>. QED BY <1>5, <3>1, <4>1 DEF CopyInv, FailingStale
      <3>. QED BY <1>4, <3>2
    <2>. QED BY <2>1, <2>2
  <1>8. CASE DeadlineExceeded(w) \/ RefuseResult(w)
    <2>1. run' = run /\ current' = current \ {w}
      BY <1>8 DEF DeadlineExceeded, RefuseResult, durable
    <2>. QED BY <1>4, <1>5, <2>1
  <1>. QED BY <1>6, <1>7, <1>8

LEMMA InvokeCopies ==
    ASSUME CopyInv, NEW w \in Worker, NEW n \in Node, Invoke(w, n)
    PROVE  StuckStays' /\ CopiesFollow' /\ BatchesInFlight' /\ StepKept
  <1>1. /\ run' = run /\ current' = current /\ mem' = mem /\ pc' = pc
        /\ batch' = batch /\ denied' = denied /\ todo' = [todo EXCEPT ![w] = @ \ {n}]
    BY DEF Invoke, durable
  <1>2. StuckStays' /\ CopiesFollow' /\ StepKept
    BY <1>1, SameCopies
  <1>3. \A v \in Worker : todo'[v] \subseteq todo[v]
    BY <1>1 DEF CopyInv, TypeOK
  <1>4. BatchesInFlight'
    BY <1>1, <1>3 DEF CopyInv, BatchesInFlight, InFlight
  <1>. QED BY <1>2, <1>4

LEMMA FaultCopies ==
    ASSUME CopyInv,
           \/ \E w \in Worker : Crash(w) \/ RecoverTask(w)
           \/ LeaseLapses \/ HeartbeatFails
    PROVE  StuckStays' /\ CopiesFollow' /\ BatchesInFlight' /\ StepKept
  <1>1. TypeOK
    BY DEF CopyInv
  <1>2. ASSUME NEW w \in Worker, Crash(w)
        PROVE  StuckStays' /\ CopiesFollow' /\ BatchesInFlight' /\ StepKept
    <2>1. /\ run' = run /\ current' = current \ {w} /\ Forget(w)
          /\ pc' = [pc EXCEPT ![w] = "idle"]
          /\ batch' = [batch EXCEPT ![w] = {}] /\ todo' = [todo EXCEPT ![w] = {}]
          /\ denied' = [denied EXCEPT ![w] = {}]
      BY <1>2 DEF Crash
    <2>2. /\ \A v \in Worker \ {w} : mem'[v] = mem[v]
          /\ \A v \in Worker : mem'[v] = mem[v] \/ mem'[v].stuck = {}
      BY <1>1, <2>1, ForgetCopies
    <2>3. \A v \in current' : mem'[v] = mem[v]
      BY <1>1, <2>1, <2>2 DEF TypeOK
    <2>4. StuckStays' /\ CopiesFollow' /\ StepKept
      BY <2>1, <2>2, <2>3, SameCopies
    <2>5. BatchesInFlight'
      <3> SUFFICES ASSUME NEW v \in Worker PROVE InFlight(v)'
        BY DEF BatchesInFlight
      <3>1. CASE v = w
        BY <1>1, <2>1, <3>1 DEF InFlight, TypeOK
      <3>2. CASE v # w
        <4>1. /\ mem'[v] = mem[v] /\ pc'[v] = pc[v] /\ batch'[v] = batch[v]
              /\ todo'[v] = todo[v] /\ denied'[v] = denied[v]
          BY <1>1, <2>1, <2>2, <3>2 DEF TypeOK
        <4>. QED BY <4>1 DEF InFlight, CopyInv, BatchesInFlight
      <3>. QED BY <3>1, <3>2
    <2>. QED BY <2>4, <2>5
  <1>3. CASE LeaseLapses \/ HeartbeatFails \/ \E w \in Worker : RecoverTask(w)
    <2>1. UNCHANGED <<run, current, mem, pc, batch, todo, denied>>
      BY <1>3 DEF LeaseLapses, HeartbeatFails, RecoverTask, working
    <2>2. StuckStays' /\ CopiesFollow' /\ StepKept
      BY <2>1, SameCopies
    <2>. QED BY <2>1, <2>2 DEF CopyInv, BatchesInFlight, InFlight
  <1>. QED BY <1>2, <1>3

(* The operator settles one node to be reconciled; nothing else a user     *)
(* does touches a node.                                                    *)
LEMMA UserCopies ==
    ASSUME CopyInv, User
    PROVE  StuckStays' /\ CopiesFollow' /\ BatchesInFlight' /\ StepKept
  <1>1. TypeOK /\ run \in Run /\ StuckRuns(run)
    BY DEF CopyInv, TypeOK, StuckStays
  <1>2. UNCHANGED <<mem, pc, batch, todo, denied>>
    BY DEF User, Pause, Approve, Reject, Resume, Reconcile, working
  <1>3. BatchesInFlight'
    BY <1>2 DEF CopyInv, BatchesInFlight, InFlight
  <1>4. CASE Pause \/ Approve \/ Resume
    <2>1. run' = run /\ current' = current
      BY <1>4 DEF Pause, Approve, Resume
    <2>. QED BY <1>2, <1>3, <2>1, SameCopies
  <1>5. CASE Reject
    <2>1. /\ run'.node = run.node /\ run'.stuck = run.stuck /\ run'.calls = run.calls
          /\ run'.attempt = run.attempt /\ current' = {}
      BY <1>1, <1>5 DEF Reject, StoreRow, Run
    <2>2. StuckStays' /\ CopiesFollow'
      BY <1>2, <2>1 DEF CopyInv, StuckStays, StuckRuns, CopiesFollow
    <2>3. StepKept
      <3>1. \A p \in Pool : run.calls[p] \in Nat
        BY <1>1 DEF Run
      <3>. QED BY <1>1, <2>1, <3>1 DEF StepKept, StuckRuns
    <2>. QED BY <1>3, <2>2, <2>3
  <1>6. ASSUME NEW n \in Node, NEW outcome \in {"succeeded", "failed"}, Reconcile(n, outcome)
        PROVE  StuckStays' /\ CopiesFollow' /\ BatchesInFlight' /\ StepKept
    <2>1. /\ run'.node = [run.node EXCEPT ![n] = outcome] /\ run'.stuck = run.stuck \ {n}
          /\ run'.calls = run.calls /\ run'.attempt = run.attempt
          /\ current' = {} /\ run.node[n] = "running"
      BY <1>1, <1>6 DEF Reconcile, StoreRow, Run
    <2>2. /\ run'.node[n] = outcome
          /\ \A k \in Node \ {n} : run'.node[k] = run.node[k]
      BY <1>1, <2>1 DEF Run
    <2>3. run.stuck \subseteq Node
      BY <1>1 DEF Run
    <2>4. StuckStays' /\ CopiesFollow'
      BY <1>1, <1>2, <2>1, <2>2, <2>3 DEF CopyInv, StuckStays, StuckRuns, CopiesFollow
    <2>5. StepKept
      <3>1. \A p \in Pool : run.calls[p] \in Nat
        BY <1>1 DEF Run
      <3>2. \A k \in Node : run.node[k] \in Terminal => run'.node[k] = run.node[k]
        BY <2>1, <2>2 DEF Terminal
      <3>3. \A k \in run.stuck : \/ k \in run'.stuck /\ run'.node[k] = "running"
                                 \/ run'.node[k] \in {"succeeded", "failed"}
        BY <1>1, <2>1, <2>2, <2>3 DEF StuckRuns
      <3>. QED BY <2>1, <3>1, <3>2, <3>3 DEF StepKept
    <2>. QED BY <1>3, <2>4, <2>5
  <1>. QED BY <1>4, <1>5, <1>6 DEF User

LEMMA StepCopies ==
    ASSUME OnceInv, CopyInv, [Next]_vars
    PROVE  OnceInv' /\ CopyInv' /\ StepKept
  <1>1. OnceInv' /\ TypeOK' /\ FailingStale'
    BY StepOnce DEF OnceInv
  <1>2. CASE UNCHANGED vars
    <2>1. UNCHANGED <<run, current, mem, pc, batch, todo, denied>>
      BY <1>2 DEF vars, durable, working
    <2>2. StuckStays' /\ CopiesFollow' /\ StepKept
      BY <2>1, SameCopies
    <2>3. BatchesInFlight'
      BY <2>1 DEF CopyInv, BatchesInFlight, InFlight
    <2>. QED BY <1>1, <2>2, <2>3 DEF CopyInv
  <1>3. CASE Next
    <2>1. StuckStays' /\ CopiesFollow' /\ BatchesInFlight' /\ StepKept
      BY <1>2, <1>3, NextCases, ClaimCopies, ControllerCopies, EnterCopies, StartCopies,
         InvokeCopies, CollectCopies, EndCopies, FaultCopies, UserCopies DEF CopyInv
    <2>. QED BY <1>1, <2>1 DEF CopyInv
  <1>. QED BY <1>2, <1>3

LEMMA InitOnce == Init => OnceInv
  <1> SUFFICES ASSUME Init PROVE OnceInv
    OBVIOUS
  <1>1. SingleCall
    BY DEF Init, SingleCall, OfferedUncalled, OneCaller, CurrentAgrees
  <1>2. FailingStale
    BY DEF Init, FailingStale
  <1>. QED BY <1>1, <1>2, InitType DEF OnceInv

LEMMA InitCopies == Init => CopyInv
  <1> SUFFICES ASSUME Init PROVE CopyInv
    OBVIOUS
  <1>1. StuckStays
    BY DEF Init, StuckStays, StuckRuns, NewRun
  <1>2. CopiesFollow /\ FailingStale
    BY DEF Init, CopiesFollow, FailingStale
  <1>3. BatchesInFlight
    BY DEF Init, BatchesInFlight, InFlight
  <1>. QED BY <1>1, <1>2, <1>3, InitType DEF CopyInv

(* What a checkpoint said of a finished node is never taken back and the   *)
(* budget spent is never given back, in every behaviour: a late worker     *)
(* either holds a copy that continues the stored run, or its checkpoint is *)
(* refused (save_checkpoint).                                              *)
THEOREM HistoryPreserved == Spec => HistoryKept
  <1>1. Init => OnceInv /\ CopyInv
    BY InitOnce, InitCopies
  <1>2. OnceInv /\ CopyInv /\ [Next]_vars => OnceInv' /\ CopyInv' /\ StepKept
    BY StepCopies
  <1>3. StepKept => /\ \A n \in Node : run.node[n] \in Terminal => run'.node[n] = run.node[n]
                    /\ \A p \in Pool : run'.calls[p] >= run.calls[p]
    BY DEF StepKept
  <1>. QED BY <1>1, <1>2, <1>3, PTL DEF Spec, HistoryKept

(* A node waiting for reconciliation stays in flight, and no new attempt   *)
(* at it begins, until the operator states its outcome or the task ends    *)
(* (_recover_inflight, reconcile, finalize).                               *)
THEOREM NothingReplayed == Spec => NoImplicitReplay
  <1>1. Init => OnceInv /\ CopyInv
    BY InitOnce, InitCopies
  <1>2. OnceInv /\ CopyInv /\ [Next]_vars => OnceInv' /\ CopyInv' /\ StepKept
    BY StepCopies
  <1>3. StepKept => \A n \in run.stuck :
                       /\ run'.attempt[n] = run.attempt[n]
                       /\ \/ n \in run'.stuck /\ run'.node[n] = "running"
                          \/ run'.node[n] \in {"succeeded", "failed"}
    BY DEF StepKept
  <1>. QED BY <1>1, <1>2, <1>3, PTL DEF Spec, NoImplicitReplay

-----------------------------------------------------------------------------
(***************************************************************************)
(* The strengthening of ApprovalPerCall.  An approval that has been given  *)
(* and not spent is either a grant still out (GrantOut: in the row, or in  *)
(* a copy that can still be saved) or already committed to one node a      *)
(* worker is about to call (Holders).  Covered: the approvals left pay for *)
(* all of these, one each; several workers may hold one, left behind by    *)
(* lost leases.  SoleGranted: no batch has two nodes on one grant.         *)
(***************************************************************************)
Holders(h) == {w \in Worker : \E n \in todo[w] : HandlerOf[n] = h}

GrantOut(h) == \/ control.grant = h \/ run.grant = h
               \/ \E w \in current : mem[w].grant = h

SoleGranted(h) == \A w \in Worker : \A n, k \in todo[w] :
                      HandlerOf[n] = h /\ HandlerOf[k] = h => n = k

Covered(h) == /\ IsFiniteSet(Holders(h))
              /\ credit[h] >= Cardinality(Holders(h)) + (IF GrantOut(h) THEN 1 ELSE 0)

GrantsCovered == \A h \in NeedsApproval : SoleGranted(h) /\ Covered(h)

ApprovalInv == TypeOK /\ GrantsCovered

LEMMA Privileges ==
    ASSUME NEW h \in NeedsApproval
    PROVE  h \in Handler /\ h # NoHandler
  BY ExecutorValid DEF ExecutorAssumption

LEMMA FewerHolders ==
    ASSUME NEW h, IsFiniteSet(Holders(h)), \A v \in Worker : todo'[v] \subseteq todo[v]
    PROVE  /\ IsFiniteSet(Holders(h)') /\ Cardinality(Holders(h)') <= Cardinality(Holders(h))
           /\ Cardinality(Holders(h)') \in Nat /\ Cardinality(Holders(h)) \in Nat
  <1>1. Holders(h)' \in SUBSET Holders(h)
    BY DEF Holders
  <1>. QED BY <1>1, FS_Subset, FS_CardinalityType

(* A step that gives no approval, calls nothing, and makes no grant        *)
(* available that was not.                                                 *)
LEMMA QuietApproval ==
    ASSUME ApprovalInv, \A v \in Worker : todo'[v] \subseteq todo[v], credit' = credit,
           \A h \in NeedsApproval : GrantOut(h)' => GrantOut(h)
    PROVE  GrantsCovered'
  <1> SUFFICES ASSUME NEW h \in NeedsApproval PROVE SoleGranted(h)' /\ Covered(h)'
    BY DEF GrantsCovered
  <1>1. SoleGranted(h) /\ Covered(h) /\ credit[h] \in Int
    BY Privileges DEF ApprovalInv, GrantsCovered, TypeOK
  <1>2. SoleGranted(h)'
    BY <1>1 DEF SoleGranted
  <1>3. /\ IsFiniteSet(Holders(h)') /\ Cardinality(Holders(h)') <= Cardinality(Holders(h))
        /\ Cardinality(Holders(h)') \in Nat /\ Cardinality(Holders(h)) \in Nat
    BY <1>1, FewerHolders DEF Covered
  <1>4. credit'[h] >= Cardinality(Holders(h)') + (IF GrantOut(h)' THEN 1 ELSE 0)
    BY <1>1, <1>3 DEF Covered
  <1>. QED BY <1>2, <1>3, <1>4 DEF Covered

(* Saving a copy hands its grant or the row's on, and makes none.          *)
LEMMA CheckpointGrants ==
    ASSUME TypeOK, NEW w \in Worker, NEW m \in Run, NEW next,
           m.grant \in {mem[w].grant, NoHandler}, Checkpoint(w, m, next) \/ Locally(w, m, next)
    PROVE  \A h \in NeedsApproval : GrantOut(h)' => GrantOut(h)
  <1> SUFFICES ASSUME NEW h \in NeedsApproval, GrantOut(h)' PROVE GrantOut(h)
    OBVIOUS
  <1>1. h # NoHandler
    BY Privileges
  <1>2. CASE Checkpoint(w, m, next) /\ w \in current
    <2>1. run' = Merged(m) /\ control'.grant = Merged(m).grant
      BY <1>2 DEF Checkpoint, StoreRow
    <2>2. current' = {} \/ (current' = {w} /\ mem' = [mem EXCEPT ![w] = Merged(m)])
      BY <1>2 DEF Checkpoint
    <2>3. h = Merged(m).grant
      BY <2>1, <2>2 DEF GrantOut, TypeOK
    <2>4. Merged(m).grant \in {m.grant, control.grant}
      BY DEF Merged, Run
    <2>. QED BY <1>1, <1>2, <2>3, <2>4 DEF GrantOut
  <1>3. CASE Checkpoint(w, m, next) /\ w \notin current
    <2>1. Forget(w) /\ run' = run /\ control' = control /\ current' = current
      BY <1>3 DEF Checkpoint, durable
    <2>2. \A v \in current' : mem'[v] = mem[v]
      BY <1>3, <2>1 DEF Forget, TypeOK
    <2>. QED BY <2>1, <2>2 DEF GrantOut
  <1>4. CASE Locally(w, m, next)
    <2>1. /\ mem' = [mem EXCEPT ![w] = m] /\ run' = run /\ control' = control
          /\ current' = current
      BY <1>4 DEF Locally, durable
    <2>2. \A v \in current' : mem'[v].grant \in {mem[v].grant, NoHandler}
      BY <2>1 DEF TypeOK
    <2>. QED BY <1>1, <2>1, <2>2 DEF GrantOut
  <1>. QED BY <1>2, <1>3, <1>4

LEMMA SavingApproval ==
    ASSUME ApprovalInv, NEW w \in Worker,
           \/ ConsultControl(w) \/ Verify(w) \/ DecideFail(w) \/ DecideFinish(w)
           \/ DecideExecute(w) \/ ReturnToController(w) \/ RequestApproval(w)
           \/ PauseForReconciliation(w) \/ Prepare(w) \/ Collect(w)
    PROVE  GrantsCovered'
  <1>1. TypeOK /\ mem[w] \in Run /\ Recovering(w) \in Run
    BY RecoveringType DEF ApprovalInv, TypeOK
  <1>2. /\ todo' = todo /\ credit' = credit
        /\ \E m \in Run, next \in Pcs : /\ m.grant \in {mem[w].grant, NoHandler}
                                        /\ Checkpoint(w, m, next) \/ Locally(w, m, next)
    <2>1. CASE \/ ConsultControl(w) \/ Verify(w) \/ DecideFail(w) \/ DecideFinish(w)
               \/ DecideExecute(w) \/ ReturnToController(w) \/ RequestApproval(w)
      BY <1>1, <2>1, ControllerSaves DEF history
    <2>2. CASE PauseForReconciliation(w)
      <3> DEFINE m == [Recovering(w) EXCEPT !.status = "paused", !.asked = NoHandler]
      <3>1. m \in Run /\ m.grant = Recovering(w).grant
        BY <1>1 DEF Run, RunStatus, Scope
      <3>2. /\ Checkpoint(w, m, "idle") /\ todo' = todo /\ credit' = credit
        BY <2>2 DEF PauseForReconciliation, history
      <3>. QED BY <1>1, <3>1, <3>2, RecoveringKeeps DEF Pcs
    <2>3. CASE Prepare(w)
      <3>1. PICK final \in Settlements(MarkReady(Recovering(w).node, selected[w])),
                 status \in RunStatus :
               LET m == [Recovering(w) EXCEPT !.node = final, !.status = status] IN
               m \in Run /\ (Checkpoint(w, m, "loop") \/ Locally(w, m, "loop"))
        BY <1>1, <2>3, PrepareSaves
      <3> DEFINE m == [Recovering(w) EXCEPT !.node = final, !.status = status]
      <3>2. m.grant = Recovering(w).grant
        BY <1>1 DEF Run
      <3>3. todo' = todo /\ credit' = credit
        BY <2>3 DEF Prepare, working, history
      <3>. QED BY <1>1, <3>1, <3>2, <3>3, RecoveringKeeps DEF Pcs
    <2>4. CASE Collect(w)
      <3>1. \E saved \in Run : saved.grant = mem[w].grant /\ Checkpoint(w, saved, "loop")
        BY <1>1, <2>4, CollectSavesAll
      <3>2. todo' = todo /\ credit' = credit
        BY <2>4 DEF Collect, history
      <3>. QED BY <3>1, <3>2 DEF Pcs
    <2>. QED BY <2>1, <2>2, <2>3, <2>4
  <1>3. PICK m \in Run, next \in Pcs : /\ m.grant \in {mem[w].grant, NoHandler}
                                       /\ Checkpoint(w, m, next) \/ Locally(w, m, next)
    BY <1>2
  <1>4. \A h \in NeedsApproval : GrantOut(h)' => GrantOut(h)
    BY <1>1, <1>3, CheckpointGrants
  <1>. QED BY <1>2, <1>4, QuietApproval

(* The batch a grant opens holds one node on it, and the checkpoint that   *)
(* starts the batch leaves the grant nowhere.                              *)
LEMMA StartApproval ==
    ASSUME ApprovalInv, NEW w \in Worker, NEW lead \in {0} \cup Node, StartBatch(w, lead)
    PROVE  GrantsCovered'
  <1>1. TypeOK /\ mem[w] \in Run
    BY DEF ApprovalInv, TypeOK
  <1> DEFINE chosen == Chosen(w, lead)
             refused == Refused(w, lead)
  <1>2. /\ chosen \subseteq Node /\ 0 \notin Node
        /\ lead # 0 => lead \in Node /\ HandlerOf[lead] = mem[w].grant
        /\ \A n \in chosen : HandlerOf[n] \in NeedsApproval => n = lead
    BY ChosenStartable, PlanValid DEF PlanAssumption, Node
  <1>3. PICK started \in Run :
           /\ started.status = "running"
           /\ started.grant = IF lead = 0 THEN mem[w].grant ELSE NoHandler
           /\ Checkpoint(w, started, "dispatch")
           /\ \/ /\ w \in current
                 /\ todo' = [todo EXCEPT ![w] = chosen \ refused]
              \/ w \notin current /\ UNCHANGED <<batch, todo, denied>>
           /\ UNCHANGED <<selected, faults, history>>
    BY <1>1, StartSavesAll
  <1> HIDE DEF chosen, refused
  <1>4. CASE w \notin current
    <2>1. todo' = todo /\ credit' = credit
      BY <1>3, <1>4 DEF history
    <2>2. \A h \in NeedsApproval : GrantOut(h)' => GrantOut(h)
      BY <1>1, <1>3, CheckpointGrants
    <2>. QED BY <2>1, <2>2, QuietApproval
  <1>5. CASE w \in current
    <2>1. /\ todo'[w] \subseteq chosen /\ \A v \in Worker \ {w} : todo'[v] = todo[v]
      BY <1>1, <1>3, <1>5 DEF TypeOK
    <2> SUFFICES ASSUME NEW h \in NeedsApproval PROVE SoleGranted(h)' /\ Covered(h)'
      BY DEF GrantsCovered
    <2>2. SoleGranted(h) /\ Covered(h) /\ credit[h] \in Int /\ credit'[h] = credit[h]
      BY <1>3, Privileges DEF ApprovalInv, GrantsCovered, TypeOK, history
    <2>3. SoleGranted(h)'
      BY <1>2, <2>1, <2>2 DEF SoleGranted
    <2>4. Cardinality(Holders(h)) \in Nat /\ IsFiniteSet(Holders(h))
      BY <2>2, FS_CardinalityType DEF Covered
    <2>5. CASE ~\E n \in todo'[w] : HandlerOf[n] = h
      <3>1. Holders(h)' \in SUBSET Holders(h)
        BY <2>1, <2>5 DEF Holders
      <3>2. /\ IsFiniteSet(Holders(h)') /\ Cardinality(Holders(h)') \in Nat
            /\ Cardinality(Holders(h)') <= Cardinality(Holders(h))
        BY <2>4, <3>1, FS_Subset, FS_CardinalityType
      <3>3. GrantOut(h)' => GrantOut(h)
        BY <1>1, <1>3, CheckpointGrants
      <3>4. credit'[h] >= Cardinality(Holders(h)') + (IF GrantOut(h)' THEN 1 ELSE 0)
        BY <2>2, <2>4, <3>2, <3>3 DEF Covered
      <3>. QED BY <2>3, <3>2, <3>4 DEF Covered
    <2>6. CASE \E n \in todo'[w] : HandlerOf[n] = h
      <3>1. lead # 0 /\ h = mem[w].grant
        BY <1>2, <2>1, <2>6
      <3>2. GrantOut(h)
        BY <1>5, <3>1 DEF GrantOut
      <3>3. Merged(started).grant = NoHandler
        BY <1>3, <3>1 DEF Merged, Run
      <3>4. /\ run'.grant = NoHandler /\ control'.grant = NoHandler
            /\ current' = {w} /\ mem'[w].grant = NoHandler
        BY <1>1, <1>3, <1>5, <3>3 DEF Checkpoint, StoreRow, TypeOK
      <3>5. ~GrantOut(h)'
        BY <3>4, Privileges DEF GrantOut
      <3>6. Holders(h)' \in SUBSET (Holders(h) \cup {w})
        BY <2>1 DEF Holders
      <3>7. /\ IsFiniteSet(Holders(h) \cup {w})
            /\ Cardinality(Holders(h) \cup {w})
                 \in {Cardinality(Holders(h)), Cardinality(Holders(h)) + 1}
        BY <2>4, FS_AddElement
      <3>8. Cardinality(Holders(h) \cup {w}) \in Nat
        BY <3>7, FS_CardinalityType
      <3>9. /\ IsFiniteSet(Holders(h)') /\ Cardinality(Holders(h)') \in Nat
            /\ Cardinality(Holders(h)') <= Cardinality(Holders(h) \cup {w})
        BY <3>6, <3>7, FS_Subset, FS_CardinalityType
      <3>10. credit'[h] >= Cardinality(Holders(h)') + (IF GrantOut(h)' THEN 1 ELSE 0)
        BY <2>2, <2>4, <3>2, <3>5, <3>7, <3>8, <3>9 DEF Covered
      <3>. QED BY <2>3, <3>9, <3>10 DEF Covered
    <2>. QED BY <2>5, <2>6
  <1>. QED BY <1>4, <1>5

(* A call spends the approval its worker held for it.                      *)
LEMMA InvokeApproval ==
    ASSUME ApprovalInv, NEW w \in Worker, NEW k \in Node, Invoke(w, k)
    PROVE  GrantsCovered'
  <1>1. /\ k \in todo[w] /\ todo' = [todo EXCEPT ![w] = todo[w] \ {k}]
        /\ credit' = [credit EXCEPT ![HandlerOf[k]] = credit[HandlerOf[k]] - 1]
        /\ UNCHANGED <<run, control, current, mem>>
    BY DEF Invoke, durable
  <1>2. TypeOK /\ HandlerOf[k] \in Handler
    BY ExecutorValid DEF ApprovalInv, ExecutorAssumption
  <1>3. /\ todo'[w] = todo[w] \ {k} /\ \A v \in Worker \ {w} : todo'[v] = todo[v]
    BY <1>1, <1>2 DEF TypeOK
  <1> SUFFICES ASSUME NEW h \in NeedsApproval PROVE SoleGranted(h)' /\ Covered(h)'
    BY DEF GrantsCovered
  <1>4. SoleGranted(h) /\ Covered(h) /\ credit[h] \in Int
    BY <1>2, Privileges DEF ApprovalInv, GrantsCovered, TypeOK
  <1>5. SoleGranted(h)'
    BY <1>3, <1>4 DEF SoleGranted
  <1>6. GrantOut(h)' <=> GrantOut(h)
    BY <1>1 DEF GrantOut
  <1>7. IsFiniteSet(Holders(h)) /\ Cardinality(Holders(h)) \in Nat
    BY <1>4, FS_CardinalityType DEF Covered
  <1>8. CASE HandlerOf[k] = h
    <2>1. credit'[h] = credit[h] - 1
      BY <1>1, <1>2, <1>8 DEF TypeOK
    <2>2. w \in Holders(h) /\ Holders(h)' = Holders(h) \ {w}
      BY <1>1, <1>3, <1>4, <1>8 DEF Holders, SoleGranted
    <2>3. IsFiniteSet(Holders(h)') /\ Cardinality(Holders(h)') = Cardinality(Holders(h)) - 1
      BY <1>7, <2>2, FS_RemoveElement
    <2>4. credit'[h] >= Cardinality(Holders(h)') + (IF GrantOut(h)' THEN 1 ELSE 0)
      BY <1>4, <1>6, <1>7, <2>1, <2>3 DEF Covered
    <2>. QED BY <1>5, <2>3, <2>4 DEF Covered
  <1>9. CASE HandlerOf[k] # h
    <2>1. credit'[h] = credit[h]
      BY <1>1, <1>2, <1>9, Privileges DEF TypeOK
    <2>2. \A v \in Worker : todo'[v] \subseteq todo[v]
      BY <1>3
    <2>3. /\ IsFiniteSet(Holders(h)') /\ Cardinality(Holders(h)') <= Cardinality(Holders(h))
          /\ Cardinality(Holders(h)') \in Nat
      BY <1>7, <2>2, FewerHolders
    <2>4. credit'[h] >= Cardinality(Holders(h)') + (IF GrantOut(h)' THEN 1 ELSE 0)
      BY <1>4, <1>6, <1>7, <2>1, <2>3 DEF Covered
    <2>. QED BY <1>5, <2>3, <2>4 DEF Covered
  <1>. QED BY <1>8, <1>9

LEMMA ClaimApproval ==
    ASSUME ApprovalInv, NEW w \in Worker, Claim(w)
    PROVE  GrantsCovered'
  <1>1. TypeOK /\ run \in Run
    BY DEF ApprovalInv, TypeOK
  <1>2. /\ run'.grant = run.grant /\ mem'[w].grant = control.grant /\ control' = control
        /\ \A v \in Worker \ {w} : mem'[v] = mem[v]
        /\ current' = current \cup {w} /\ todo' = todo /\ credit' = credit
    BY <1>1 DEF Claim, StartOrRestore, Run, TypeOK, working, history
  <1>3. \A h \in NeedsApproval : GrantOut(h)' => GrantOut(h)
    BY <1>1, <1>2 DEF GrantOut, TypeOK
  <1>. QED BY <1>2, <1>3, QuietApproval

LEMMA EndApproval ==
    ASSUME ApprovalInv, NEW w \in Worker,
           \/ Finish(w) \/ FailTask(w) \/ DeadlineExceeded(w) \/ RefuseResult(w)
    PROVE  GrantsCovered'
  <1>1. TypeOK /\ run \in Run /\ mem[w] \in Run
    BY DEF ApprovalInv, TypeOK
  <1>2. todo' = todo /\ credit' = credit /\ Forget(w)
    BY DEF Finish, FailTask, DeadlineExceeded, RefuseResult, working, history
  <1>3. /\ \A v \in Worker \ {w} : mem'[v] = mem[v]
        /\ mem'[w].grant = NoHandler
    BY <1>1, <1>2 DEF Forget, NewRun, TypeOK
  <1>4. ASSUME NEW m \in Run, NEW status \in RunStatus, StoreRow(Finalized(m, status))
        PROVE  run'.grant = m.grant /\ control'.grant = m.grant
    BY <1>4, FinalizedKeeps DEF StoreRow
  <1>5. \/ run' = run /\ control' = control /\ current' \subseteq current
        \/ w \in current /\ current' = {} /\ StoreRow(Finalized(mem[w], "completed"))
        \/ current' = {} /\ StoreRow(Finalized(run, "failed"))
    BY DEF Finish, FailTask, DeadlineExceeded, RefuseResult, durable
  <1>6. ASSUME NEW h \in NeedsApproval, GrantOut(h)' PROVE GrantOut(h)
    <2>1. CASE run' = run /\ control' = control /\ current' \subseteq current
      BY <1>1, <1>3, <1>6, <2>1, Privileges DEF GrantOut, TypeOK
    <2>2. CASE w \in current /\ current' = {} /\ StoreRow(Finalized(mem[w], "completed"))
      BY <1>1, <1>4, <1>6, <2>2 DEF GrantOut, RunStatus
    <2>3. CASE current' = {} /\ StoreRow(Finalized(run, "failed"))
      BY <1>1, <1>4, <1>6, <2>3 DEF GrantOut, RunStatus
    <2>. QED BY <1>5, <2>1, <2>2, <2>3
  <1>. QED BY <1>2, <1>6, QuietApproval

LEMMA FaultApproval ==
    ASSUME ApprovalInv,
           \/ \E w \in Worker : Crash(w) \/ RecoverTask(w)
           \/ LeaseLapses \/ HeartbeatFails
    PROVE  GrantsCovered'
  <1>1. TypeOK
    BY DEF ApprovalInv
  <1>2. ASSUME NEW w \in Worker, Crash(w) PROVE GrantsCovered'
    <2>1. /\ run' = run /\ control' = control /\ current' = current \ {w} /\ Forget(w)
          /\ todo' = [todo EXCEPT ![w] = {}] /\ credit' = credit
      BY <1>2 DEF Crash, history
    <2>2. \A v \in Worker : todo'[v] \subseteq todo[v]
      BY <1>1, <2>1 DEF TypeOK
    <2>3. \A v \in current' : v \in current /\ mem'[v] = mem[v]
      BY <1>1, <2>1 DEF Forget, TypeOK
    <2>4. \A h \in NeedsApproval : GrantOut(h)' => GrantOut(h)
      BY <2>1, <2>3 DEF GrantOut
    <2>. QED BY <2>1, <2>2, <2>4, QuietApproval
  <1>3. CASE LeaseLapses \/ HeartbeatFails \/ \E w \in Worker : RecoverTask(w)
    <2>1. UNCHANGED <<run, control, current, mem, todo, credit>>
      BY <1>3 DEF LeaseLapses, HeartbeatFails, RecoverTask, working, history
    <2>. QED BY <2>1, QuietApproval DEF GrantOut
  <1>. QED BY <1>2, <1>3

(* Only approving adds a grant, and it adds the approval that pays for it. *)
LEMMA UserApproval ==
    ASSUME ApprovalInv, User
    PROVE  GrantsCovered'
  <1>1. TypeOK /\ run \in Run
    BY DEF ApprovalInv, TypeOK
  <1>2. mem' = mem /\ todo' = todo
    BY DEF User, Pause, Approve, Reject, Resume, Reconcile, working
  <1>3. ASSUME credit' = credit, current' = current \/ current' = {},
               run'.grant \in {run.grant, control.grant},
               control'.grant \in {run.grant, control.grant, NoHandler}
        PROVE  GrantsCovered'
    <2>1. \A h \in NeedsApproval : GrantOut(h)' => GrantOut(h)
      BY <1>2, <1>3, Privileges DEF GrantOut
    <2>. QED BY <1>2, <1>3, <2>1, QuietApproval
  <1>4. CASE Pause
    BY <1>3, <1>4 DEF Pause, RequestControl, history
  <1>5. CASE Reject
    <2>1. run'.grant = run.grant /\ control'.grant = run.grant
      BY <1>1, <1>5 DEF Reject, StoreRow, Run
    <2>. QED BY <1>3, <1>5, <2>1 DEF Reject, history
  <1>6. CASE Resume
    BY <1>3, <1>6 DEF Resume, RequestControl, history
  <1>7. ASSUME NEW n \in Node, NEW outcome \in {"succeeded", "failed"}, Reconcile(n, outcome)
        PROVE  GrantsCovered'
    <2>1. /\ run'.grant \in {run.grant, control.grant} /\ control'.grant = run'.grant
          /\ current' = {} /\ credit' = credit
      BY <1>1, <1>7 DEF Reconcile, StoreRow, Run, history
    <2>. QED BY <1>3, <2>1
  <1>8. CASE Approve
    <2>1. /\ run' = run /\ current' = current /\ control'.grant = run.asked
          /\ credit' = [credit EXCEPT ![run.asked] = credit[run.asked] + 1]
      BY <1>8 DEF Approve, RequestControl
    <2> SUFFICES ASSUME NEW h \in NeedsApproval PROVE SoleGranted(h)' /\ Covered(h)'
      BY DEF GrantsCovered
    <2>2. SoleGranted(h) /\ Covered(h) /\ credit[h] \in Int
      BY <1>1, Privileges DEF ApprovalInv, GrantsCovered, TypeOK
    <2>3. SoleGranted(h)' /\ Holders(h)' = Holders(h)
      BY <1>2, <2>2 DEF SoleGranted, Holders
    <2>4. IsFiniteSet(Holders(h)) /\ Cardinality(Holders(h)) \in Nat
      BY <2>2, FS_CardinalityType DEF Covered
    <2>5. CASE h = run.asked
      <3>1. credit'[h] = credit[h] + 1
        BY <1>1, <2>1, <2>5, Privileges DEF TypeOK
      <3>2. credit'[h] >= Cardinality(Holders(h)') + (IF GrantOut(h)' THEN 1 ELSE 0)
        BY <2>2, <2>3, <2>4, <3>1 DEF Covered
      <3>. QED BY <2>3, <2>4, <3>2 DEF Covered
    <2>6. CASE h # run.asked
      <3>1. credit'[h] = credit[h]
        BY <1>1, <2>1, <2>6, Privileges DEF TypeOK
      <3>2. GrantOut(h)' => GrantOut(h)
        BY <1>2, <2>1, <2>6 DEF GrantOut
      <3>3. credit'[h] >= Cardinality(Holders(h)') + (IF GrantOut(h)' THEN 1 ELSE 0)
        BY <2>2, <2>3, <2>4, <3>1, <3>2 DEF Covered
      <3>. QED BY <2>3, <2>4, <3>3 DEF Covered
    <2>. QED BY <2>5, <2>6
  <1>. QED BY <1>4, <1>5, <1>6, <1>7, <1>8 DEF User

LEMMA StepApproval ==
    ASSUME ApprovalInv, [Next]_vars
    PROVE  ApprovalInv'
  <1>1. TypeOK'
    BY StepType DEF ApprovalInv
  <1>2. CASE UNCHANGED vars
    <2>1. UNCHANGED <<run, control, current, mem, todo, credit>>
      BY <1>2 DEF vars, durable, working, history
    <2>2. GrantsCovered'
      BY <2>1, QuietApproval DEF GrantOut
    <2>. QED BY <1>1, <2>2 DEF ApprovalInv
  <1>3. CASE Next
    <2>1. GrantsCovered'
      BY <1>2, <1>3, NextCases, ClaimApproval, SavingApproval, StartApproval,
         InvokeApproval, EndApproval, FaultApproval, UserApproval DEF ApprovalInv
    <2>. QED BY <1>1, <2>1 DEF ApprovalInv
  <1>. QED BY <1>2, <1>3

(* Every call of a handler that requires approval spends an approval of    *)
(* its own, in every behaviour: no grant opens two nodes, or outlives its  *)
(* use in the row, in the stored run or in a copy that can still be saved. *)
THEOREM ApprovalSpent == Spec => []ApprovalPerCall
  <1>1. Init => ApprovalInv
    <2> SUFFICES ASSUME Init PROVE ApprovalInv
      OBVIOUS
    <2>1. ASSUME NEW h \in NeedsApproval PROVE SoleGranted(h) /\ Covered(h)
      <3>1. Holders(h) = {} /\ SoleGranted(h)
        BY DEF Init, Holders, SoleGranted
      <3>2. ~GrantOut(h)
        BY Privileges DEF Init, GrantOut, NewRun
      <3>3. credit[h] = 0
        BY Privileges DEF Init
      <3>. QED BY <3>1, <3>2, <3>3, FS_EmptySet DEF Covered
    <2>. QED BY <2>1, InitType DEF ApprovalInv, GrantsCovered
  <1>2. ApprovalInv /\ [Next]_vars => ApprovalInv'
    BY StepApproval
  <1>3. ApprovalInv => ApprovalPerCall
    <2> SUFFICES ASSUME ApprovalInv, NEW h \in NeedsApproval PROVE credit[h] >= 0
      BY DEF ApprovalPerCall
    <2>1. Covered(h) /\ credit[h] \in Int
      BY Privileges DEF ApprovalInv, GrantsCovered, TypeOK
    <2>2. Cardinality(Holders(h)) \in Nat
      BY <2>1, FS_CardinalityType DEF Covered
    <2>. QED BY <2>1, <2>2 DEF Covered
  <1>. QED BY <1>1, <1>2, <1>3, PTL DEF Spec

-----------------------------------------------------------------------------
(***************************************************************************)
(* The strengthening of TerminalTaskSettled.  A task that is over left no  *)
(* copy that a checkpoint would accept (Over), and a current copy about to *)
(* be committed, or marked completed on the way there, is settled as the   *)
(* commit needs it (AboutToFinish).                                        *)
(***************************************************************************)
Over == TaskOver => current = {}

(* The run status a plan whose nodes are all over and good gets.           *)
AllSettled(m) == \A n \in Node : /\ m.node[n] \in Terminal
                                 /\ m.node[n] \in Broken => n \in Recovered(m.node)

FitToStand(m, place) ==
    /\ place = "finish" => MadeGood(m)
    /\ place = "loop" /\ m.status = "completed" => AllSettled(m)

AboutToFinish == \A w \in current : FitToStand(mem[w], pc[w])

SettledInv == TypeOK /\ Over /\ TerminalTaskSettled /\ AboutToFinish

LEMMA RefreshCompleted ==
    ASSUME NEW st, RefreshRunStatus(st, "running") = "completed"
    PROVE  \A n \in Node : /\ st[n] \in Terminal
                           /\ st[n] \in Broken => n \in Recovered(st)
  BY DEF RefreshRunStatus

LEMMA SameFit ==
    ASSUME NEW a, NEW b, a.node = b.node, a.status = b.status, NEW place, FitToStand(a, place)
    PROVE  FitToStand(b, place)
  BY DEF FitToStand, MadeGood, AllSettled

(* A step that leaves the task's status and the run alone and brings no    *)
(* current copy closer to the commit.                                      *)
LEMMA QuietSettled ==
    ASSUME SettledInv, current' \subseteq current, run' = run \/ ~TaskOver',
           task'.status = task.status \/ ~TaskOver',
           \A v \in current' : mem'[v] = mem[v] /\ pc'[v] = pc[v]
    PROVE  Over' /\ TerminalTaskSettled' /\ AboutToFinish'
  <1>1. Over' /\ TerminalTaskSettled'
    <2>1. CASE TaskOver'
      <3>1. task'.status = task.status /\ run' = run /\ TaskOver
        BY <2>1 DEF TaskOver
      <3>. QED BY <3>1 DEF SettledInv, Over, TerminalTaskSettled, MadeGood
    <2>2. CASE ~TaskOver'
      BY <2>2 DEF Over, TerminalTaskSettled
    <2>. QED BY <2>1, <2>2
  <1>2. AboutToFinish'
    BY DEF SettledInv, AboutToFinish, FitToStand, MadeGood, AllSettled
  <1>. QED BY <1>1, <1>2

LEMMA CheckpointSettled ==
    ASSUME SettledInv, NEW w \in Worker, NEW m \in Run, NEW next \in Pcs,
           FitToStand(m, next), Checkpoint(w, m, next) \/ Locally(w, m, next)
    PROVE  Over' /\ TerminalTaskSettled' /\ AboutToFinish'
  <1>1. TypeOK
    BY DEF SettledInv
  <1>2. CASE Checkpoint(w, m, next) /\ w \in current
    <2>1. ~TaskOver
      BY <1>2 DEF SettledInv, Over
    <2>2. task'.status = Projected(m.status)
      BY <1>1, <1>2 DEF Checkpoint, TypeOK
    <2>3. ~TaskOver'
      BY <2>1, <2>2 DEF Projected, TaskOver
    <2>4. current' = {} \/ (current' = {w} /\ mem'[w] = Merged(m) /\ pc'[w] = next)
      BY <1>1, <1>2 DEF Checkpoint, TypeOK
    <2>5. FitToStand(Merged(m), next)
      BY MergedKeeps, SameFit
    <2>6. AboutToFinish'
      <3> SUFFICES ASSUME NEW v \in current' PROVE FitToStand(mem'[v], pc'[v])
        BY DEF AboutToFinish, FitToStand, MadeGood, AllSettled
      <3>. QED BY <2>4, <2>5
    <2>. QED BY <2>3, <2>6 DEF Over, TerminalTaskSettled
  <1>3. CASE Checkpoint(w, m, next) /\ w \notin current
    <2>1. Forget(w) /\ run' = run /\ task' = task /\ current' = current
          /\ pc' = [pc EXCEPT ![w] = "failing"]
      BY <1>3 DEF Checkpoint, durable
    <2>2. \A v \in current' : mem'[v] = mem[v] /\ pc'[v] = pc[v]
      BY <1>1, <1>3, <2>1 DEF Forget, TypeOK
    <2>. QED BY <2>1, <2>2, QuietSettled
  <1>4. CASE Locally(w, m, next)
    <2>1. /\ run' = run /\ task' = task /\ current' = current
          /\ mem' = [mem EXCEPT ![w] = m] /\ pc' = [pc EXCEPT ![w] = next]
      BY <1>4 DEF Locally, durable
    <2>2. Over' /\ TerminalTaskSettled'
      BY <2>1 DEF SettledInv, Over, TerminalTaskSettled, TaskOver, MadeGood
    <2>3. AboutToFinish'
      <3> SUFFICES ASSUME NEW v \in current PROVE FitToStand(mem'[v], pc'[v])
        BY <2>1 DEF AboutToFinish, FitToStand, MadeGood, AllSettled
      <3>1. v = w \/ (mem'[v] = mem[v] /\ pc'[v] = pc[v])
        BY <1>1, <2>1 DEF TypeOK
      <3>2. w \in Worker => mem'[w] = m /\ pc'[w] = next
        BY <1>1, <2>1 DEF TypeOK
      <3>3. FitToStand(mem[v], pc[v])
        BY DEF SettledInv, AboutToFinish
      <3>. QED BY <3>1, <3>2, <3>3
    <2>. QED BY <2>2, <2>3
  <1>. QED BY <1>2, <1>3, <1>4

LEMMA ControllerSettled ==
    ASSUME SettledInv, NEW w \in Worker,
           \/ ConsultControl(w) \/ Verify(w) \/ DecideFail(w) \/ DecideFinish(w)
           \/ DecideExecute(w) \/ ReturnToController(w) \/ RequestApproval(w)
    PROVE  Over' /\ TerminalTaskSettled' /\ AboutToFinish'
  <1>1. TypeOK /\ mem[w] \in Run
    BY DEF SettledInv, TypeOK
  <1>2. \A place \in Pcs \ {"finish", "loop"} : \A m : FitToStand(m, place)
    BY DEF FitToStand
  <1>3. ASSUME NEW status \in RunStatus
        PROVE  LET m == [mem[w] EXCEPT !.status = status, !.asked = NoHandler]
               IN  m \in Run /\ m.node = mem[w].node /\ m.status = status
    BY <1>1, <1>3 DEF Run, Scope
  <1>4. CASE Verify(w)
    BY <1>1, <1>2, <1>4, CheckpointSettled DEF Verify, Pcs
  <1>5. CASE ConsultControl(w)
    <2>1. CASE control.request = "pause"
      BY <1>2, <1>3, <1>5, <2>1, CheckpointSettled DEF ConsultControl, Pcs, RunStatus
    <2>2. CASE control.request # "pause"
      BY <1>1, <1>2, <1>5, <2>2, CheckpointSettled DEF ConsultControl, Pcs
    <2>. QED BY <2>1, <2>2
  <1>6. CASE DecideFail(w)
    BY <1>2, <1>3, <1>6, CheckpointSettled DEF DecideFail, Pcs, RunStatus
  <1>7. CASE DecideFinish(w)
    <2> DEFINE m == [mem[w] EXCEPT !.status = "completed", !.asked = NoHandler]
    <2>1. m \in Run /\ m.node = mem[w].node
      BY <1>3 DEF RunStatus
    <2>2. Checkpoint(w, m, "finish") /\ Unachieved(mem[w]) = {}
      BY <1>7 DEF DecideFinish
    <2> HIDE DEF m
    <2>3. FitToStand(m, "finish")
      BY <2>1, <2>2 DEF FitToStand, MadeGood, Unachieved
    <2>. QED BY <2>1, <2>2, <2>3, CheckpointSettled DEF Pcs
  <1>8. CASE DecideExecute(w)
    <2> DEFINE named == IF Provider = "goal" THEN Node ELSE Observed(mem[w])
               opened == [n \in Node |-> IF n \in named /\ mem[w].node[n] = "pending"
                                         THEN "ready" ELSE mem[w].node[n]]
               m == [mem[w] EXCEPT !.status = "running", !.asked = NoHandler,
                                   !.node = opened]
    <2>1. opened \in [Node -> NodeStatus]
      BY <1>1 DEF Run, NodeStatus
    <2> HIDE DEF opened
    <2>2. m \in Run
      BY <1>1, <2>1 DEF Run, RunStatus, Scope
    <2>3. Locally(w, m, "enter")
      BY <1>8 DEF DecideExecute, opened
    <2> HIDE DEF m
    <2>. QED BY <1>2, <2>2, <2>3, CheckpointSettled DEF Pcs
  <1>9. CASE ReturnToController(w)
    <2>1. CASE mem[w].status = "completed" /\ \A n \in Node : mem[w].node[n] # "partial"
      <3>1. Locally(w, mem[w], "finish") /\ pc[w] = "loop"
        BY <1>9, <2>1 DEF ReturnToController
      <3>2. CASE w \in current
        <4>1. AllSettled(mem[w])
          BY <2>1, <3>1, <3>2 DEF SettledInv, AboutToFinish, FitToStand
        <4>2. FitToStand(mem[w], "finish")
          BY <2>1, <4>1 DEF FitToStand, AllSettled, MadeGood, Terminal, Achieved, Broken
        <4>. QED BY <1>1, <3>1, <4>2, CheckpointSettled DEF Pcs
      <3>3. CASE w \notin current
        <4>1. /\ run' = run /\ task' = task /\ current' = current
              /\ mem' = [mem EXCEPT ![w] = mem[w]] /\ pc' = [pc EXCEPT ![w] = "finish"]
          BY <3>1 DEF Locally, durable
        <4>2. \A v \in current' : mem'[v] = mem[v] /\ pc'[v] = pc[v]
          BY <1>1, <3>3, <4>1 DEF TypeOK
        <4>. QED BY <4>1, <4>2, QuietSettled
      <3>. QED BY <3>2, <3>3
    <2>2. CASE ~(mem[w].status = "completed" /\ \A n \in Node : mem[w].node[n] # "partial")
      <3>1. Locally(w, mem[w], "control")
        BY <1>9, <2>2 DEF ReturnToController
      <3>. QED BY <1>1, <1>2, <3>1, CheckpointSettled DEF Pcs
    <2>. QED BY <2>1, <2>2
  <1>10. CASE RequestApproval(w)
    <2>1. PICK n \in Node :
             Checkpoint(w, [mem[w] EXCEPT !.status = "waiting_approval",
                                          !.asked = HandlerOf[n],
                                          !.grant = NoHandler], "idle")
      BY <1>10 DEF RequestApproval
    <2>2. HandlerOf[n] \in Scope
      BY ExecutorValid DEF ExecutorAssumption, Scope
    <2>3. [mem[w] EXCEPT !.status = "waiting_approval", !.asked = HandlerOf[n],
                         !.grant = NoHandler] \in Run
      BY <1>1, <2>2 DEF Run, RunStatus, Scope
    <2>. QED BY <1>2, <2>1, <2>3, CheckpointSettled DEF Pcs
  <1>. QED BY <1>4, <1>5, <1>6, <1>7, <1>8, <1>9, <1>10

LEMMA ExecutorSettled ==
    ASSUME SettledInv, NEW w \in Worker,
           \/ PauseForReconciliation(w) \/ Prepare(w) \/ Collect(w)
           \/ \E lead \in {0} \cup Node : StartBatch(w, lead)
    PROVE  Over' /\ TerminalTaskSettled' /\ AboutToFinish'
  <1>1. TypeOK /\ mem[w] \in Run /\ Recovering(w) \in Run
    BY RecoveringType DEF SettledInv, TypeOK
  <1>2. CASE PauseForReconciliation(w)
    <2> DEFINE m == [Recovering(w) EXCEPT !.status = "paused", !.asked = NoHandler]
    <2>1. m \in Run
      BY <1>1 DEF Run, RunStatus, Scope
    <2>2. Checkpoint(w, m, "idle")
      BY <1>2 DEF PauseForReconciliation
    <2>3. FitToStand(m, "idle")
      BY DEF FitToStand
    <2>. QED BY <2>1, <2>2, <2>3, CheckpointSettled DEF Pcs
  <1>3. CASE Prepare(w)
    <2>1. PICK final \in Settlements(MarkReady(Recovering(w).node, selected[w])),
               status \in RunStatus :
             LET m == [Recovering(w) EXCEPT !.node = final, !.status = status] IN
             /\ m \in Run
             /\ status # "running" => status = RefreshRunStatus(final, "running")
             /\ Checkpoint(w, m, "loop") \/ Locally(w, m, "loop")
      BY <1>1, <1>3, PrepareSaves
    <2> DEFINE m == [Recovering(w) EXCEPT !.node = final, !.status = status]
    <2>2. m.node = final /\ m.status = status
      BY <1>1 DEF Run
    <2>3. m \in Run /\ (Checkpoint(w, m, "loop") \/ Locally(w, m, "loop"))
      BY <2>1
    <2> HIDE DEF m
    <2>4. FitToStand(m, "loop")
      BY <2>1, <2>2, RefreshCompleted DEF FitToStand, AllSettled
    <2>. QED BY <2>3, <2>4, CheckpointSettled DEF Pcs
  <1>4. CASE Collect(w)
    <2>1. PICK applied \in [Node -> NodeStatus] : \E final \in Settlements(applied) :
          \E saved \in Run :
             /\ saved.node = MarkReady(final, Node)
             /\ saved.status = RefreshRunStatus(final, "running")
             /\ Checkpoint(w, saved, "loop")
      BY <1>1, <1>4, CollectSavesAll
    <2>2. PICK final \in Settlements(applied), saved \in Run :
             /\ saved.node = MarkReady(final, Node)
             /\ saved.status = RefreshRunStatus(final, "running")
             /\ Checkpoint(w, saved, "loop")
      BY <2>1
    <2>3. final \in [Node -> NodeStatus]
      BY SettlementsType
    <2>4. (\A n \in Node : final[n] \in Terminal) => MarkReady(final, Node) = final
      BY <2>3 DEF MarkReady, ReadyNodes, Terminal
    <2>5. FitToStand(saved, "loop")
      BY <2>2, <2>4, RefreshCompleted DEF FitToStand, AllSettled
    <2>. QED BY <2>2, <2>5, CheckpointSettled DEF Pcs
  <1>5. ASSUME NEW lead \in {0} \cup Node, StartBatch(w, lead)
        PROVE  Over' /\ TerminalTaskSettled' /\ AboutToFinish'
    <2>1. PICK started \in Run : Checkpoint(w, started, "dispatch")
      BY <1>1, <1>5, StartSavesAll
    <2>2. FitToStand(started, "dispatch")
      BY DEF FitToStand
    <2>. QED BY <2>1, <2>2, CheckpointSettled DEF Pcs
  <1>. QED BY <1>2, <1>3, <1>4, <1>5

(* Committing ends a run whose nodes are all over and good; failing closes *)
(* what is still open of it.                                               *)
LEMMA EndSettled ==
    ASSUME SettledInv, NEW w \in Worker,
           \/ Finish(w) \/ FailTask(w) \/ DeadlineExceeded(w) \/ RefuseResult(w)
    PROVE  (pc[w] = "failing" /\ w \in current) \/ (Over' /\ TerminalTaskSettled' /\ AboutToFinish')
  <1>1. TypeOK /\ run \in Run /\ mem[w] \in Run
    BY DEF SettledInv, TypeOK
  <1>2. /\ Forget(w) /\ \A v \in Worker \ {w} : pc'[v] = pc[v]
    BY <1>1 DEF Finish, FailTask, DeadlineExceeded, RefuseResult, TypeOK
  <1>3. \A v \in Worker \ {w} : mem'[v] = mem[v]
    BY <1>1, <1>2, ForgetCopies
  <1>4. ASSUME run' = run, task' = task, current' \subseteq current, w \notin current'
        PROVE  Over' /\ TerminalTaskSettled' /\ AboutToFinish'
    <2>1. \A v \in current' : v \in Worker /\ v # w
      BY <1>1, <1>4 DEF TypeOK
    <2>. QED BY <1>2, <1>3, <1>4, <2>1, QuietSettled
  <1>5. ASSUME NEW m \in Run, NEW status \in RunStatus, StoreRow(Finalized(m, status)),
               task'.status = status, current' = {},
               status = "completed" => MadeGood(m)
        PROVE  Over' /\ TerminalTaskSettled' /\ AboutToFinish'
    <2>1. run' = Finalized(m, status)
      BY <1>5 DEF StoreRow
    <2>2. /\ run'.status = status
          /\ \A n \in Node : /\ m.node[n] \in Terminal => run'.node[n] = m.node[n]
                             /\ run'.node[n] \in Terminal
      BY <2>1, FinalizedKeeps
    <2>3. MadeGood(m) => MadeGood(run')
      <3>1. SUFFICES ASSUME MadeGood(m) PROVE MadeGood(run')
        OBVIOUS
      <3>2. \A n \in Node : m.node[n] \in Terminal
        BY <3>1 DEF MadeGood, Terminal, Achieved, Broken
      <3>3. run' \in Run
        BY <2>1, FinalizedType
      <3>4. run'.node = m.node
        BY <2>2, <3>2, <3>3 DEF Run
      <3>. QED BY <3>1, <3>4 DEF MadeGood
    <2>4. TerminalTaskSettled'
      BY <1>5, <2>2, <2>3 DEF TerminalTaskSettled, MadeGood
    <2>. QED BY <1>5, <2>4 DEF Over, AboutToFinish
  <1>6. CASE Finish(w)
    <2>1. CASE w \in current
      <3>1. MadeGood(mem[w])
        BY <1>6, <2>1 DEF Finish, SettledInv, AboutToFinish, FitToStand
      <3>2. /\ StoreRow(Finalized(mem[w], "completed")) /\ current' = {}
            /\ task'.status = "completed"
        BY <1>1, <1>6, <2>1 DEF Finish, TypeOK
      <3>. QED BY <1>1, <1>5, <3>1, <3>2 DEF RunStatus
    <2>2. CASE w \notin current
      <3>1. run' = run /\ task' = task /\ current' = current
        BY <1>6, <2>2 DEF Finish, durable
      <3>. QED BY <1>4, <2>2, <3>1
    <2>. QED BY <2>1, <2>2
  <1>7. CASE FailTask(w)
    <2>1. CASE task.status # "completed"
      <3>1. StoreRow(Finalized(run, "failed")) /\ current' = {} /\ task'.status = "failed"
        BY <1>1, <1>7, <2>1 DEF FailTask, TypeOK
      <3>. QED BY <1>1, <1>5, <3>1 DEF RunStatus
    <2>2. CASE task.status = "completed"
      <3>1. run' = run /\ task' = task /\ current' = current /\ current = {}
        BY <1>7, <2>2 DEF FailTask, durable, SettledInv, Over, TaskOver
      <3>. QED BY <1>4, <3>1
    <2>. QED BY <2>1, <2>2
  <1>8. CASE DeadlineExceeded(w) \/ RefuseResult(w)
    <2>1. run' = run /\ task' = task /\ current' = current \ {w}
      BY <1>8 DEF DeadlineExceeded, RefuseResult, durable
    <2>. QED BY <1>4, <2>1
  <1>. QED BY <1>6, <1>7, <1>8

LEMMA OutsideSettled ==
    ASSUME SettledInv,
           \/ \E w \in Worker : \/ Claim(w) \/ \E n \in Node : Invoke(w, n)
                                \/ Crash(w) \/ RecoverTask(w)
           \/ LeaseLapses \/ HeartbeatFails \/ User
    PROVE  Over' /\ TerminalTaskSettled' /\ AboutToFinish'
  <1>1. TypeOK
    BY DEF SettledInv
  <1>2. ASSUME NEW w \in Worker, Claim(w)
        PROVE  Over' /\ TerminalTaskSettled' /\ AboutToFinish'
    <2>1. /\ task'.status = "running" /\ current' = current \cup {w} /\ pc'[w] = "control"
          /\ \A v \in Worker \ {w} : mem'[v] = mem[v] /\ pc'[v] = pc[v]
      BY <1>1, <1>2 DEF Claim, MarkRunning, StartOrRestore, TypeOK
    <2>2. Over' /\ TerminalTaskSettled'
      BY <2>1 DEF Over, TerminalTaskSettled, TaskOver
    <2>3. AboutToFinish'
      <3> SUFFICES ASSUME NEW v \in current' PROVE FitToStand(mem'[v], pc'[v])
        BY DEF AboutToFinish, FitToStand, MadeGood, AllSettled
      <3>1. CASE v = w
        BY <2>1, <3>1 DEF FitToStand
      <3>2. CASE v # w
        <4>1. v \in current /\ mem'[v] = mem[v] /\ pc'[v] = pc[v]
          BY <1>1, <2>1, <3>2 DEF TypeOK
        <4>. QED BY <4>1 DEF SettledInv, AboutToFinish
      <3>. QED BY <3>1, <3>2
    <2>. QED BY <2>2, <2>3
  <1>3. ASSUME NEW w \in Worker, NEW n \in Node, Invoke(w, n)
        PROVE  Over' /\ TerminalTaskSettled' /\ AboutToFinish'
    BY <1>3, QuietSettled DEF Invoke, durable
  <1>4. ASSUME NEW w \in Worker, Crash(w)
        PROVE  Over' /\ TerminalTaskSettled' /\ AboutToFinish'
    <2>1. /\ run' = run /\ task'.status = task.status /\ current' = current \ {w}
          /\ Forget(w) /\ pc' = [pc EXCEPT ![w] = "idle"]
      BY <1>1, <1>4 DEF Crash, TypeOK
    <2>2. \A v \in current' : mem'[v] = mem[v] /\ pc'[v] = pc[v]
      BY <1>1, <2>1 DEF Forget, TypeOK
    <2>. QED BY <2>1, <2>2, QuietSettled
  <1>5. ASSUME NEW w \in Worker, RecoverTask(w)
        PROVE  Over' /\ TerminalTaskSettled' /\ AboutToFinish'
    BY <1>5, QuietSettled DEF RecoverTask, TaskOver
  <1>6. CASE LeaseLapses \/ HeartbeatFails
    <2>1. run' = run /\ task'.status = task.status /\ UNCHANGED <<current, mem, pc>>
      BY <1>1, <1>6 DEF LeaseLapses, HeartbeatFails, TypeOK
    <2>. QED BY <2>1, QuietSettled
  <1>7. CASE User
    <2>1. /\ mem' = mem /\ pc' = pc /\ current' \subseteq current
          /\ (task' = task /\ run' = run) \/ task'.status \in {"queued", "waiting_user"}
      BY <1>1, <1>7 DEF User, Pause, Approve, Reject, Resume, Reconcile, TypeOK
    <2>2. task'.status \in {"queued", "waiting_user"} => ~TaskOver'
      BY DEF TaskOver
    <2>. QED BY <2>1, <2>2, QuietSettled
  <1>. QED BY <1>2, <1>3, <1>4, <1>5, <1>6, <1>7

LEMMA StepSettled ==
    ASSUME OnceInv, SettledInv, [Next]_vars
    PROVE  SettledInv'
  <1>1. TypeOK' /\ FailingStale
    BY StepType DEF SettledInv, OnceInv
  <1>2. CASE UNCHANGED vars
    <2>1. UNCHANGED <<run, task, current, mem, pc>>
      BY <1>2 DEF vars, durable
    <2>. QED BY <1>1, <2>1, QuietSettled DEF SettledInv
  <1>3. CASE Next
    <2>1. Over' /\ TerminalTaskSettled' /\ AboutToFinish'
      BY <1>1, <1>2, <1>3, NextCases, ControllerSettled, ExecutorSettled, EndSettled,
         OutsideSettled DEF FailingStale, SettledInv
    <2>. QED BY <1>1, <2>1 DEF SettledInv
  <1>. QED BY <1>2, <1>3

(* A task that is over left a run that is over in every behaviour, and a   *)
(* completed one left every node achieved or made good: after the commit   *)
(* or the failure no worker holds a copy that a checkpoint would accept.   *)
THEOREM EndsSettled == Spec => []TerminalTaskSettled
  <1>1. Init => OnceInv /\ SettledInv
    <2>1. Init => Over /\ TerminalTaskSettled /\ AboutToFinish
      BY DEF Init, Over, TerminalTaskSettled, AboutToFinish, TaskOver
    <2>. QED BY <2>1, InitOnce, InitType DEF SettledInv
  <1>2. OnceInv /\ SettledInv /\ [Next]_vars => OnceInv' /\ SettledInv'
    BY StepOnce, StepSettled
  <1>3. SettledInv => TerminalTaskSettled
    BY DEF SettledInv
  <1>. QED BY <1>1, <1>2, <1>3, PTL DEF Spec

(* What a step leaves of a task that is over: its outcome, and the run's.  *)
OutcomeKept ==
    TaskOver => /\ task'.status = task.status
                /\ run'.status = run.status
                /\ run'.node = run.node

LEMMA RefusedKeeps ==
    ASSUME NEW w \in Worker, NEW m, NEW next, current = {}, Checkpoint(w, m, next)
    PROVE  UNCHANGED durable
  BY DEF Checkpoint

LEMMA StepOutcome ==
    ASSUME SettledInv, [Next]_vars
    PROVE  OutcomeKept
  <1>. SUFFICES ASSUME TaskOver
                PROVE  /\ task'.status = task.status
                       /\ run'.status = run.status /\ run'.node = run.node
    BY DEF OutcomeKept
  <1>1. /\ current = {} /\ run.status = task.status /\ run.status \in {"completed", "failed"}
        /\ \A n \in Node : run.node[n] \in Terminal
    BY DEF SettledInv, Over, TerminalTaskSettled, TaskOver
  <1>2. TypeOK /\ run \in Run /\ task.status \in {"completed", "failed"}
    BY DEF SettledInv, TypeOK, TaskOver
  <1>3. ASSUME UNCHANGED durable
        PROVE  task'.status = task.status /\ run'.status = run.status /\ run'.node = run.node
    BY <1>3 DEF durable
  <1>4. ASSUME NEW w \in Worker, Execute(w), ~FailTask(w)
        PROVE  UNCHANGED durable
    <2>1. CASE \/ ConsultControl(w) \/ Verify(w) \/ DecideFail(w) \/ DecideFinish(w)
               \/ DecideExecute(w)
      BY <1>1, <2>1, RefusedKeeps
         DEF ConsultControl, Verify, DecideFail, DecideFinish, DecideExecute, Locally
    <2>2. CASE PauseForReconciliation(w) \/ RequestApproval(w) \/ Collect(w)
      BY <1>1, <2>2, RefusedKeeps DEF PauseForReconciliation, RequestApproval, Collect
    <2>3. CASE Prepare(w) \/ ReturnToController(w)
      BY <1>1, <2>3, RefusedKeeps DEF Prepare, ReturnToController, Locally
    <2>4. ASSUME NEW lead \in {0} \cup Node, StartBatch(w, lead)
          PROVE  UNCHANGED durable
      BY <1>1, <2>4, RefusedKeeps DEF StartBatch
    <2>5. CASE (\E n \in Node : Invoke(w, n)) \/ Finish(w)
      BY <1>1, <2>5 DEF Invoke, Finish
    <2>. QED BY <1>4, <2>1, <2>2, <2>3, <2>4, <2>5 DEF Execute
  <1>5. ASSUME NEW w \in Worker, FailTask(w)
        PROVE  task'.status = task.status /\ run'.status = run.status /\ run'.node = run.node
    <2>1. CASE task.status = "completed"
      BY <1>3, <1>5, <2>1 DEF FailTask
    <2>2. CASE task.status = "failed"
      <3>1. run' = Finalized(run, "failed") /\ task'.status = "failed"
        BY <1>2, <1>5, <2>2 DEF FailTask, StoreRow, TypeOK
      <3>2. "failed" \in RunStatus
        BY DEF RunStatus
      <3>3. run' \in Run
        BY <1>2, <3>1, <3>2, FinalizedType
      <3>4. /\ run'.status = "failed"
            /\ \A n \in Node : run.node[n] \in Terminal => run'.node[n] = run.node[n]
        <4> DEFINE f == Finalized(run, "failed")
        <4>1. /\ f.status = "failed"
              /\ \A n \in Node : run.node[n] \in Terminal => f.node[n] = run.node[n]
          BY <1>2, <3>2, FinalizedKeeps
        <4>. QED BY <3>1, <4>1
      <3>5. \A n \in Node : run'.node[n] = run.node[n]
        BY <1>1, <3>4
      <3>6. run'.node = run.node
        BY <1>2, <3>3, <3>5 DEF Run
      <3>. QED BY <1>1, <2>2, <3>1, <3>4, <3>6
    <2>. QED BY <1>2, <2>1, <2>2
  <1>6. ASSUME NEW w \in Worker, DeadlineExceeded(w) \/ RefuseResult(w)
        PROVE  UNCHANGED durable
    BY <1>6 DEF DeadlineExceeded, RefuseResult
  <1>7. ASSUME NEW w \in Worker, Crash(w) \/ LeaseLapses \/ HeartbeatFails
        PROVE  task'.status = task.status /\ run' = run
    BY <1>2, <1>7 DEF Crash, LeaseLapses, HeartbeatFails, TypeOK
  <1>8. ~ \E w \in Worker : Claim(w) \/ RecoverTask(w)
    BY <1>2 DEF Claim, RecoverTask, Recoverable
  <1>9. ~User
    BY <1>1 DEF User, Pause, Approve, Reject, Resume, Reconcile, Unanswered
  <1>10. LeaseLapses \/ HeartbeatFails => task'.status = task.status /\ run' = run
    BY <1>2 DEF LeaseLapses, HeartbeatFails, TypeOK
  <1>11. CASE Rest \/ UNCHANGED vars
    BY <1>3, <1>11 DEF Rest, vars
  <1>. QED BY <1>3, <1>4, <1>5, <1>6, <1>7, <1>8, <1>9, <1>10, <1>11 DEF Next

(* A task that is over is over for good, and so is its run: no late worker *)
(* and no control changes the outcome of either or the status of a node    *)
(* (task_failure_service.py, _resume_runtime, list_recoverable).           *)
THEOREM OverForGood == Spec => [][OutcomeKept]_vars
  <1>1. Init => OnceInv /\ SettledInv
    <2>1. Init => Over /\ TerminalTaskSettled /\ AboutToFinish
      BY DEF Init, Over, TerminalTaskSettled, AboutToFinish, TaskOver
    <2>. QED BY <2>1, InitOnce, InitType DEF SettledInv
  <1>2. OnceInv /\ SettledInv /\ [Next]_vars => OnceInv' /\ SettledInv'
    BY StepOnce, StepSettled
  <1>3. SettledInv /\ [Next]_vars => OutcomeKept
    BY StepOutcome
  <1>. QED BY <1>1, <1>2, <1>3, PTL DEF Spec

-----------------------------------------------------------------------------
(***************************************************************************)
(* The strengthening of BudgetBound.  The budget answers for the calls     *)
(* made, those a batch still owes (Due, by worker: two workers may owe the *)
(* same node's), and the nodes that may yet be called without a charge.    *)
(* Those are the nodes a copy marks as replays, and those it shows in      *)
(* flight though no batch of its worker has them, if they may be replayed: *)
(* the worker that started them is gone, or has lost the run (Spared).     *)
(* The counters of the run pay for what is charged, and the claims for     *)
(* what they found in flight (inherited); the stored run and every current *)
(* copy is within that (Within).                                           *)
(*                                                                         *)
(* A batch takes its replays from those spared and charges the rest, a     *)
(* call moves from those due to those made, and every other step spares no *)
(* node that was not spared before.  Only a claim does, and counts it.     *)
(***************************************************************************)
OnPool(S, p) == {n \in S : PoolOf[n] = p}
Due(p) == {x \in Worker \X Node : x[2] \in todo[x[1]] /\ PoolOf[x[2]] = p}

Uncharged(m, started) ==
    m.replay \cup {n \in Node : m.node[n] = "running" /\ n \notin started /\ MayReplay(n)}
Spared(w) == Uncharged(mem[w], batch[w])

Within(p, S) ==
    consumed[p] + Cardinality(Due(p)) + Cardinality(OnPool(S, p)) <= run.calls[p] + inherited[p]

ChargedFits == \A p \in Pool : IsFiniteSet(Due(p)) /\ run.calls[p] <= MaxCalls[p]
StoredWithin == \A p \in Pool : Within(p, run.replay)
CopiesWithin == \A w \in current : /\ mem[w].calls = run.calls
                                   /\ \A p \in Pool : Within(p, Spared(w))

BudgetInv == ChargedFits /\ StoredWithin /\ CopiesWithin

LEMMA Limits ==
    ASSUME NEW p \in Pool
    PROVE  MaxCalls[p] \in Nat
  BY ExecutorValid DEF ExecutorAssumption

(* The numbers the invariant relates. *)
LEMMA Counts ==
    ASSUME TypeOK, ChargedFits, NEW p \in Pool
    PROVE  /\ consumed[p] \in Nat /\ inherited[p] \in Nat /\ run.calls[p] \in Nat
           /\ IsFiniteSet(Due(p)) /\ Cardinality(Due(p)) \in Nat
  <1>1. IsFiniteSet(Due(p))
    BY DEF ChargedFits
  <1>. QED BY <1>1, FS_CardinalityType DEF TypeOK, Run

LEMMA SparedNodes ==
    ASSUME TypeOK, NEW w \in Worker
    PROVE  Spared(w) \in SUBSET Node /\ run.replay \in SUBSET Node
  BY DEF TypeOK, Run, Spared, Uncharged

LEMMA PoolCount ==
    ASSUME NEW S \in SUBSET Node, NEW p
    PROVE  /\ OnPool(S, p) \in SUBSET Node
           /\ IsFiniteSet(OnPool(S, p)) /\ Cardinality(OnPool(S, p)) \in Nat
  <1>1. OnPool(S, p) \in SUBSET Node
    BY DEF OnPool
  <1>. QED BY <1>1, NodesCountable

(* With no call made or charged and none more due, fewer nodes to spare    *)
(* stay within what is paid.                                               *)
LEMMA StaysWithin ==
    ASSUME TypeOK, ChargedFits, NEW p \in Pool, NEW S \in SUBSET Node, NEW T \in SUBSET S,
           Within(p, S), Due(p)' \subseteq Due(p),
           consumed' = consumed, inherited' = inherited, run'.calls = run.calls
    PROVE  consumed'[p] + Cardinality(Due(p)') + Cardinality(OnPool(T, p))
              <= run'.calls[p] + inherited'[p]
  <1>1. /\ consumed[p] \in Nat /\ inherited[p] \in Nat /\ run.calls[p] \in Nat
        /\ IsFiniteSet(Due(p)) /\ Cardinality(Due(p)) \in Nat
    BY Counts
  <1>2. Cardinality(Due(p)') <= Cardinality(Due(p)) /\ Cardinality(Due(p)') \in Nat
    BY <1>1, FS_Subset, FS_CardinalityType
  <1>3. /\ IsFiniteSet(OnPool(S, p)) /\ Cardinality(OnPool(S, p)) \in Nat
        /\ Cardinality(OnPool(T, p)) \in Nat
    BY PoolCount
  <1>4. OnPool(T, p) \in SUBSET OnPool(S, p)
    BY DEF OnPool
  <1>5. Cardinality(OnPool(T, p)) <= Cardinality(OnPool(S, p))
    BY <1>3, <1>4, FS_Subset
  <1>6. consumed[p] + Cardinality(Due(p)) + Cardinality(OnPool(S, p))
           <= run.calls[p] + inherited[p]
    BY DEF Within
  <1>. QED BY <1>1, <1>2, <1>3, <1>5, <1>6

(* A step that makes and charges no call, and spares no node that was not  *)
(* spared before.                                                          *)
SparesNoMore(T) ==
    \/ T \subseteq run.replay
    \/ \E u \in current : T \subseteq Spared(u)

LEMMA QuietBudget ==
    ASSUME TypeOK, BudgetInv, consumed' = consumed, inherited' = inherited,
           run'.calls = run.calls, \A v \in Worker : todo'[v] \subseteq todo[v],
           SparesNoMore(run'.replay),
           \A v \in current' : mem'[v].calls = run.calls /\ SparesNoMore(Spared(v)')
    PROVE  BudgetInv'
  <1>1. \A p \in Pool : Due(p)' \subseteq Due(p) /\ IsFiniteSet(Due(p))
    BY DEF Due, BudgetInv, ChargedFits
  <1>2. ASSUME NEW T, SparesNoMore(T), NEW p \in Pool
        PROVE  consumed'[p] + Cardinality(Due(p)') + Cardinality(OnPool(T, p))
                  <= run'.calls[p] + inherited'[p]
    <2>1. CASE T \subseteq run.replay
      <3>1. run.replay \in SUBSET Node /\ Within(p, run.replay)
        BY DEF TypeOK, Run, BudgetInv, StoredWithin
      <3>. QED BY <1>1, <2>1, <3>1, StaysWithin DEF BudgetInv
    <2>2. ASSUME NEW u \in current, T \subseteq Spared(u)
          PROVE  consumed'[p] + Cardinality(Due(p)') + Cardinality(OnPool(T, p))
                    <= run'.calls[p] + inherited'[p]
      <3>1. Spared(u) \in SUBSET Node
        BY SparedNodes DEF TypeOK
      <3>2. Within(p, Spared(u))
        BY DEF BudgetInv, CopiesWithin
      <3>. QED BY <1>1, <2>2, <3>1, <3>2, StaysWithin DEF BudgetInv
    <2>. QED BY <1>2, <2>1, <2>2 DEF SparesNoMore
  <1>3. ChargedFits'
    <2> SUFFICES ASSUME NEW p \in Pool PROVE IsFiniteSet(Due(p)') /\ run'.calls[p] <= MaxCalls[p]
      BY DEF ChargedFits
    <2>1. IsFiniteSet(Due(p)')
      BY <1>1, FS_Subset
    <2>. QED BY <2>1 DEF BudgetInv, ChargedFits
  <1>4. StoredWithin'
    BY <1>2 DEF StoredWithin, Within
  <1>5. CopiesWithin'
    BY <1>2 DEF CopiesWithin, Within
  <1>. QED BY <1>3, <1>4, <1>5 DEF BudgetInv

(* What a worker saves or holds, with the batch it is left with, spares no *)
(* node that its copy did not spare.                                       *)
LEMMA CheckpointBudget ==
    ASSUME TypeOK, BudgetInv, NEW w \in Worker, NEW m \in Run, NEW next \in Pcs,
           Checkpoint(w, m, next), consumed' = consumed, inherited' = inherited,
           m.calls = mem[w].calls, Uncharged(m, batch'[w]) \subseteq Spared(w),
           \A v \in Worker : todo'[v] \subseteq todo[v],
           \A v \in Worker \ {w} : batch'[v] = batch[v]
    PROVE  BudgetInv'
  <1>1. m.replay \subseteq Spared(w)
    BY DEF Uncharged
  <1>2. CASE w \in current
    <2>1. /\ run'.node = m.node /\ run'.calls = m.calls /\ run'.replay = m.replay
          /\ mem[w].calls = run.calls
      BY <1>2, MergedKeeps DEF Checkpoint, StoreRow, BudgetInv, CopiesWithin
    <2>2. \/ current' = {}
          \/ current' = {w} /\ mem'[w] = run'
      BY <1>2 DEF Checkpoint, StoreRow, TypeOK
    <2>3. current' = {w} => Spared(w)' \subseteq Spared(w)
      BY <2>1, <2>2 DEF Spared, Uncharged
    <2>4. SparesNoMore(run'.replay)
      BY <1>1, <1>2, <2>1 DEF SparesNoMore
    <2>5. \A v \in current' : mem'[v].calls = run.calls /\ SparesNoMore(Spared(v)')
      BY <1>2, <2>1, <2>2, <2>3 DEF SparesNoMore
    <2>. QED BY <2>1, <2>4, <2>5, QuietBudget
  <1>3. CASE w \notin current
    <2>1. run' = run /\ current' = current /\ Forget(w)
      BY <1>3 DEF Checkpoint, durable
    <2>2. \A v \in current' : v \in current /\ v \in Worker \ {w} /\ mem'[v] = mem[v]
      BY <1>3, <2>1 DEF Forget, TypeOK
    <2>3. \A v \in current' : mem'[v].calls = run.calls /\ SparesNoMore(Spared(v)')
      BY <2>2 DEF SparesNoMore, Spared, BudgetInv, CopiesWithin
    <2>4. SparesNoMore(run'.replay)
      BY <2>1 DEF SparesNoMore
    <2>. QED BY <2>1, <2>3, <2>4, QuietBudget
  <1>. QED BY <1>2, <1>3

LEMMA LocallyBudget ==
    ASSUME TypeOK, BudgetInv, NEW w \in Worker, NEW m \in Run, NEW next,
           Locally(w, m, next), consumed' = consumed, inherited' = inherited,
           m.calls = mem[w].calls, Uncharged(m, batch'[w]) \subseteq Spared(w),
           UNCHANGED <<batch, todo>>
    PROVE  BudgetInv'
  <1>1. /\ run' = run /\ current' = current /\ mem'[w] = m
        /\ \A v \in Worker \ {w} : mem'[v] = mem[v]
    BY DEF Locally, durable, TypeOK
  <1>2. SparesNoMore(run'.replay)
    BY <1>1 DEF SparesNoMore
  <1>3. \A v \in current' : v \in current /\ (v = w \/ v \in Worker \ {w})
    BY <1>1 DEF TypeOK
  <1>4. \A v \in current' : mem'[v].calls = run.calls /\ Spared(v)' \subseteq Spared(v)
    BY <1>1, <1>3 DEF Spared, Uncharged, BudgetInv, CopiesWithin
  <1>. QED BY <1>1, <1>2, <1>3, <1>4, QuietBudget DEF SparesNoMore

(* A node is in flight after a settlement or mark_ready only if it was. *)
LEMMA SettlingStartsNone ==
    ASSUME NEW st \in [Node -> NodeStatus], NEW final \in Settlements(st), NEW allowed,
           NEW n \in Node
    PROVE  /\ final[n] = "running" => st[n] = "running"
           /\ MarkReady(st, allowed)[n] = "running" => st[n] = "running"
  <1>1. /\ final[n] = st[n] \/ final[n] \in {"blocked", "skipped"}
        /\ MarkReady(st, allowed)[n] = st[n] \/ MarkReady(st, allowed)[n] = "ready"
    BY SettlingKeeps
  <1>. QED BY <1>1

LEMMA SavingBudget ==
    ASSUME CopyInv, BudgetInv, NEW w \in Worker,
           \/ ConsultControl(w) \/ Verify(w) \/ DecideFail(w) \/ DecideFinish(w)
           \/ DecideExecute(w) \/ ReturnToController(w) \/ RequestApproval(w)
           \/ PauseForReconciliation(w) \/ Prepare(w)
    PROVE  BudgetInv'
  <1>1. TypeOK /\ mem[w] \in Run /\ Recovering(w) \in Run
    BY RecoveringType DEF CopyInv, TypeOK
  <1>2. pc[w] # "dispatch" => batch[w] = {}
    BY DEF CopyInv, BatchesInFlight, InFlight
  <1>3. ASSUME NEW m, pc[w] = "enter", m.replay = Recovering(w).replay,
               \A n \in Node : m.node[n] = "running" => Recovering(w).node[n] = "running"
        PROVE  Uncharged(m, batch[w]) \subseteq Spared(w)
    <2>1. Recovering(w).replay \subseteq Spared(w)
      BY <1>1, <1>2, <1>3, RecoveringKeeps
      DEF Spared, Uncharged, Replayable, Interrupted, Inflight
    <2>2. \A n \in Node : Recovering(w).node[n] = "running" => mem[w].node[n] = "running"
      BY <1>1, RecoveringKeeps
    <2>. QED BY <1>3, <2>1, <2>2 DEF Spared, Uncharged
  <1>4. /\ batch' = batch /\ todo' = todo /\ consumed' = consumed /\ inherited' = inherited
        /\ \E m \in Run, next \in Pcs :
              /\ m.calls = mem[w].calls
              /\ Uncharged(m, batch[w]) \subseteq Spared(w)
              /\ Checkpoint(w, m, next) \/ Locally(w, m, next)
    <2>1. CASE \/ ConsultControl(w) \/ Verify(w) \/ DecideFail(w) \/ DecideFinish(w)
               \/ DecideExecute(w) \/ ReturnToController(w) \/ RequestApproval(w)
      <3>1. /\ UNCHANGED <<batch, todo, history>>
            /\ \E m \in Run, next \in Pcs :
                 /\ m.replay = mem[w].replay /\ m.calls = mem[w].calls
                 /\ \A n \in Node : \/ m.node[n] = mem[w].node[n]
                                    \/ mem[w].node[n] = "pending" /\ m.node[n] = "ready"
                 /\ Checkpoint(w, m, next) \/ Locally(w, m, next)
        BY <1>1, <2>1, ControllerSaves
      <3>2. PICK m \in Run, next \in Pcs :
                 /\ m.replay = mem[w].replay /\ m.calls = mem[w].calls
                 /\ \A n \in Node : \/ m.node[n] = mem[w].node[n]
                                    \/ mem[w].node[n] = "pending" /\ m.node[n] = "ready"
                 /\ Checkpoint(w, m, next) \/ Locally(w, m, next)
        BY <3>1
      <3>3. Uncharged(m, batch[w]) \subseteq Spared(w)
        BY <3>2 DEF Spared, Uncharged
      <3>. QED BY <3>1, <3>2, <3>3 DEF history
    <2>2. CASE PauseForReconciliation(w)
      <3> DEFINE m == [Recovering(w) EXCEPT !.status = "paused", !.asked = NoHandler]
      <3>1. /\ m \in Run /\ m.node = Recovering(w).node /\ m.calls = Recovering(w).calls
            /\ m.replay = Recovering(w).replay
        BY <1>1 DEF Run, RunStatus, Scope
      <3>2. /\ Checkpoint(w, m, "idle") /\ batch' = batch /\ todo' = todo
            /\ consumed' = consumed /\ inherited' = inherited /\ pc[w] = "enter"
        BY <2>2 DEF PauseForReconciliation, history
      <3> HIDE DEF m
      <3>3. Uncharged(m, batch[w]) \subseteq Spared(w)
        BY <1>3, <3>1, <3>2
      <3>. QED BY <1>1, <3>1, <3>2, <3>3, RecoveringKeeps DEF Pcs
    <2>3. CASE Prepare(w)
      <3> DEFINE marked == MarkReady(Recovering(w).node, selected[w])
      <3>1. PICK final \in Settlements(marked), status \in RunStatus :
               LET m == [Recovering(w) EXCEPT !.node = final, !.status = status] IN
               m \in Run /\ (Checkpoint(w, m, "loop") \/ Locally(w, m, "loop"))
        BY <1>1, <2>3, PrepareSaves
      <3> DEFINE m == [Recovering(w) EXCEPT !.node = final, !.status = status]
      <3>2. m.node = final /\ m.calls = Recovering(w).calls /\ m.replay = Recovering(w).replay
        BY <1>1 DEF Run
      <3>3. marked \in [Node -> NodeStatus] /\ Recovering(w).node \in [Node -> NodeStatus]
        BY <1>1, MarkReadyType DEF Run
      <3>4. \A n \in Node : marked[n] = "running" => Recovering(w).node[n] = "running"
        BY DEF MarkReady, ReadyNodes
      <3>5. m \in Run /\ (Checkpoint(w, m, "loop") \/ Locally(w, m, "loop"))
        BY <3>1
      <3>6. /\ batch' = batch /\ todo' = todo /\ consumed' = consumed
            /\ inherited' = inherited /\ pc[w] = "enter"
        BY <2>3 DEF Prepare, working, history
      <3> HIDE DEF marked, m
      <3>7. \A n \in Node : final[n] = "running" => marked[n] = "running"
        BY <3>3, SettlingStartsNone
      <3>8. Uncharged(m, batch[w]) \subseteq Spared(w)
        BY <1>3, <3>2, <3>4, <3>6, <3>7
      <3>. QED BY <1>1, <3>2, <3>5, <3>6, <3>8, RecoveringKeeps DEF Pcs
    <2>. QED BY <2>1, <2>2, <2>3
  <1>5. PICK m \in Run, next \in Pcs :
              /\ m.calls = mem[w].calls
              /\ Uncharged(m, batch[w]) \subseteq Spared(w)
              /\ Checkpoint(w, m, next) \/ Locally(w, m, next)
    BY <1>4
  <1>. QED BY <1>1, <1>4, <1>5, CheckpointBudget, LocallyBudget

(* Results leave in flight only nodes that were, outside the batch. *)
LEMMA CollectBudget ==
    ASSUME CopyInv, BudgetInv, NEW w \in Worker, Collect(w)
    PROVE  BudgetInv'
  <1>1. TypeOK /\ mem[w] \in Run /\ denied[w] \subseteq batch[w]
    BY DEF CopyInv, TypeOK, BatchesInFlight, InFlight
  <1>2. PICK applied \in [Node -> NodeStatus] : \E final \in Settlements(applied) :
        \E saved \in Run :
           /\ \A n \in Node : applied[n] = "running" =>
                 mem[w].node[n] = "running" /\ n \notin batch[w]
           /\ saved.node = MarkReady(final, Node)
           /\ saved.calls = mem[w].calls
           /\ saved.replay = mem[w].replay \ batch[w]
           /\ Checkpoint(w, saved, "loop")
    BY <1>1, CollectSavesAll
  <1>3. PICK final \in Settlements(applied), saved \in Run :
           /\ \A n \in Node : applied[n] = "running" =>
                 mem[w].node[n] = "running" /\ n \notin batch[w]
           /\ saved.node = MarkReady(final, Node)
           /\ saved.calls = mem[w].calls
           /\ saved.replay = mem[w].replay \ batch[w]
           /\ Checkpoint(w, saved, "loop")
    BY <1>2
  <1>4. \A n \in Node : saved.node[n] = "running" =>
           mem[w].node[n] = "running" /\ n \notin batch[w]
    <2>1. \A n \in Node : MarkReady(final, Node)[n] = "running" => final[n] = "running"
      BY DEF MarkReady, ReadyNodes
    <2>2. \A n \in Node : final[n] = "running" => applied[n] = "running"
      BY SettlingStartsNone
    <2>. QED BY <1>3, <2>1, <2>2
  <1>5. /\ todo' = todo /\ consumed' = consumed /\ inherited' = inherited
        /\ \A v \in Worker \ {w} : batch'[v] = batch[v]
    BY <1>1 DEF Collect, TypeOK, history
  <1>6. Uncharged(saved, batch'[w]) \subseteq Spared(w)
    BY <1>3, <1>4 DEF Spared, Uncharged
  <1>. QED BY <1>1, <1>3, <1>5, <1>6, CheckpointBudget DEF Pcs

LEMMA LastNode ==
    ASSUME NEW S \in SUBSET Node, S # {}
    PROVE  \E x \in S : \A y \in S : y <= x
  <1>1. NodeCount \in Nat /\ Node = 1 .. NodeCount
    BY PlanValid DEF PlanAssumption, Node
  <1> DEFINE T == {NodeCount - x : x \in S}
  <1>2. T \in SUBSET Nat /\ T # {}
    <2>1. \A x \in S : NodeCount - x \in Nat
      BY <1>1
    <2>2. PICK x \in S : TRUE
      OBVIOUS
    <2>. QED BY <2>1, <2>2
  <1> HIDE DEF T
  <1>3. PICK t \in T : \A u \in T : t <= u
    BY <1>2, LeastNatural
  <1>4. PICK x \in S : t = NodeCount - x
    BY DEF T
  <1>5. ASSUME NEW y \in S PROVE y <= x
    <2>1. NodeCount - y \in T
      BY DEF T
    <2>2. NodeCount - x <= NodeCount - y
      BY <1>3, <1>4, <2>1
    <2>. QED BY <1>1, <2>2
  <1>. QED BY <1>5

(* The order in which a batch is charged has a last member: the budget was *)
(* asked for it after every other node that was charged.                   *)
LEMMA LastCharged ==
    ASSUME NEW S \in SUBSET Node, S # {}, NEW chosen, S \subseteq chosen, NEW lead
    PROVE  \E n \in S : S \ {n} \subseteq Ahead(chosen, lead, n)
  <1>1. CASE S \subseteq {lead}
    BY <1>1 DEF Ahead
  <1>2. CASE ~ (S \subseteq {lead})
    <2>1. PICK n \in S \ {lead} : \A m \in S \ {lead} : m <= n
      BY <1>2, LastNode
    <2>2. \A m \in S \ {lead} : m # n => m < n
      BY <2>1, PlanValid DEF Node, PlanAssumption
    <2>. QED BY <2>1, <2>2 DEF Ahead
  <1>. QED BY <1>1, <1>2

(* What a batch charges stays within the limit: the last node it charged   *)
(* was not refused, though all the others were counted before it.          *)
LEMMA AcceptedFit ==
    ASSUME TypeOK, NEW w \in Worker, NEW lead, NEW p \in Pool, Chosen(w, lead) \subseteq Node,
           mem[w].calls[p] \in Nat, mem[w].calls[p] <= MaxCalls[p]
    PROVE  mem[w].calls[p] + Cardinality(
              Charged(Chosen(w, lead) \ Refused(w, lead), p, mem[w].replay)) <= MaxCalls[p]
  <1> DEFINE chosen == Chosen(w, lead)
             C == Charged(chosen \ Refused(w, lead), p, mem[w].replay)
  <1>1. /\ C \in SUBSET Node /\ C \subseteq chosen /\ MaxCalls[p] \in Nat
        /\ \A n \in C : /\ n \in chosen \ mem[w].replay /\ PoolOf[n] = p
                        /\ n \notin Refused(w, lead)
    BY Limits DEF Charged
  <1>2. CASE C = {}
    <2> HIDE DEF C
    <2>1. Cardinality(C) = 0
      BY <1>2, FS_EmptySet
    <2>2. mem[w].calls[p] + Cardinality(C) <= MaxCalls[p]
      BY <2>1
    <2>. QED BY <2>2 DEF C
  <1>3. CASE C # {}
    <2>1. PICK n \in C : C \ {n} \subseteq Ahead(chosen, lead, n)
      BY <1>1, <1>3, LastCharged
    <2> DEFINE A == Charged(Ahead(chosen, lead, n), p, mem[w].replay)
    <2>2. ~ (mem[w].calls[p] + Cardinality(A) >= MaxCalls[p])
      BY <1>1, <2>1 DEF Refused, Pool
    <2>3. C \ {n} \subseteq A /\ A \in SUBSET Node
      BY <1>1, <2>1 DEF Charged, Ahead
    <2> HIDE DEF A, C
    <2>4. /\ Cardinality(C \ {n}) <= Cardinality(A) /\ Cardinality(A) \in Nat
          /\ Cardinality(C \ {n}) \in Nat
      BY <1>1, <2>3, NodesCountable, FS_Subset
    <2>5. Cardinality(C) = Cardinality(C \ {n}) + 1
      <3>1. IsFiniteSet(C) /\ Cardinality(C) \in Nat
        BY <1>1, NodesCountable
      <3>2. Cardinality(C \ {n}) = IF n \in C THEN Cardinality(C) - 1 ELSE Cardinality(C)
        BY <3>1, FS_RemoveElement
      <3>. QED BY <2>1, <3>1, <3>2
    <2>6. mem[w].calls[p] + Cardinality(C) <= MaxCalls[p]
      BY <1>1, <2>2, <2>4, <2>5
    <2>. QED BY <2>6 DEF C
  <1>. QED BY <1>2, <1>3

(* What a batch is about to call is charged, or a replay it starts. *)
LEMMA AcceptedPaid ==
    ASSUME TypeOK, NEW w \in Worker, NEW chosen \in SUBSET Node, NEW accepted \in SUBSET chosen,
           NEW spared \in SUBSET Node, mem[w].replay \subseteq spared, NEW p
    PROVE  Cardinality(OnPool(accepted, p)) + Cardinality(OnPool(spared \ chosen, p))
              <= Cardinality(Charged(accepted, p, mem[w].replay)) + Cardinality(OnPool(spared, p))
  <1> DEFINE A == OnPool(accepted, p)
             C == Charged(accepted, p, mem[w].replay)
             R == OnPool(spared \cap chosen, p)
             K == OnPool(spared \ chosen, p)
             S == OnPool(spared, p)
  <1>1. /\ A \in SUBSET Node /\ C \in SUBSET Node /\ R \in SUBSET Node /\ K \in SUBSET Node
        /\ S \in SUBSET Node /\ C \cup R \in SUBSET Node
        /\ C \cap R \in SUBSET Node
    BY DEF OnPool, Charged
  <1>2. A \in SUBSET (C \cup R) /\ S = R \cup K /\ R \cap K = {}
    BY DEF OnPool, Charged
  <1> SUFFICES Cardinality(A) + Cardinality(K) <= Cardinality(C) + Cardinality(S)
    OBVIOUS
  <1> HIDE DEF A, C, R, K, S
  <1>3. /\ IsFiniteSet(C) /\ IsFiniteSet(R) /\ IsFiniteSet(K) /\ IsFiniteSet(C \cup R)
        /\ Cardinality(A) \in Nat /\ Cardinality(C) \in Nat /\ Cardinality(R) \in Nat
        /\ Cardinality(K) \in Nat /\ Cardinality(S) \in Nat
        /\ Cardinality(C \cup R) \in Nat /\ Cardinality(C \cap R) \in Nat
    BY <1>1, NodesCountable
  <1>4. Cardinality(A) <= Cardinality(C \cup R)
    BY <1>2, <1>3, FS_Subset
  <1>5. Cardinality(C \cup R) = Cardinality(C) + Cardinality(R) - Cardinality(C \cap R)
    BY <1>3, FS_Union
  <1>6. Cardinality(S) = Cardinality(R) + Cardinality(K)
    <2>1. Cardinality(R \cup K) = Cardinality(R) + Cardinality(K) - Cardinality(R \cap K)
      BY <1>3, FS_Union
    <2>2. Cardinality(R \cap K) = 0
      BY <1>2, FS_EmptySet
    <2>. QED BY <1>2, <1>3, <2>1, <2>2
  <1>. QED BY <1>3, <1>4, <1>5, <1>6

(* The calls a worker owes for a new batch join those due. *)
LEMMA MoreDue ==
    ASSUME NEW w \in Worker, NEW accepted \in SUBSET Node, NEW p \in Pool, IsFiniteSet(Due(p)),
           todo'[w] = accepted, \A v \in Worker \ {w} : todo'[v] = todo[v]
    PROVE  /\ IsFiniteSet(Due(p)')
           /\ Cardinality(Due(p)') \in Nat
           /\ Cardinality(Due(p)') <= Cardinality(Due(p)) + Cardinality(OnPool(accepted, p))
  <1> DEFINE A == OnPool(accepted, p)
             W == {w} \X A
  <1>1. IsFiniteSet(A) /\ Cardinality(A) \in Nat /\ A \in SUBSET Node
    BY PoolCount
  <1>2. IsFiniteSet(W) /\ Cardinality(W) = Cardinality(A)
    <2> HIDE DEF A
    <2>1. IsFiniteSet({w}) /\ Cardinality({w}) = 1
      BY FS_Singleton
    <2>2. IsFiniteSet(W) /\ Cardinality(W) = Cardinality({w}) * Cardinality(A)
      BY <1>1, <2>1, FS_Product
    <2> HIDE DEF W
    <2>. QED BY <1>1, <2>1, <2>2
  <1>3. Due(p)' \subseteq Due(p) \cup W
    BY DEF Due, OnPool
  <1>4. /\ IsFiniteSet(Due(p) \cup W)
        /\ Cardinality(Due(p) \cup W) <= Cardinality(Due(p)) + Cardinality(W)
    <2> HIDE DEF W
    <2>1. /\ IsFiniteSet(Due(p) \cup W)
          /\ Cardinality(Due(p) \cup W) =
                Cardinality(Due(p)) + Cardinality(W) - Cardinality(Due(p) \cap W)
      BY <1>2, FS_Union
    <2>2. /\ Cardinality(Due(p) \cap W) \in Nat /\ Cardinality(Due(p)) \in Nat
          /\ Cardinality(W) \in Nat
      BY <1>2, FS_Intersection, FS_CardinalityType
    <2>. QED BY <2>1, <2>2
  <1> HIDE DEF A, W
  <1>5. IsFiniteSet(Due(p)') /\ Cardinality(Due(p)') <= Cardinality(Due(p) \cup W)
    BY <1>3, <1>4, FS_Subset
  <1>6. /\ Cardinality(Due(p)') \in Nat /\ Cardinality(Due(p)) \in Nat
        /\ Cardinality(Due(p) \cup W) \in Nat
    BY <1>4, <1>5, FS_CardinalityType
  <1>7. Cardinality(Due(p)') <= Cardinality(Due(p)) + Cardinality(A)
    BY <1>1, <1>2, <1>4, <1>5, <1>6
  <1>. QED BY <1>5, <1>6, <1>7 DEF A

(* A batch takes its replays from the nodes spared and pays for the rest.  *)
LEMMA StartBudget ==
    ASSUME CopyInv, BudgetInv, NEW w \in Worker, NEW lead \in {0} \cup Node,
           StartBatch(w, lead), w \in current
    PROVE  BudgetInv'
  <1> DEFINE chosen == Chosen(w, lead)
             accepted == Chosen(w, lead) \ Refused(w, lead)
             Charge(p) == Charged(accepted, p, mem[w].replay)
  <1>1. /\ TypeOK /\ ChargedFits /\ mem[w] \in Run /\ run \in Run
        /\ mem[w].calls = run.calls /\ \A p \in Pool : Within(p, Spared(w))
    BY DEF CopyInv, TypeOK, BudgetInv, CopiesWithin
  <1>2. /\ chosen \in SUBSET Node /\ accepted \in SUBSET chosen /\ accepted \in SUBSET Node
        /\ \A n \in chosen : mem[w].node[n] = "ready"
    BY ChosenStartable
  <1>3. PICK started \in Run :
           /\ started.node = [n \in Node |-> IF n \in chosen THEN "running"
                                             ELSE mem[w].node[n]]
           /\ started.replay = mem[w].replay \ chosen
           /\ started.calls = [p \in Pool |-> mem[w].calls[p] + Cardinality(Charge(p))]
           /\ Checkpoint(w, started, "dispatch")
           /\ batch' = [batch EXCEPT ![w] = chosen]
           /\ todo' = [todo EXCEPT ![w] = accepted]
           /\ UNCHANGED history
    BY <1>1, StartSavesAll
  <1>4. /\ run'.node = started.node /\ run'.replay = started.replay
        /\ run'.calls = started.calls
        /\ current' = {w} /\ mem'[w] = run'
    BY <1>1, <1>3, MergedKeeps DEF Checkpoint, StoreRow, TypeOK
  <1>5. /\ batch'[w] = chosen /\ todo'[w] = accepted
        /\ \A v \in Worker \ {w} : todo'[v] = todo[v]
        /\ consumed' = consumed /\ inherited' = inherited
    BY <1>1, <1>3 DEF TypeOK, history
  <1>6. batch[w] = {}
    BY DEF CopyInv, BatchesInFlight, InFlight, StartBatch
  <1>7. /\ Spared(w) \in SUBSET Node /\ mem[w].replay \subseteq Spared(w)
        /\ run'.replay \subseteq Spared(w) \ chosen /\ Spared(w)' \subseteq Spared(w) \ chosen
    BY <1>1, <1>2, <1>3, <1>4, <1>5, <1>6, SparedNodes DEF Spared, Uncharged
  <1>8. ASSUME NEW p \in Pool
        PROVE  run'.calls[p] = run.calls[p] + Cardinality(Charge(p))
    BY <1>1, <1>3, <1>4
  <1> HIDE DEF chosen, accepted, Charge
  <1>9. ChargedFits'
    <2> SUFFICES ASSUME NEW p \in Pool
                 PROVE  IsFiniteSet(Due(p)') /\ run'.calls[p] <= MaxCalls[p]
      BY DEF ChargedFits
    <2>1. IsFiniteSet(Due(p)')
      BY <1>1, <1>2, <1>5, MoreDue DEF ChargedFits
    <2>2. mem[w].calls[p] \in Nat /\ mem[w].calls[p] <= MaxCalls[p]
      BY <1>1 DEF ChargedFits, Run
    <2>3. mem[w].calls[p] + Cardinality(Charge(p)) <= MaxCalls[p]
      BY <1>1, <1>2, <2>2, AcceptedFit DEF Charge, accepted, chosen
    <2>. QED BY <1>1, <1>8, <2>1, <2>3
  <1>10. ASSUME NEW p \in Pool, NEW T, T \subseteq Spared(w) \ chosen
         PROVE  consumed'[p] + Cardinality(Due(p)') + Cardinality(OnPool(T, p))
                   <= run'.calls[p] + inherited'[p]
    <2> DEFINE due == Cardinality(Due(p)')
               kept == Cardinality(OnPool(T, p))
    <2>1. /\ consumed[p] \in Nat /\ inherited[p] \in Nat /\ run.calls[p] \in Nat
          /\ IsFiniteSet(Due(p)) /\ Cardinality(Due(p)) \in Nat
      BY <1>1, Counts
    <2>2. /\ due \in Nat
          /\ due <= Cardinality(Due(p)) + Cardinality(OnPool(accepted, p))
      BY <1>2, <1>5, <2>1, MoreDue
    <2>3. Cardinality(OnPool(accepted, p)) + Cardinality(OnPool(Spared(w) \ chosen, p))
             <= Cardinality(Charge(p)) + Cardinality(OnPool(Spared(w), p))
      BY <1>1, <1>2, <1>7, AcceptedPaid DEF Charge
    <2>4. Cardinality(Charge(p)) \in Nat
      BY <1>2, ChargedCount DEF Charge
    <2>5. /\ Cardinality(OnPool(accepted, p)) \in Nat
          /\ Cardinality(OnPool(Spared(w), p)) \in Nat
      BY <1>2, <1>7, PoolCount
    <2>6. /\ kept \in Nat /\ Cardinality(OnPool(Spared(w) \ chosen, p)) \in Nat
          /\ kept <= Cardinality(OnPool(Spared(w) \ chosen, p))
      <3>1. T \in SUBSET Node /\ Spared(w) \ chosen \in SUBSET Node
        BY <1>7, <1>10
      <3>2. OnPool(T, p) \in SUBSET OnPool(Spared(w) \ chosen, p)
        BY <1>10 DEF OnPool
      <3>3. /\ Cardinality(OnPool(T, p)) \in Nat /\ IsFiniteSet(OnPool(Spared(w) \ chosen, p))
            /\ Cardinality(OnPool(Spared(w) \ chosen, p)) \in Nat
        BY <3>1, PoolCount
      <3>. QED BY <3>2, <3>3, FS_Subset
    <2>7. consumed[p] + Cardinality(Due(p)) + Cardinality(OnPool(Spared(w), p))
             <= run.calls[p] + inherited[p]
      BY <1>1 DEF Within
    <2>8. run'.calls[p] = run.calls[p] + Cardinality(Charge(p))
      BY <1>8
    <2> HIDE DEF due, kept
    <2>9. consumed[p] + due + kept <= run'.calls[p] + inherited[p]
      BY <2>1, <2>2, <2>3, <2>4, <2>5, <2>6, <2>7, <2>8
    <2>. QED BY <1>5, <2>9 DEF due, kept
  <1>11. StoredWithin'
    BY <1>7, <1>10 DEF StoredWithin, Within
  <1>12. CopiesWithin'
    BY <1>4, <1>7, <1>10 DEF CopiesWithin, Within
  <1>. QED BY <1>9, <1>11, <1>12 DEF BudgetInv

(* A stale worker starts nothing.                                          *)
LEMMA StaleStartBudget ==
    ASSUME CopyInv, BudgetInv, NEW w \in Worker, NEW lead \in {0} \cup Node,
           StartBatch(w, lead), w \notin current
    PROVE  BudgetInv'
  <1>1. TypeOK
    BY DEF CopyInv
  <1>2. /\ UNCHANGED <<batch, todo, consumed, inherited>>
        /\ \E m : Checkpoint(w, m, "dispatch")
    BY DEF StartBatch, history
  <1>3. run' = run /\ current' = current /\ Forget(w)
    BY <1>2 DEF Checkpoint, durable
  <1>4. \A v \in current' : v \in current /\ mem'[v] = mem[v]
    BY <1>1, <1>3 DEF Forget, TypeOK
  <1>5. \A v \in current' : mem'[v].calls = run.calls /\ SparesNoMore(Spared(v)')
    BY <1>2, <1>4 DEF SparesNoMore, Spared, BudgetInv, CopiesWithin
  <1>6. SparesNoMore(run'.replay)
    BY <1>3 DEF SparesNoMore
  <1>. QED BY <1>1, <1>2, <1>3, <1>5, <1>6, QuietBudget

(* A call is no longer due, but made.                                      *)
LEMMA InvokeBudget ==
    ASSUME CopyInv, BudgetInv, NEW w \in Worker, NEW n \in Node, Invoke(w, n)
    PROVE  BudgetInv'
  <1>1. TypeOK /\ ChargedFits
    BY DEF CopyInv, BudgetInv
  <1>2. /\ n \in todo[w] /\ todo' = [todo EXCEPT ![w] = todo[w] \ {n}]
        /\ consumed' = [p \in Pool |-> IF PoolOf[n] = p THEN consumed[p] + 1 ELSE consumed[p]]
        /\ UNCHANGED <<run, current, mem, batch, inherited>>
    BY DEF Invoke, durable
  <1>3. ASSUME NEW p \in Pool
        PROVE  /\ IsFiniteSet(Due(p)')
               /\ consumed'[p] + Cardinality(Due(p)') = consumed[p] + Cardinality(Due(p))
    <2>1. consumed[p] \in Nat /\ IsFiniteSet(Due(p)) /\ Cardinality(Due(p)) \in Nat
      BY <1>1, Counts
    <2>2. \A v \in Worker : todo'[v] = IF v = w THEN todo[w] \ {n} ELSE todo[v]
      BY <1>1, <1>2 DEF TypeOK
    <2>3. CASE PoolOf[n] = p
      <3> DEFINE call == <<w, n>>
      <3>1. call \in Due(p) /\ Due(p)' = Due(p) \ {call}
        BY <1>2, <2>2, <2>3 DEF Due
      <3> HIDE DEF call
      <3>2. IsFiniteSet(Due(p)') /\ Cardinality(Due(p)') = Cardinality(Due(p)) - 1
        BY <2>1, <3>1, FS_RemoveElement
      <3>3. consumed'[p] = consumed[p] + 1
        BY <1>2, <2>3
      <3>. QED BY <2>1, <3>2, <3>3
    <2>4. CASE PoolOf[n] # p
      <3>1. Due(p)' = Due(p)
        BY <2>2, <2>4 DEF Due
      <3>2. consumed'[p] = consumed[p]
        BY <1>2, <2>4
      <3>. QED BY <2>1, <3>1, <3>2
    <2>. QED BY <2>3, <2>4
  <1>4. ASSUME NEW p \in Pool, NEW S, Within(p, S)
        PROVE  consumed'[p] + Cardinality(Due(p)') + Cardinality(OnPool(S, p))
                  <= run'.calls[p] + inherited'[p]
    <2>1. consumed'[p] + Cardinality(Due(p)') = consumed[p] + Cardinality(Due(p))
      BY <1>3
    <2>. QED BY <1>2, <1>4, <2>1 DEF Within
  <1>5. ChargedFits'
    BY <1>1, <1>2, <1>3 DEF ChargedFits
  <1>6. StoredWithin'
    BY <1>2, <1>4 DEF BudgetInv, StoredWithin, Within
  <1>7. CopiesWithin'
    BY <1>2, <1>4 DEF BudgetInv, CopiesWithin, Within, Spared
  <1>. QED BY <1>5, <1>6, <1>7 DEF BudgetInv

(* A claim spares what it found in flight, and counts it.                  *)
LEMMA ClaimBudget ==
    ASSUME CopyInv, BudgetInv, NEW w \in Worker, Claim(w)
    PROVE  BudgetInv'
  <1>1. TypeOK /\ run \in Run /\ ChargedFits
    BY DEF CopyInv, TypeOK, BudgetInv
  <1> DEFINE stored == [run EXCEPT !.status = IF @ = "absent" THEN "created" ELSE @]
             held == [stored EXCEPT !.request = control.request, !.grant = control.grant]
             found == {n \in Inflight(run) : MayReplay(n)}
  <1>2. /\ run' = stored /\ mem' = [mem EXCEPT ![w] = held] /\ current' = current \cup {w}
        /\ UNCHANGED <<batch, todo, consumed>>
    BY DEF Claim, StartOrRestore, working
  <1>3. \A p \in Pool : inherited'[p] = inherited[p] + Cardinality(OnPool(found, p))
    <2>1. inherited' = [p \in Pool |-> inherited[p] + Cardinality(
                           {n \in Inflight(run) : MayReplay(n) /\ PoolOf[n] = p})]
      BY DEF Claim
    <2>2. \A p : {n \in Inflight(run) : MayReplay(n) /\ PoolOf[n] = p} = OnPool(found, p)
      BY DEF OnPool
    <2> HIDE DEF found
    <2>. QED BY <2>1, <2>2
  <1>4. /\ stored.node = run.node /\ stored.replay = run.replay /\ stored.calls = run.calls
        /\ held.node = run.node /\ held.replay = run.replay /\ held.calls = run.calls
    BY <1>1 DEF Run
  <1> HIDE DEF stored, held
  <1>5. /\ run'.replay = run.replay /\ run'.calls = run.calls
        /\ mem'[w] = held /\ \A v \in Worker \ {w} : mem'[v] = mem[v]
        /\ \A v \in current' : v = w \/ (v \in Worker \ {w} /\ v \in current)
    BY <1>1, <1>2, <1>4 DEF TypeOK
  <1>6. batch[w] = {}
    BY DEF CopyInv, BatchesInFlight, InFlight, Claim
  <1>7. /\ Spared(w)' = run.replay \cup found /\ found \in SUBSET Node
        /\ run.replay \in SUBSET Node /\ run.replay \cup found \in SUBSET Node
        /\ run.replay \cap found \in SUBSET Node
    BY <1>1, <1>2, <1>4, <1>5, <1>6 DEF Spared, Uncharged, Inflight, Run
  <1> HIDE DEF found
  <1>8. \A p \in Pool : Due(p)' = Due(p)
    BY <1>2 DEF Due
  <1>9. ASSUME NEW p \in Pool
        PROVE  /\ consumed[p] \in Nat /\ inherited[p] \in Nat /\ run.calls[p] \in Nat
               /\ Cardinality(Due(p)) \in Nat /\ Cardinality(OnPool(found, p)) \in Nat
    BY <1>1, <1>7, Counts, PoolCount
  <1>10. ASSUME NEW p \in Pool, NEW S \in SUBSET Node, Within(p, S)
         PROVE  consumed'[p] + Cardinality(Due(p)') + Cardinality(OnPool(S, p))
                   <= run'.calls[p] + inherited'[p]
    <2>1. Cardinality(OnPool(S, p)) \in Nat
      BY PoolCount
    <2>2. consumed[p] + Cardinality(Due(p)) + Cardinality(OnPool(S, p))
             <= run.calls[p] + inherited[p]
      BY <1>10 DEF Within
    <2>3. inherited[p] <= inherited'[p] /\ inherited'[p] \in Nat
      BY <1>3, <1>9
    <2>4. Cardinality(Due(p)') = Cardinality(Due(p)) /\ consumed'[p] = consumed[p]
          /\ run'.calls[p] = run.calls[p]
      BY <1>2, <1>5, <1>8
    <2>. QED BY <1>9, <2>1, <2>2, <2>3, <2>4
  <1>11. ASSUME NEW p \in Pool
         PROVE  consumed'[p] + Cardinality(Due(p)') + Cardinality(OnPool(run.replay \cup found, p))
                   <= run'.calls[p] + inherited'[p]
    <2> DEFINE R == OnPool(run.replay, p)
               F == OnPool(found, p)
    <2>1. OnPool(run.replay \cup found, p) = R \cup F
      BY DEF OnPool
    <2>2. /\ IsFiniteSet(R) /\ IsFiniteSet(F)
          /\ Cardinality(R) \in Nat /\ Cardinality(F) \in Nat
      BY <1>7, PoolCount
    <2>3. consumed[p] + Cardinality(Due(p)) + Cardinality(R) <= run.calls[p] + inherited[p]
      BY DEF BudgetInv, StoredWithin, Within
    <2>4. inherited'[p] = inherited[p] + Cardinality(F)
      BY <1>3
    <2> HIDE DEF R, F
    <2>5. /\ Cardinality(R \cup F) = Cardinality(R) + Cardinality(F) - Cardinality(R \cap F)
          /\ Cardinality(R \cap F) \in Nat
      BY <2>2, FS_Union, FS_Intersection, FS_CardinalityType
    <2>6. Cardinality(Due(p)') = Cardinality(Due(p)) /\ consumed'[p] = consumed[p]
          /\ run'.calls[p] = run.calls[p]
      BY <1>2, <1>5, <1>8
    <2>7. consumed'[p] + Cardinality(Due(p)') + Cardinality(R \cup F)
             <= run'.calls[p] + inherited'[p]
      BY <1>9, <2>2, <2>3, <2>4, <2>5, <2>6
    <2>. QED BY <2>1, <2>7
  <1>12. ChargedFits'
    BY <1>1, <1>5, <1>8 DEF ChargedFits
  <1>13. StoredWithin'
    BY <1>5, <1>7, <1>10 DEF BudgetInv, StoredWithin, Within
  <1>14. CopiesWithin'
    <2> SUFFICES ASSUME NEW v \in current'
                 PROVE  /\ mem'[v].calls = run'.calls
                        /\ \A p \in Pool :
                              consumed'[p] + Cardinality(Due(p)')
                                    + Cardinality(OnPool(Spared(v)', p))
                                 <= run'.calls[p] + inherited'[p]
      BY DEF CopiesWithin, Within
    <2>1. CASE v = w
      BY <1>4, <1>5, <1>7, <1>11, <2>1
    <2>2. CASE v # w
      <3>1. v \in current /\ v \in Worker /\ mem'[v] = mem[v]
        BY <1>5, <2>2
      <3>2. /\ Spared(v)' = Spared(v) /\ Spared(v) \in SUBSET Node
            /\ mem[v].calls = run.calls /\ \A p \in Pool : Within(p, Spared(v))
        BY <1>1, <1>2, <3>1, SparedNodes DEF Spared, BudgetInv, CopiesWithin
      <3>. QED BY <1>5, <1>10, <3>1, <3>2
    <2>. QED BY <2>1, <2>2
  <1>. QED BY <1>12, <1>13, <1>14 DEF BudgetInv

(* A step that leaves the run's replays and counters, and of the current   *)
(* copies only some.                                                       *)
LEMMA FewerCopiesBudget ==
    ASSUME TypeOK, BudgetInv, consumed' = consumed, inherited' = inherited,
           run'.calls = run.calls, run'.replay = run.replay,
           \A v \in Worker : todo'[v] \subseteq todo[v],
           \A v \in current' : v \in current /\ mem'[v] = mem[v] /\ batch'[v] = batch[v]
    PROVE  BudgetInv'
  <1>1. SparesNoMore(run'.replay)
    BY DEF SparesNoMore
  <1>2. \A v \in current' : mem'[v].calls = run.calls /\ SparesNoMore(Spared(v)')
    BY DEF SparesNoMore, Spared, BudgetInv, CopiesWithin
  <1>. QED BY <1>1, <1>2, QuietBudget

(* The end of a run charges nothing and leaves nothing to start.           *)
LEMMA EndBudget ==
    ASSUME CopyInv, BudgetInv, NEW w \in Worker,
           \/ Finish(w) \/ FailTask(w) \/ DeadlineExceeded(w) \/ RefuseResult(w)
    PROVE  BudgetInv'
  <1>1. TypeOK /\ run \in Run /\ mem[w] \in Run
    BY DEF CopyInv, TypeOK
  <1>2. UNCHANGED <<batch, todo, consumed, inherited>> /\ Forget(w)
    BY DEF Finish, FailTask, DeadlineExceeded, RefuseResult, working, history
  <1>3. ASSUME run' = run, current' \subseteq current, w \notin current'
        PROVE  BudgetInv'
    <2>1. \A v \in current' : v \in current /\ mem'[v] = mem[v]
      BY <1>1, <1>2, <1>3 DEF TypeOK, Forget
    <2>. QED BY <1>1, <1>2, <1>3, <2>1, FewerCopiesBudget
  <1>4. CASE Finish(w)
    <2>1. CASE w \in current
      <3>1. run' = Finalized(mem[w], "completed") /\ current' = {}
        BY <1>4, <2>1 DEF Finish, StoreRow
      <3>2. run'.calls = mem[w].calls /\ run'.replay = mem[w].replay
        BY <1>1, <3>1, FinalizedKeeps DEF RunStatus
      <3>3. mem[w].calls = run.calls
        BY <2>1 DEF BudgetInv, CopiesWithin
      <3>4. SparesNoMore(run'.replay)
        BY <2>1, <3>2 DEF SparesNoMore, Spared, Uncharged
      <3>. QED BY <1>1, <1>2, <3>1, <3>2, <3>3, <3>4, QuietBudget
    <2>2. CASE w \notin current
      <3>1. run' = run /\ current' = current
        BY <1>4, <2>2 DEF Finish, durable
      <3>. QED BY <1>3, <2>2, <3>1
    <2>. QED BY <2>1, <2>2
  <1>5. CASE FailTask(w)
    <2>1. CASE task.status # "completed"
      <3>1. run' = Finalized(run, "failed") /\ current' = {}
        BY <1>5, <2>1 DEF FailTask, StoreRow
      <3>2. run'.calls = run.calls /\ run'.replay = run.replay
        BY <1>1, <3>1, FinalizedKeeps DEF RunStatus
      <3>. QED BY <1>1, <1>2, <3>1, <3>2, FewerCopiesBudget
    <2>2. CASE task.status = "completed"
      <3>1. run' = run /\ current' = current /\ pc[w] = "failing"
        BY <1>5, <2>2 DEF FailTask, durable
      <3>. QED BY <1>3, <3>1 DEF CopyInv, FailingStale
    <2>. QED BY <2>1, <2>2
  <1>6. CASE DeadlineExceeded(w) \/ RefuseResult(w)
    <2>1. run' = run /\ current' = current \ {w}
      BY <1>6 DEF DeadlineExceeded, RefuseResult, durable
    <2>. QED BY <1>3, <2>1
  <1>. QED BY <1>4, <1>5, <1>6

LEMMA FaultBudget ==
    ASSUME TypeOK, BudgetInv,
           \/ \E w \in Worker : Crash(w) \/ RecoverTask(w)
           \/ LeaseLapses \/ HeartbeatFails
    PROVE  BudgetInv'
  <1>1. ASSUME NEW w \in Worker, Crash(w)
        PROVE  BudgetInv'
    <2>1. /\ run' = run /\ current' = current \ {w} /\ Forget(w)
          /\ consumed' = consumed /\ inherited' = inherited
          /\ batch' = [batch EXCEPT ![w] = {}] /\ todo' = [todo EXCEPT ![w] = {}]
      BY <1>1 DEF Crash, history
    <2>2. \A v \in Worker : todo'[v] \subseteq todo[v]
      BY <2>1 DEF TypeOK
    <2>3. \A v \in current' : v \in current /\ mem'[v] = mem[v] /\ batch'[v] = batch[v]
      BY <2>1 DEF TypeOK, Forget
    <2>. QED BY <2>1, <2>2, <2>3, FewerCopiesBudget
  <1>2. CASE LeaseLapses \/ HeartbeatFails \/ \E w \in Worker : RecoverTask(w)
    <2>1. UNCHANGED <<run, current, mem, batch, todo, consumed, inherited>>
      BY <1>2 DEF LeaseLapses, HeartbeatFails, RecoverTask, working, history
    <2>. QED BY <2>1, FewerCopiesBudget
  <1>. QED BY <1>1, <1>2

LEMMA UserBudget ==
    ASSUME TypeOK, BudgetInv, User
    PROVE  BudgetInv'
  <1>1. run \in Run
    BY DEF TypeOK
  <1>2. UNCHANGED <<mem, batch, todo, consumed, inherited>>
    BY DEF User, Pause, Approve, Reject, Resume, Reconcile, working, history
  <1>3. CASE Pause \/ Approve \/ Resume
    <2>1. run' = run /\ current' = current
      BY <1>3 DEF Pause, Approve, Resume
    <2>. QED BY <1>2, <2>1, FewerCopiesBudget
  <1>4. CASE Reject
    <2>1. run'.calls = run.calls /\ run'.replay = run.replay /\ current' = {}
      BY <1>1, <1>4 DEF Reject, StoreRow, Run
    <2>. QED BY <1>2, <2>1, FewerCopiesBudget
  <1>5. ASSUME NEW n \in Node, NEW outcome \in {"succeeded", "failed"}, Reconcile(n, outcome)
        PROVE  BudgetInv'
    <2>1. run'.calls = run.calls /\ run'.replay = run.replay /\ current' = {}
      BY <1>1, <1>5 DEF Reconcile, StoreRow, Run
    <2>. QED BY <1>2, <2>1, FewerCopiesBudget
  <1>. QED BY <1>3, <1>4, <1>5 DEF User

LEMMA StepBudget ==
    ASSUME CopyInv, BudgetInv, [Next]_vars
    PROVE  BudgetInv'
  <1>1. TypeOK
    BY DEF CopyInv
  <1>2. CASE UNCHANGED vars
    <2>1. UNCHANGED <<run, current, mem, batch, todo, consumed, inherited>>
      BY <1>2 DEF vars, durable, working, history
    <2>. QED BY <1>1, <2>1, FewerCopiesBudget
  <1>3. CASE Next
    BY <1>1, <1>2, <1>3, NextCases, ClaimBudget, SavingBudget, StartBudget,
       StaleStartBudget, InvokeBudget, CollectBudget, EndBudget, FaultBudget, UserBudget
  <1>. QED BY <1>2, <1>3

(* No more calls reach a handler than the run's budget allows, per counter *)
(* and in every behaviour, but one for each node that a worker who took    *)
(* the task over found in flight and may replay: the reservation precedes  *)
(* the RUNNING checkpoint, a batch counts what it reserved before, a       *)
(* replay's mark is good for one start, and a stale worker saves nothing.  *)
(* Nothing is assumed of the handlers: metered ones may be replay-safe.    *)
THEOREM BudgetKept == Spec => []BudgetBound
  <1>1. Init => OnceInv /\ CopyInv /\ BudgetInv
    <2> SUFFICES ASSUME Init PROVE BudgetInv
      BY InitOnce, InitCopies
    <2>1. ASSUME NEW p \in Pool
          PROVE  /\ IsFiniteSet(Due(p)) /\ Cardinality(Due(p)) = 0 /\ MaxCalls[p] \in Nat
                 /\ Cardinality(OnPool(run.replay, p)) = 0
                 /\ consumed[p] = 0 /\ inherited[p] = 0 /\ run.calls[p] = 0
      <3>1. Due(p) = {} /\ OnPool(run.replay, p) = {}
        BY DEF Init, Due, OnPool, NewRun
      <3>2. consumed[p] = 0 /\ inherited[p] = 0 /\ run.calls[p] = 0
        BY DEF Init, NewRun
      <3>. QED BY <3>1, <3>2, FS_EmptySet, Limits
    <2>2. ChargedFits /\ StoredWithin
      BY <2>1 DEF ChargedFits, StoredWithin, Within
    <2>3. CopiesWithin
      BY DEF Init, CopiesWithin
    <2>. QED BY <2>2, <2>3 DEF BudgetInv
  <1>2. OnceInv /\ CopyInv /\ BudgetInv /\ [Next]_vars
            => OnceInv' /\ CopyInv' /\ BudgetInv'
    BY StepCopies, StepBudget
  <1>3. CopyInv /\ BudgetInv => BudgetBound
    <2> SUFFICES ASSUME CopyInv, BudgetInv, NEW p \in Pool
                 PROVE  consumed[p] <= MaxCalls[p] + inherited[p]
      BY DEF BudgetBound
    <2>1. TypeOK /\ ChargedFits /\ MaxCalls[p] \in Nat /\ run.replay \in SUBSET Node
      BY Limits DEF BudgetInv, CopyInv, TypeOK, Run
    <2>2. /\ consumed[p] \in Nat /\ inherited[p] \in Nat /\ run.calls[p] \in Nat
          /\ Cardinality(Due(p)) \in Nat /\ Cardinality(OnPool(run.replay, p)) \in Nat
          /\ run.calls[p] <= MaxCalls[p]
      BY <2>1, Counts, PoolCount DEF ChargedFits
    <2>3. consumed[p] + Cardinality(Due(p)) + Cardinality(OnPool(run.replay, p))
             <= run.calls[p] + inherited[p]
      BY DEF BudgetInv, StoredWithin, Within
    <2>. QED BY <2>1, <2>2, <2>3
  <1>. QED BY <1>1, <1>2, <1>3, PTL DEF Spec

-----------------------------------------------------------------------------
(***************************************************************************)
(* The strengthening of DependencyOrder, for a stepwise runtime and a plan *)
(* that lists a node after those it depends on.  What a node depends on is *)
(* over when it starts, and stays as it ended, so an activation once       *)
(* satisfied stays so.  The stored run and the current copies keep the     *)
(* order (InOrder), but for the one node a decision made ready without a   *)
(* look at its activation: from there to the end of Prepare it is the      *)
(* first that has not been achieved, and so comes after everything it      *)
(* depends on (FitToGo).  The goal runtime makes every node ready at once, *)
(* and the property fails for it.                                          *)
(***************************************************************************)
StepwiseInOrder == Provider = "stepwise" /\ \A n \in Node : DependsOn[n] \subseteq 1 .. (n - 1)

Live == {"ready", "running", "succeeded", "partial"}

InOrder(st, but) == \A n \in Node \ but : st[n] \in Live => ActivationSatisfied(n, st)

FitToGo(m, place, named) ==
    IF place = "enter"
    THEN /\ InOrder(m.node, named)
         /\ named \subseteq {n \in Node : First(n, Unachieved(m))}
         /\ \A n \in named : m.node[n] # "ready" => InOrder(m.node, {})
    ELSE InOrder(m.node, {})

OrderInv == /\ InOrder(run.node, {})
            /\ \A w \in current : FitToGo(mem[w], pc[w], selected[w])

LEMMA ActivationStable ==
    ASSUME NEW st, NEW now, NEW n \in Node, ActivationSatisfied(n, st),
           \A d \in Node : st[d] \in Terminal => now[d] = st[d]
    PROVE  ActivationSatisfied(n, now)
  <1>1. DependsOn[n] \subseteq Node
    BY PlanValid DEF PlanAssumption
  <1>2. Achieved \subseteq Terminal
    BY DEF Achieved, Terminal
  <1>3. Activation[n] \in {"all_succeeded", "any_failed", "always"}
    BY PlanValid DEF PlanAssumption
  <1>4. CASE Activation[n] = "all_succeeded"
    BY <1>1, <1>2, <1>4 DEF ActivationSatisfied
  <1>5. CASE Activation[n] = "any_failed"
    BY <1>1, <1>5 DEF ActivationSatisfied
  <1>6. CASE Activation[n] = "always"
    BY <1>1, <1>6 DEF ActivationSatisfied
  <1>. QED BY <1>3, <1>4, <1>5, <1>6

(* The order is kept by what keeps finished nodes and brings to life only  *)
(* nodes whose activation was satisfied.                                   *)
LEMMA OrderKept ==
    ASSUME NEW st, NEW now, NEW but, InOrder(st, but),
           \A n \in Node : st[n] \in Terminal => now[n] = st[n],
           \A n \in Node \ but : now[n] \in Live =>
              st[n] \in Live \/ ActivationSatisfied(n, st)
    PROVE  InOrder(now, but)
  <1> SUFFICES ASSUME NEW n \in Node \ but, now[n] \in Live PROVE ActivationSatisfied(n, now)
    BY DEF InOrder
  <1>1. ActivationSatisfied(n, st)
    BY DEF InOrder
  <1>. QED BY <1>1, ActivationStable

LEMMA OrderMarked ==
    ASSUME NEW st \in [Node -> NodeStatus], NEW but, NEW allowed, InOrder(st, but)
    PROVE  InOrder(MarkReady(st, allowed), but)
  <1>1. \A n \in Node : /\ st[n] \in Terminal => MarkReady(st, allowed)[n] = st[n]
                        /\ \/ MarkReady(st, allowed)[n] = st[n]
                           \/ ActivationSatisfied(n, st)
    BY DEF MarkReady, ReadyNodes, Terminal
  <1>. QED BY <1>1, OrderKept

LEMMA OrderSettled ==
    ASSUME NEW st \in [Node -> NodeStatus], NEW but, NEW final \in Settlements(st),
           InOrder(st, but)
    PROVE  InOrder(final, but)
  <1>1. \A n \in Node : /\ st[n] \in Terminal => final[n] = st[n]
                        /\ final[n] \in Live => st[n] \in Live
    BY SettlingKeeps DEF Terminal, Open, Live
  <1>. QED BY <1>1, OrderKept

(* A step that changes no current copy, and leaves the stored run in order. *)
LEMMA QuietOrder ==
    ASSUME OrderInv, InOrder(run'.node, {}),
           \A v \in current' :
              \/ /\ v \in current /\ mem'[v] = mem[v] /\ pc'[v] = pc[v]
                 /\ selected'[v] = selected[v]
              \/ mem'[v].node = run'.node /\ pc'[v] # "enter"
    PROVE  OrderInv'
  <1> SUFFICES ASSUME NEW v \in current' PROVE FitToGo(mem'[v], pc'[v], selected'[v])
    BY DEF OrderInv, FitToGo, InOrder, Unachieved
  <1>. QED BY DEF OrderInv, FitToGo

LEMMA CheckpointOrder ==
    ASSUME TypeOK, OrderInv, NEW w \in Worker, NEW m \in Run, NEW next \in Pcs \ {"enter"},
           Checkpoint(w, m, next), w \in current => InOrder(m.node, {}),
           \A v \in Worker \ {w} : selected'[v] = selected[v]
    PROVE  OrderInv'
  <1>1. CASE w \in current
    <2>1. run'.node = m.node
      BY <1>1, MergedKeeps DEF Checkpoint, StoreRow
    <2>2. current' = {} \/ (current' = {w} /\ mem'[w] = run' /\ pc'[w] = next)
      BY <1>1 DEF Checkpoint, StoreRow, TypeOK
    <2>. QED BY <1>1, <2>1, <2>2, QuietOrder
  <1>2. CASE w \notin current
    <2>1. run' = run /\ current' = current
      BY <1>2 DEF Checkpoint, durable
    <2>2. \A v \in current : v \in Worker \ {w} /\ mem'[v] = mem[v] /\ pc'[v] = pc[v]
      BY <1>2, OthersAside DEF TypeOK
    <2>. QED BY <2>1, <2>2, QuietOrder DEF OrderInv
  <1>. QED BY <1>1, <1>2

LEMMA LocallyOrder ==
    ASSUME TypeOK, OrderInv, NEW w \in Worker, NEW m \in Run, NEW next,
           Locally(w, m, next), w \in current => FitToGo(m, next, selected'[w]),
           \A v \in Worker \ {w} : selected'[v] = selected[v]
    PROVE  OrderInv'
  <1>1. /\ run' = run /\ current' = current /\ mem'[w] = m /\ pc'[w] = next
        /\ \A v \in Worker \ {w} : mem'[v] = mem[v] /\ pc'[v] = pc[v]
    BY DEF Locally, durable, TypeOK
  <1> SUFFICES ASSUME NEW v \in current' PROVE FitToGo(mem'[v], pc'[v], selected'[v])
    BY <1>1 DEF OrderInv, FitToGo, InOrder, Unachieved
  <1>2. CASE v = w
    BY <1>1, <1>2
  <1>3. CASE v # w
    <2>1. v \in current /\ v \in Worker \ {w}
      BY <1>1, <1>3 DEF TypeOK
    <2>. QED BY <1>1, <2>1 DEF OrderInv
  <1>. QED BY <1>2, <1>3

LEMMA FirstAlone ==
    ASSUME NEW S \in SUBSET Node, NEW n \in Node, NEW k \in Node, First(n, S), First(k, S)
    PROVE  n = k
  <1>1. n <= k /\ k <= n /\ n \in Nat /\ k \in Nat
    BY PlanValid DEF First, Node, PlanAssumption
  <1>. QED BY <1>1

(* A decision of a stepwise runtime names the first unachieved node, and   *)
(* what it depends on comes before it.                                     *)
LEMMA DecideOrder ==
    ASSUME StepwiseInOrder, TypeOK, OrderInv, NEW w \in Worker, DecideExecute(w)
    PROVE  OrderInv'
  <1> DEFINE named == {n \in Node : First(n, Unachieved(mem[w]))}
             opened == [n \in Node |-> IF n \in named /\ mem[w].node[n] = "pending"
                                       THEN "ready" ELSE mem[w].node[n]]
             m == [mem[w] EXCEPT !.status = "running", !.asked = NoHandler, !.node = opened]
  <1>1. mem[w] \in Run
    BY DEF TypeOK
  <1>2. /\ pc[w] = "decide" /\ selected' = [selected EXCEPT ![w] = named]
        /\ Locally(w, m, "enter")
    BY DEF DecideExecute, StepwiseInOrder, Observed
  <1> HIDE DEF named
  <1>3. opened \in [Node -> NodeStatus]
    BY <1>1 DEF Run, NodeStatus
  <1>4. \A n \in Node : /\ opened[n] = mem[w].node[n] \/ n \in named
                        /\ \/ opened[n] = mem[w].node[n]
                           \/ mem[w].node[n] = "pending" /\ opened[n] = "ready"
    OBVIOUS
  <1>5. m \in Run /\ m.node = opened
    BY <1>1, <1>3 DEF Run, RunStatus, Scope
  <1>6. selected'[w] = named /\ \A v \in Worker \ {w} : selected'[v] = selected[v]
    BY <1>2 DEF TypeOK
  <1>7. ASSUME w \in current PROVE FitToGo(m, "enter", named)
    <2>1. InOrder(mem[w].node, {})
      BY <1>2, <1>7 DEF OrderInv, FitToGo
    <2>2. InOrder(mem[w].node, named)
      BY <2>1 DEF InOrder
    <2>3. InOrder(opened, named)
      BY <1>4, <2>2, OrderKept DEF Terminal
    <2>4. Unachieved(m) = Unachieved(mem[w])
      BY <1>4, <1>5 DEF Unachieved, Achieved
    <2>5. named \subseteq {n \in Node : First(n, Unachieved(m))}
      BY <2>4 DEF named
    <2>6. ASSUME NEW n \in named, opened[n] # "ready" PROVE InOrder(opened, {})
      <3>1. \A k \in named : k = n
        <4>1. Unachieved(mem[w]) \in SUBSET Node
          BY DEF Unachieved
        <4>. QED BY <2>6, <4>1, FirstAlone DEF named
      <3>2. \A k \in Node : opened[k] = mem[w].node[k]
        BY <1>4, <2>6, <3>1
      <3>. QED BY <2>1, <3>2, OrderKept
    <2>. QED BY <1>5, <2>3, <2>5, <2>6 DEF FitToGo
  <1>. QED BY <1>2, <1>5, <1>6, <1>7, LocallyOrder

LEMMA ControllerOrder ==
    ASSUME StepwiseInOrder, TypeOK, OrderInv, NEW w \in Worker,
           \/ ConsultControl(w) \/ Verify(w) \/ DecideFail(w) \/ DecideFinish(w)
           \/ DecideExecute(w) \/ ReturnToController(w) \/ RequestApproval(w)
    PROVE  OrderInv'
  <1>1. CASE DecideExecute(w)
    BY <1>1, DecideOrder
  <1>2. CASE ~ DecideExecute(w)
    <2>1. PICK m \in Run, next \in Pcs :
             /\ m.node = mem[w].node /\ next # "enter"
             /\ Checkpoint(w, m, next) \/ Locally(w, m, next)
      BY <1>2, ControllerSaves
    <2>2. /\ pc[w] # "enter"
          /\ \A v \in Worker \ {w} : selected'[v] = selected[v]
      BY <1>2 DEF ConsultControl, Verify, DecideFail, DecideFinish, ReturnToController,
         RequestApproval, working, TypeOK
    <2>3. w \in current => InOrder(m.node, {})
      BY <2>1, <2>2 DEF OrderInv, FitToGo
    <2>4. w \in current => FitToGo(m, next, selected'[w])
      BY <2>1, <2>3 DEF FitToGo
    <2>. QED BY <2>1, <2>2, <2>3, <2>4, CheckpointOrder, LocallyOrder
  <1>. QED BY <1>1, <1>2

(* Recovery revives nodes that were in flight, and those had started.      *)
LEMMA RecoveringOrder ==
    ASSUME TypeOK, NEW w \in Worker, NEW but, InOrder(mem[w].node, but)
    PROVE  InOrder(Recovering(w).node, but)
  <1>1. \A n \in Node : \/ Recovering(w).node[n] = mem[w].node[n]
                        \/ mem[w].node[n] = "running"
    BY RecoveringKeeps DEF Replayable, Interrupted, Inflight
  <1>. QED BY <1>1, OrderKept DEF Live, Terminal

LEMMA PauseOrder ==
    ASSUME TypeOK, OrderInv, NEW w \in Worker, PauseForReconciliation(w)
    PROVE  OrderInv'
  <1> DEFINE m == [Recovering(w) EXCEPT !.status = "paused", !.asked = NoHandler]
  <1>1. m \in Run /\ m.node = Recovering(w).node
    BY RecoveringType DEF Run, RunStatus, Scope, TypeOK
  <1>2. /\ pc[w] = "enter" /\ Interrupted(w) # Replayable(w) /\ Checkpoint(w, m, "idle")
        /\ \A v \in Worker \ {w} : selected'[v] = selected[v]
    BY DEF PauseForReconciliation, TypeOK
  <1>3. ASSUME w \in current PROVE InOrder(mem[w].node, {})
    <2>1. PICK n \in selected[w] : mem[w].node[n] = "running"
      BY <1>2 DEF Replayable, Interrupted, Inflight
    <2>. QED BY <1>2, <1>3, <2>1 DEF OrderInv, FitToGo
  <1>4. w \in current => InOrder(m.node, {})
    BY <1>1, <1>3, RecoveringOrder
  <1>. QED BY <1>1, <1>2, <1>4, CheckpointOrder DEF Pcs

(* What Prepare leaves in order: a node named without a look at its        *)
(* activation is first among those not achieved, so all it depends on was  *)
(* achieved; either that satisfies it, or it is skipped.                   *)
LEMMA PrepareOrder ==
    ASSUME StepwiseInOrder, TypeOK, OrderInv, NEW w \in Worker, Prepare(w)
    PROVE  OrderInv'
  <1> DEFINE marked == MarkReady(Recovering(w).node, selected[w])
  <1>1. mem[w] \in Run /\ Recovering(w) \in Run
    BY RecoveringType DEF TypeOK
  <1>2. PICK final \in Settlements(marked), status \in RunStatus :
           LET m == [Recovering(w) EXCEPT !.node = final, !.status = status] IN
           m \in Run /\ (Checkpoint(w, m, "loop") \/ Locally(w, m, "loop"))
    BY PrepareSaves
  <1> DEFINE m == [Recovering(w) EXCEPT !.node = final, !.status = status]
  <1>3. m \in Run /\ m.node = final /\ (Checkpoint(w, m, "loop") \/ Locally(w, m, "loop"))
    BY <1>1, <1>2 DEF Run
  <1>4. marked \in [Node -> NodeStatus] /\ Recovering(w).node \in [Node -> NodeStatus]
    BY <1>1, MarkReadyType DEF Run
  <1>5. pc[w] = "enter" /\ selected' = selected
    BY DEF Prepare, working
  <1>6. \A n \in Node : \/ Recovering(w).node[n] = mem[w].node[n]
                        \/ mem[w].node[n] = "running" /\ Recovering(w).node[n] = "ready"
    BY RecoveringKeeps DEF Replayable, Interrupted, Inflight
  <1>7. \A n \in Node : /\ Recovering(w).node[n] \notin {"pending"}
                              => marked[n] = Recovering(w).node[n]
                        /\ marked[n] = Recovering(w).node[n] \/ marked[n] = "ready"
    BY <1>4 DEF MarkReady, ReadyNodes
  <1> HIDE DEF m
  <1>8. ASSUME NEW but, InOrder(mem[w].node, but) PROVE InOrder(final, but)
    <2>1. InOrder(Recovering(w).node, but)
      BY <1>8, RecoveringOrder
    <2>2. InOrder(marked, but)
      BY <1>4, <2>1, OrderMarked
    <2> HIDE DEF marked
    <2>. QED BY <1>4, <2>2, OrderSettled
  <1> HIDE DEF marked
  <1>9. ASSUME w \in current PROVE InOrder(final, {})
    <2>1. FitToGo(mem[w], "enter", selected[w])
      BY <1>5, <1>9 DEF OrderInv
    <2> SUFFICES ASSUME NEW n \in Node, final[n] \in Live PROVE ActivationSatisfied(n, final)
      BY DEF InOrder
    <2>2. CASE n \notin selected[w]
      <3>1. InOrder(final, selected[w])
        BY <1>8, <2>1 DEF FitToGo
      <3>. QED BY <2>2, <3>1 DEF InOrder
    <2>3. CASE n \in selected[w] /\ mem[w].node[n] # "ready"
      <3>1. InOrder(final, {})
        BY <1>8, <2>1, <2>3 DEF FitToGo
      <3>. QED BY <3>1 DEF InOrder
    <2>4. CASE n \in selected[w] /\ mem[w].node[n] = "ready"
      <3>1. First(n, Unachieved(mem[w]))
        BY <2>1, <2>4 DEF FitToGo
      <3>2. ASSUME NEW d \in DependsOn[n] PROVE final[d] \in Achieved
        <4>1. d \in Node /\ d < n
          BY <3>2, PlanValid DEF StepwiseInOrder, PlanAssumption, Node
        <4>2. mem[w].node[d] \in Achieved
          BY <3>1, <4>1, PlanValid DEF First, Unachieved, Node, PlanAssumption
        <4>3. marked[d] \in Achieved
          BY <1>6, <1>7, <4>1, <4>2 DEF Achieved
        <4>. QED BY <1>4, <4>1, <4>3, SettlingKeeps DEF Achieved, Open
      <3>3. marked[n] = "ready"
        BY <1>6, <1>7, <2>4
      <3>4. Activation[n] # "any_failed"
        <4>1. SUFFICES ASSUME Activation[n] = "any_failed" PROVE FALSE
          OBVIOUS
        <4>2. final[n] = Verdict(n, marked, final)
          BY DEF Settlements
        <4>3. \A d \in DependsOn[n] : final[d] \in Terminal \ Broken
          BY <3>2 DEF Achieved, Terminal, Broken
        <4>4. final[n] = "skipped"
          BY <3>3, <4>1, <4>2, <4>3 DEF Verdict, Open
        <4>. QED BY <4>4 DEF Live
      <3>5. Activation[n] \in {"all_succeeded", "any_failed", "always"}
        BY PlanValid DEF PlanAssumption
      <3>6. \A d \in DependsOn[n] : final[d] \in Terminal
        BY <3>2 DEF Achieved, Terminal
      <3>. QED BY <3>2, <3>4, <3>5, <3>6 DEF ActivationSatisfied
    <2>. QED BY <2>2, <2>3, <2>4
  <1>10. w \in current => FitToGo(m, "loop", selected'[w]) /\ InOrder(m.node, {})
    BY <1>3, <1>9 DEF FitToGo
  <1>. QED BY <1>3, <1>5, <1>10, CheckpointOrder, LocallyOrder DEF Pcs

LEMMA BatchOrder ==
    ASSUME CopyInv, OrderInv, NEW w \in Worker,
           Collect(w) \/ \E lead \in {0} \cup Node : StartBatch(w, lead)
    PROVE  OrderInv'
  <1>1. TypeOK /\ mem[w] \in Run
    BY DEF CopyInv, TypeOK
  <1>2. /\ pc[w] # "enter" /\ \A v \in Worker \ {w} : selected'[v] = selected[v]
    BY DEF Collect, StartBatch
  <1>3. w \in current => InOrder(mem[w].node, {})
    BY <1>2 DEF OrderInv, FitToGo
  <1>4. ASSUME NEW lead \in {0} \cup Node, StartBatch(w, lead)
        PROVE  OrderInv'
    <2> DEFINE chosen == Chosen(w, lead)
    <2>1. chosen \subseteq Node /\ \A n \in chosen : mem[w].node[n] = "ready"
      BY <1>4, ChosenStartable
    <2>2. PICK started \in Run :
             /\ started.node = [n \in Node |-> IF n \in chosen THEN "running"
                                               ELSE mem[w].node[n]]
             /\ Checkpoint(w, started, "dispatch")
      BY <1>1, <1>4, StartSavesAll
    <2> HIDE DEF chosen
    <2>3. ASSUME w \in current PROVE InOrder(started.node, {})
      <3>1. \A n \in Node : \/ started.node[n] = mem[w].node[n]
                            \/ mem[w].node[n] = "ready"
        BY <2>1, <2>2
      <3>. QED BY <1>3, <2>3, <3>1, OrderKept DEF Live, Terminal
    <2>. QED BY <1>1, <1>2, <2>2, <2>3, CheckpointOrder DEF Pcs
  <1>5. CASE Collect(w)
    <2>1. PICK applied \in [Node -> NodeStatus] : \E final \in Settlements(applied) :
          \E saved \in Run :
             /\ \A n \in Node \ (batch[w] \cup denied[w]) : applied[n] = mem[w].node[n]
             /\ saved.node = MarkReady(final, Node)
             /\ Checkpoint(w, saved, "loop")
      BY <1>1, <1>5, CollectSavesAll
    <2>2. PICK final \in Settlements(applied), saved \in Run :
             /\ \A n \in Node \ (batch[w] \cup denied[w]) : applied[n] = mem[w].node[n]
             /\ saved.node = MarkReady(final, Node)
             /\ Checkpoint(w, saved, "loop")
      BY <2>1
    <2>3. \A n \in Node : applied[n] = mem[w].node[n] \/ mem[w].node[n] = "running"
      BY <2>2 DEF CopyInv, BatchesInFlight, InFlight
    <2>4. ASSUME w \in current PROVE InOrder(saved.node, {})
      <3>1. InOrder(applied, {})
        BY <1>3, <2>3, <2>4, OrderKept DEF Live, Terminal
      <3>2. InOrder(final, {}) /\ final \in [Node -> NodeStatus]
        BY <3>1, OrderSettled, SettlementsType
      <3>. QED BY <2>2, <3>2, OrderMarked
    <2>. QED BY <1>1, <1>2, <2>2, <2>4, CheckpointOrder DEF Pcs
  <1>. QED BY <1>4, <1>5

LEMMA FinalizedOrder ==
    ASSUME NEW m \in Run, NEW status \in RunStatus, InOrder(m.node, {})
    PROVE  InOrder(Finalized(m, status).node, {})
  <1>1. \A n \in Node : \/ Finalized(m, status).node[n] = m.node[n]
                        \/ /\ m.node[n] \notin Terminal
                           /\ Finalized(m, status).node[n] \notin Live
    BY DEF Finalized, Run, Live, Terminal, Open
  <1>. QED BY <1>1, OrderKept

(* The steps that only take copies away, or end the run.                   *)
LEMMA EndOrder ==
    ASSUME CopyInv, OrderInv, NEW w \in Worker,
           \/ Finish(w) \/ FailTask(w) \/ DeadlineExceeded(w) \/ RefuseResult(w)
    PROVE  OrderInv'
  <1>1. TypeOK /\ run \in Run /\ mem[w] \in Run
    BY DEF CopyInv, TypeOK
  <1>2. /\ Forget(w) /\ \A v \in Worker \ {w} : pc'[v] = pc[v] /\ selected'[v] = selected[v]
    BY <1>1 DEF Finish, FailTask, DeadlineExceeded, RefuseResult, working, TypeOK
  <1>3. \A v \in Worker \ {w} : mem'[v] = mem[v]
    BY <1>1, <1>2, ForgetCopies
  <1>4. ASSUME run' = run, current' \subseteq current, w \notin current'
        PROVE  OrderInv'
    <2>1. \A v \in current' : v \in Worker \ {w}
      BY <1>1, <1>4 DEF TypeOK
    <2>. QED BY <1>2, <1>3, <1>4, <2>1, QuietOrder DEF OrderInv
  <1>5. CASE Finish(w)
    <2>1. CASE w \in current
      <3>1. run' = Finalized(mem[w], "completed") /\ current' = {} /\ pc[w] = "finish"
        BY <1>5, <2>1 DEF Finish, StoreRow
      <3>2. InOrder(mem[w].node, {})
        BY <2>1, <3>1 DEF OrderInv, FitToGo
      <3>3. InOrder(run'.node, {})
        BY <1>1, <3>1, <3>2, FinalizedOrder DEF RunStatus
      <3>. QED BY <3>1, <3>3, QuietOrder
    <2>2. CASE w \notin current
      <3>1. run' = run /\ current' = current
        BY <1>5, <2>2 DEF Finish, durable
      <3>. QED BY <1>4, <2>2, <3>1
    <2>. QED BY <2>1, <2>2
  <1>6. CASE FailTask(w)
    <2>1. CASE task.status # "completed"
      <3>1. run' = Finalized(run, "failed") /\ current' = {}
        BY <1>6, <2>1 DEF FailTask, StoreRow
      <3>2. InOrder(run'.node, {})
        BY <1>1, <3>1, FinalizedOrder DEF RunStatus, OrderInv
      <3>. QED BY <3>1, <3>2, QuietOrder
    <2>2. CASE task.status = "completed"
      <3>1. run' = run /\ current' = current /\ pc[w] = "failing"
        BY <1>6, <2>2 DEF FailTask, durable
      <3>. QED BY <1>4, <3>1 DEF CopyInv, FailingStale
    <2>. QED BY <2>1, <2>2
  <1>7. CASE DeadlineExceeded(w) \/ RefuseResult(w)
    <2>1. run' = run /\ current' = current \ {w}
      BY <1>7 DEF DeadlineExceeded, RefuseResult, durable
    <2>. QED BY <1>4, <2>1
  <1>. QED BY <1>5, <1>6, <1>7

LEMMA OutsideOrder ==
    ASSUME TypeOK, OrderInv,
           \/ \E w \in Worker : \/ Claim(w) \/ \E n \in Node : Invoke(w, n)
                                \/ Crash(w) \/ RecoverTask(w)
           \/ LeaseLapses \/ HeartbeatFails \/ User
    PROVE  OrderInv'
  <1>1. run \in Run
    BY DEF TypeOK
  <1>2. ASSUME NEW w \in Worker, Claim(w)
        PROVE  OrderInv'
    <2>1. /\ run'.node = run.node /\ mem'[w].node = run.node /\ pc'[w] = "control"
          /\ current' = current \cup {w} /\ selected' = selected
          /\ \A v \in Worker \ {w} : mem'[v] = mem[v] /\ pc'[v] = pc[v]
      BY <1>1, <1>2 DEF Claim, StartOrRestore, TypeOK, Run, working
    <2>2. \A v \in current' : v = w \/ (v \in Worker \ {w} /\ v \in current)
      BY <2>1 DEF TypeOK
    <2>. QED BY <2>1, <2>2, QuietOrder DEF OrderInv
  <1>3. ASSUME NEW w \in Worker, Crash(w)
        PROVE  OrderInv'
    <2>1. /\ run' = run /\ current' = current \ {w} /\ Forget(w)
          /\ pc' = [pc EXCEPT ![w] = "idle"] /\ selected' = [selected EXCEPT ![w] = {}]
      BY <1>3 DEF Crash
    <2>2. \A v \in current' : /\ v \in current /\ mem'[v] = mem[v] /\ pc'[v] = pc[v]
                              /\ selected'[v] = selected[v]
      BY <2>1 DEF Forget, TypeOK
    <2>. QED BY <2>1, <2>2, QuietOrder DEF OrderInv
  <1>4. CASE \/ LeaseLapses \/ HeartbeatFails \/ Pause \/ Approve \/ Resume
             \/ \E w \in Worker : RecoverTask(w) \/ \E n \in Node : Invoke(w, n)
    <2>1. UNCHANGED <<run, current, mem, pc, selected>>
      BY <1>4 DEF LeaseLapses, HeartbeatFails, Pause, Approve, Resume, RecoverTask, Invoke,
         working, durable
    <2>. QED BY <2>1, QuietOrder DEF OrderInv
  <1>5. CASE Reject
    <2>1. run'.node = run.node /\ current' = {}
      BY <1>1, <1>5 DEF Reject, StoreRow, Run
    <2>. QED BY <2>1, QuietOrder DEF OrderInv
  <1>6. ASSUME NEW n \in Node, NEW outcome \in {"succeeded", "failed"}, Reconcile(n, outcome)
        PROVE  OrderInv'
    <2>1. /\ run'.node = [run.node EXCEPT ![n] = outcome] /\ run.node[n] = "running"
          /\ current' = {}
      BY <1>1, <1>6 DEF Reconcile, StoreRow, Run
    <2>2. \A k \in Node : run'.node[k] = run.node[k] \/ run.node[k] = "running"
      BY <1>1, <2>1 DEF Run
    <2>3. InOrder(run'.node, {})
      BY <2>2, OrderKept DEF OrderInv, Live, Terminal
    <2>. QED BY <2>1, <2>3, QuietOrder
  <1>. QED BY <1>2, <1>3, <1>4, <1>5, <1>6 DEF User

LEMMA StepOrder ==
    ASSUME StepwiseInOrder, OnceInv, CopyInv, OrderInv, [Next]_vars
    PROVE  OrderInv'
  <1>1. TypeOK
    BY DEF CopyInv
  <1>2. CASE UNCHANGED vars
    <2>1. UNCHANGED <<run, current, mem, pc, selected>>
      BY <1>2 DEF vars, durable, working
    <2>. QED BY <2>1, QuietOrder DEF OrderInv
  <1>3. CASE Next
    BY <1>1, <1>2, <1>3, NextCases, ControllerOrder, PauseOrder, PrepareOrder, BatchOrder,
       EndOrder, OutsideOrder
  <1>. QED BY <1>2, <1>3

(* A node of a stepwise runtime runs, or has produced a result, only when  *)
(* its activation was satisfied, in every behaviour, if the plan lists it  *)
(* after the nodes it depends on (_activation_satisfied; the providers'    *)
(* choice of the first node that has not been achieved).                   *)
THEOREM DependenciesFirst == StepwiseInOrder => (Spec => []DependencyOrder)
  <1> SUFFICES ASSUME StepwiseInOrder PROVE Spec => []DependencyOrder
    OBVIOUS
  <1>1. Init => OnceInv /\ CopyInv /\ OrderInv
    <2>1. Init => OrderInv
      BY DEF Init, NewRun, OrderInv, InOrder, Live
    <2>. QED BY <2>1, InitOnce, InitCopies
  <1>2. OnceInv /\ CopyInv /\ OrderInv /\ [Next]_vars
            => OnceInv' /\ CopyInv' /\ OrderInv'
    BY StepCopies, StepOrder
  <1>3. OrderInv => DependencyOrder
    BY DEF OrderInv, InOrder, Live, DependencyOrder
  <1>. QED BY <1>1, <1>2, <1>3, PTL DEF Spec


-----------------------------------------------------------------------------
(***************************************************************************)
(* The strengthening of WaitingIsAnswerable, for a stepwise runtime and a  *)
(* plan in order.  A waiting task has no worker left whose copy a          *)
(* checkpoint would accept (Rests), so nobody but its user moves it.  That *)
(* rests on no approval being overtaken: a task that runs on while its run *)
(* still says waiting_approval has its grant in the row (Rests), every     *)
(* current copy carries the grant of the row (Carried), and a grant is for *)
(* a call that is next to be made: it names the handler of a ready node    *)
(* with all nodes before it achieved (Aim), so the next batch uses it up   *)
(* and no second approval is asked for while it is out.                    *)
(***************************************************************************)
Behind(n, st) == \A k \in Node : k < n => st[k] \in Achieved
Wanted(n, st) == st[n] = "ready" /\ Activation[n] # "any_failed" /\ Behind(n, st)

Aim(st, g) == g # NoHandler => /\ g \in NeedsApproval
                               /\ \E n \in Node : HandlerOf[n] = g /\ Wanted(n, st)

FitToSpend(m, place, named) ==
    /\ Aim(m.node, m.grant)
    /\ place \in {"enter", "loop", "dispatch"} => \A n \in named : Behind(n, m.node)
    /\ place = "dispatch" => m.grant = NoHandler

Rests ==
    /\ task.status = "waiting_user" => current = {} /\ run.status = "paused"
    /\ task.status = "waiting_review" => current = {} /\ Unanswered
    /\ task.status \in {"queued", "running"} /\ run.status = "waiting_approval"
           => control.grant # NoHandler
    /\ run.status = "paused" => control.grant = run.grant

RowAims == ~TaskOver =>
    /\ Aim(run.node, control.grant)
    /\ run.status = "waiting_approval" => run.asked # NoHandler /\ Aim(run.node, run.asked)

CopiesAim == \A w \in current : FitToSpend(mem[w], pc[w], selected[w])
Carried == \A w \in current : control.grant # NoHandler => mem[w].grant = control.grant
NoVerifier == \A w \in Worker : pc[w] # "verify"

AnswerInv == Rests /\ RowAims /\ CopiesAim /\ Carried /\ NoVerifier

LEMMA AimKept ==
    ASSUME NEW st, NEW now, NEW g, Aim(st, g),
           \A n \in Node : /\ Wanted(n, st) => now[n] = "ready"
                           /\ st[n] \in Achieved => now[n] \in Achieved
    PROVE  Aim(now, g)
  BY DEF Aim, Wanted, Behind

(* A settlement leaves a wanted node alone: all it depends on comes before *)
(* it, and was achieved.                                                   *)
LEMMA WantedStays ==
    ASSUME StepwiseInOrder, NEW st \in [Node -> NodeStatus], NEW final \in Settlements(st),
           NEW n \in Node, Wanted(n, st)
    PROVE  final[n] = "ready"
  <1>1. ASSUME NEW d \in DependsOn[n] PROVE final[d] \in Achieved
    <2>1. d \in Node /\ d < n
      BY PlanValid DEF StepwiseInOrder, PlanAssumption, Node
    <2>2. st[d] \in Achieved
      BY <2>1 DEF Wanted, Behind
    <2>. QED BY <2>1, <2>2, SettlingKeeps DEF Achieved, Open
  <1>2. final[n] = Verdict(n, st, final)
    BY DEF Settlements
  <1>3. \A d \in DependsOn[n] : final[d] \notin Broken
    BY <1>1 DEF Achieved, Broken
  <1>. QED BY <1>2, <1>3 DEF Verdict, Wanted

(* Two nodes with everything before them achieved, and neither of them     *)
(* achieved, are the same.                                                 *)
LEMMA OneWanted ==
    ASSUME NEW st, NEW n \in Node, NEW k \in Node, Behind(n, st), Behind(k, st),
           st[n] \notin Achieved, st[k] \notin Achieved
    PROVE  n = k
  <1>1. ~ (n < k) /\ ~ (k < n) /\ n \in Nat /\ k \in Nat
    BY PlanValid DEF Behind, Node, PlanAssumption
  <1>. QED BY <1>1

(* A step that leaves the row alone and brings no new current copy.        *)
LEMMA QuietAnswer ==
    ASSUME AnswerInv, run' = run, control' = control, current' \subseteq current,
           \/ task'.status = task.status
           \/ {task.status, task'.status} \subseteq {"queued", "running"},
           \A v \in current' : mem'[v] = mem[v] /\ pc'[v] = pc[v] /\ selected'[v] = selected[v],
           NoVerifier'
    PROVE  AnswerInv'
  <1>1. Rests'
    BY DEF AnswerInv, Rests, Unanswered
  <1>2. RowAims'
    BY DEF AnswerInv, RowAims, TaskOver, Aim, Wanted, Behind
  <1>3. CopiesAim' /\ Carried'
    BY DEF AnswerInv, CopiesAim, Carried, FitToSpend, Aim, Wanted, Behind
  <1>. QED BY <1>1, <1>2, <1>3 DEF AnswerInv

(* What a current worker may checkpoint: its grant, used up by a batch or  *)
(* handed on, still names the call that is next.                           *)
SavesGrant(w, m, next, named) ==
    /\ m.grant = mem[w].grant \/ (m.grant = NoHandler /\ m.status = "running")
    /\ FitToSpend(m, next, named)
    /\ m.status \in {"paused", "waiting_approval"} => next = "idle"
    /\ m.status = "waiting_approval" => /\ m.grant = NoHandler
                                        /\ m.asked # NoHandler
                                        /\ Aim(m.node, m.asked)

LEMMA CheckpointAnswer ==
    ASSUME TypeOK, AnswerInv, NEW w \in Worker, NEW m \in Run, NEW next \in Pcs \ {"verify"},
           Checkpoint(w, m, next), w \in current => SavesGrant(w, m, next, selected'[w]),
           \A v \in Worker \ {w} : selected'[v] = selected[v]
    PROVE  AnswerInv'
  <1>1. \A v \in Worker \ {w} : mem'[v] = mem[v] /\ pc'[v] = pc[v]
    BY OthersAside
  <1>2. pc'[w] \in {next, "failing"}
    BY DEF Checkpoint, TypeOK
  <1>3. NoVerifier'
    BY <1>1, <1>2 DEF AnswerInv, NoVerifier
  <1>4. CASE w \notin current
    <2>1. run' = run /\ control' = control /\ task' = task /\ current' = current
      BY <1>4 DEF Checkpoint, durable
    <2>2. \A v \in current : v \in Worker \ {w}
      BY <1>4 DEF TypeOK
    <2>. QED BY <1>1, <1>3, <2>1, <2>2, QuietAnswer
  <1>5. CASE w \in current
    <2>1. Merged(m).grant = m.grant
      <3>1. control.grant # NoHandler => mem[w].grant = control.grant
        BY <1>5 DEF AnswerInv, Carried
      <3>2. Merged(m).grant = IF (m.status = "running" /\ m.grant = NoHandler) \/ m.grant # NoHandler
                              THEN m.grant ELSE control.grant
        BY DEF Merged, Run
      <3>. QED BY <1>5, <3>1, <3>2 DEF SavesGrant
    <2>2. /\ run' = Merged(m) /\ control'.grant = m.grant
          /\ task'.status = Projected(m.status)
          /\ current' = {} \/ (next # "idle" /\ current' = {w} /\ mem'[w] = Merged(m)
                               /\ pc'[w] = next)
          /\ next = "idle" => current' = {}
      BY <1>5, <2>1 DEF Checkpoint, StoreRow, TypeOK
    <2>3. run'.grant = m.grant /\ run'.node = m.node /\ run'.status = m.status
          /\ run'.asked = m.asked
      BY <2>1, <2>2, MergedKeeps
    <2>4. task.status \notin {"waiting_user", "waiting_review"}
      BY <1>5 DEF AnswerInv, Rests
    <2>5. Rests'
      BY <1>5, <2>2, <2>3, <2>4 DEF Rests, Unanswered, Projected, SavesGrant
    <2>6. RowAims'
      BY <1>5, <2>2, <2>3 DEF RowAims, SavesGrant, FitToSpend, Aim, Wanted, Behind
    <2>7. CopiesAim' /\ Carried'
      BY <1>5, <2>2, <2>3 DEF CopiesAim, Carried, SavesGrant, FitToSpend, Aim, Wanted, Behind
    <2>. QED BY <1>3, <2>5, <2>6, <2>7 DEF AnswerInv
  <1>. QED BY <1>4, <1>5

LEMMA LocallyAnswer ==
    ASSUME TypeOK, AnswerInv, NEW w \in Worker, NEW m \in Run, NEW next \in Pcs \ {"verify"},
           Locally(w, m, next),
           w \in current => m.grant = mem[w].grant /\ FitToSpend(m, next, selected'[w]),
           \A v \in Worker \ {w} : selected'[v] = selected[v]
    PROVE  AnswerInv'
  <1>1. /\ run' = run /\ control' = control /\ task' = task /\ current' = current
        /\ mem'[w] = m /\ pc'[w] = next
        /\ \A v \in Worker \ {w} : mem'[v] = mem[v] /\ pc'[v] = pc[v]
    BY DEF Locally, durable, TypeOK
  <1>2. NoVerifier'
    BY <1>1 DEF AnswerInv, NoVerifier
  <1>3. Rests' /\ RowAims'
    BY <1>1 DEF AnswerInv, Rests, RowAims, Unanswered, TaskOver, Aim, Wanted, Behind
  <1>4. ASSUME NEW v \in current
        PROVE  /\ FitToSpend(mem'[v], pc'[v], selected'[v])
               /\ control.grant # NoHandler => mem'[v].grant = control.grant
    <2>1. FitToSpend(mem[v], pc[v], selected[v])
          /\ (control.grant # NoHandler => mem[v].grant = control.grant)
      BY DEF AnswerInv, CopiesAim, Carried
    <2>2. CASE v = w
      BY <1>1, <2>1, <2>2
    <2>3. CASE v # w
      <3>1. v \in Worker \ {w}
        BY <2>3 DEF TypeOK
      <3>. QED BY <1>1, <2>1, <3>1
    <2>. QED BY <2>2, <2>3
  <1>5. CopiesAim' /\ Carried'
    BY <1>1, <1>4 DEF CopiesAim, Carried, FitToSpend, Aim, Wanted, Behind
  <1>. QED BY <1>2, <1>3, <1>5 DEF AnswerInv

(* With a grant in the copy the node it is for is the one to start, so no  *)
(* approval is asked for while a grant is out, and a batch that needs none *)
(* starts without one.                                                     *)
LEMMA GrantFits ==
    ASSUME TypeOK, AnswerInv, NEW w \in current, pc[w] = "loop", mem[w].grant # NoHandler,
           Startable(w) # {}
    PROVE  Granted(w) # {}
  <1>1. FitToSpend(mem[w], "loop", selected[w])
    BY DEF AnswerInv, CopiesAim
  <1>2. PICK a \in Node : HandlerOf[a] = mem[w].grant /\ Wanted(a, mem[w].node)
    BY <1>1 DEF FitToSpend, Aim
  <1>3. PICK n \in Startable(w) : TRUE
    OBVIOUS
  <1>4. n \in Node /\ mem[w].node[n] = "ready" /\ n \in selected[w]
    BY <1>3 DEF Startable, Ready
  <1>5. Behind(n, mem[w].node)
    BY <1>1, <1>4 DEF FitToSpend
  <1>6. n = a
    BY <1>2, <1>4, <1>5, OneWanted DEF Wanted, Achieved
  <1>. QED BY <1>1, <1>2, <1>3, <1>6 DEF Granted, Privileged, FitToSpend, Aim

LEMMA DecideAnswer ==
    ASSUME StepwiseInOrder, TypeOK, AnswerInv, NEW w \in Worker, DecideExecute(w)
    PROVE  AnswerInv'
  <1> DEFINE named == {n \in Node : First(n, Unachieved(mem[w]))}
             opened == [n \in Node |-> IF n \in named /\ mem[w].node[n] = "pending"
                                       THEN "ready" ELSE mem[w].node[n]]
             m == [mem[w] EXCEPT !.status = "running", !.asked = NoHandler, !.node = opened]
  <1>1. mem[w] \in Run
    BY DEF TypeOK
  <1>2. selected' = [selected EXCEPT ![w] = named] /\ Locally(w, m, "enter")
    BY DEF DecideExecute, StepwiseInOrder, Observed
  <1>3. \A n \in named : n \in Node /\ Behind(n, mem[w].node)
    BY PlanValid DEF First, Unachieved, Behind, Node, PlanAssumption
  <1> HIDE DEF named
  <1>4. opened \in [Node -> NodeStatus]
    BY <1>1 DEF Run, NodeStatus
  <1>5. \A n \in Node : \/ opened[n] = mem[w].node[n]
                        \/ mem[w].node[n] = "pending" /\ opened[n] = "ready"
    OBVIOUS
  <1>6. m \in Run /\ m.node = opened /\ m.grant = mem[w].grant
    BY <1>1, <1>4 DEF Run, RunStatus, Scope
  <1>7. selected'[w] = named /\ \A v \in Worker \ {w} : selected'[v] = selected[v]
    BY <1>2 DEF TypeOK
  <1>8. ASSUME w \in current PROVE FitToSpend(m, "enter", named)
    <2>1. Aim(mem[w].node, mem[w].grant)
      BY <1>8 DEF AnswerInv, CopiesAim, FitToSpend
    <2>2. Aim(opened, mem[w].grant)
      BY <1>5, <2>1, AimKept DEF Achieved, Wanted
    <2>3. \A n \in named : Behind(n, opened)
      BY <1>3, <1>5 DEF Behind, Achieved
    <2>. QED BY <1>6, <2>2, <2>3 DEF FitToSpend
  <1>. QED BY <1>2, <1>6, <1>7, <1>8, LocallyAnswer DEF Pcs

LEMMA RequestAnswer ==
    ASSUME StepwiseInOrder, TypeOK, OrderInv, AnswerInv, NEW w \in Worker, RequestApproval(w)
    PROVE  AnswerInv'
  <1>1. PICK n \in Node :
          /\ First(n, Privileged(w))
          /\ Checkpoint(w, [mem[w] EXCEPT !.status = "waiting_approval",
                                          !.asked = HandlerOf[n],
                                          !.grant = NoHandler], "idle")
    BY DEF RequestApproval
  <1> DEFINE m == [mem[w] EXCEPT !.status = "waiting_approval", !.asked = HandlerOf[n],
                                 !.grant = NoHandler]
  <1>2. /\ pc[w] = "loop" /\ Granted(w) = {}
        /\ \A v \in Worker \ {w} : selected'[v] = selected[v]
    BY DEF RequestApproval, TypeOK
  <1>3. HandlerOf[n] \in Handler /\ HandlerOf[n] \in NeedsApproval /\ HandlerOf[n] # NoHandler
    BY <1>1, ExecutorValid DEF First, Privileged, ExecutorAssumption
  <1>4. mem[w] \in Run
    BY DEF TypeOK
  <1>5. /\ m \in Run /\ m.node = mem[w].node /\ m.grant = NoHandler
        /\ m.status = "waiting_approval" /\ m.asked = HandlerOf[n]
    BY <1>3, <1>4 DEF Run, RunStatus, Scope
  <1>6. n \in Startable(w) /\ mem[w].node[n] = "ready" /\ n \in selected[w]
    BY <1>1 DEF First, Privileged, Startable, Ready
  <1>7. ASSUME w \in current PROVE SavesGrant(w, m, "idle", selected'[w])
    <2>1. mem[w].grant = NoHandler
      BY <1>2, <1>6, <1>7, GrantFits
    <2>2. Behind(n, mem[w].node)
      BY <1>2, <1>6, <1>7 DEF AnswerInv, CopiesAim, FitToSpend
    <2>3. Activation[n] # "any_failed"
      <3>1. ActivationSatisfied(n, mem[w].node)
        BY <1>2, <1>6, <1>7 DEF OrderInv, FitToGo, InOrder, Live
      <3>2. \A d \in DependsOn[n] : d \in Node /\ d < n
        BY PlanValid DEF StepwiseInOrder, PlanAssumption, Node
      <3>3. \A d \in DependsOn[n] : mem[w].node[d] \notin Broken
        BY <2>2, <3>2 DEF Behind, Achieved, Broken
      <3>. QED BY <3>1, <3>3 DEF ActivationSatisfied
    <2>4. Aim(mem[w].node, HandlerOf[n])
      BY <1>3, <1>6, <2>2, <2>3 DEF Aim, Wanted
    <2>5. Aim(mem[w].node, NoHandler)
      BY DEF Aim
    <2>. QED BY <1>3, <1>5, <2>1, <2>4, <2>5 DEF SavesGrant, FitToSpend
  <1>. QED BY <1>1, <1>2, <1>5, <1>7, CheckpointAnswer DEF Pcs

(* The other steps of the controller save the nodes and the grant as they  *)
(* are.                                                                    *)
LEMMA ControllerAnswer ==
    ASSUME StepwiseInOrder, TypeOK, AnswerInv, NEW w \in Worker,
           \/ ConsultControl(w) \/ Verify(w) \/ DecideFail(w) \/ DecideFinish(w)
           \/ ReturnToController(w)
    PROVE  AnswerInv'
  <1>1. mem[w] \in Run
    BY DEF TypeOK
  <1>2. w \in current => Aim(mem[w].node, mem[w].grant)
    BY DEF AnswerInv, CopiesAim, FitToSpend
  <1>3. \A v \in Worker \ {w} : selected'[v] = selected[v]
    BY DEF ConsultControl, Verify, DecideFail, DecideFinish, ReturnToController, working, TypeOK
  <1>4. ~ Verify(w)
    BY DEF Verify, AnswerInv, NoVerifier
  <1> DEFINE Ends(status) == [mem[w] EXCEPT !.status = status, !.asked = NoHandler]
  <1>5. ASSUME NEW status \in {"paused", "failed", "completed"}
        PROVE  /\ Ends(status) \in Run /\ Ends(status).node = mem[w].node
               /\ Ends(status).grant = mem[w].grant /\ Ends(status).status = status
    BY <1>1 DEF Run, RunStatus, Scope
  <1>6. \A status \in {"paused", "failed", "completed"}, next \in {"idle", "failing", "finish"} :
           (status = "paused" => next = "idle") /\ w \in current
              => SavesGrant(w, Ends(status), next, selected'[w])
    BY <1>2, <1>5 DEF SavesGrant, FitToSpend
  <1> HIDE DEF Ends
  <1>7. CASE \/ \E status \in {"paused", "failed", "completed"},
                   next \in {"idle", "failing", "finish"} :
                   (status = "paused" => next = "idle") /\ Checkpoint(w, Ends(status), next)
    BY <1>3, <1>5, <1>6, <1>7, CheckpointAnswer DEF Pcs
  <1>8. CASE \E next \in {"control", "decide", "finish"} : Locally(w, mem[w], next)
    BY <1>1, <1>2, <1>3, <1>8, LocallyAnswer DEF Pcs, FitToSpend
  <1>9. CASE ConsultControl(w)
    <2>1. \/ Checkpoint(w, Ends("paused"), "idle")
          \/ Locally(w, mem[w], "decide")
      BY <1>9 DEF ConsultControl, StepwiseInOrder, Ends
    <2>. QED BY <1>7, <1>8, <2>1
  <1>10. CASE DecideFail(w) \/ DecideFinish(w)
    <2>1. \/ Checkpoint(w, Ends("failed"), "failing")
          \/ Checkpoint(w, Ends("completed"), "finish")
      BY <1>10 DEF DecideFail, DecideFinish, Ends
    <2>. QED BY <1>7, <2>1
  <1>11. CASE ReturnToController(w)
    BY <1>8, <1>11 DEF ReturnToController
  <1>. QED BY <1>4, <1>9, <1>10, <1>11

LEMMA EnterAnswer ==
    ASSUME StepwiseInOrder, TypeOK, AnswerInv, NEW w \in Worker,
           PauseForReconciliation(w) \/ Prepare(w)
    PROVE  AnswerInv'
  <1>1. mem[w] \in Run /\ Recovering(w) \in Run
    BY RecoveringType DEF TypeOK
  <1>2. pc[w] = "enter" /\ \A v \in Worker \ {w} : selected'[v] = selected[v]
    BY DEF PauseForReconciliation, Prepare, working, TypeOK
  <1>3. \A n \in Node : \/ Recovering(w).node[n] = mem[w].node[n]
                        \/ mem[w].node[n] = "running" /\ Recovering(w).node[n] = "ready"
    BY RecoveringKeeps DEF Replayable, Interrupted, Inflight
  <1>4. Recovering(w).grant = mem[w].grant
    BY RecoveringKeeps
  <1>5. ASSUME w \in current
        PROVE  /\ Aim(Recovering(w).node, mem[w].grant)
               /\ \A n \in selected[w] : Behind(n, Recovering(w).node)
    <2>1. FitToSpend(mem[w], "enter", selected[w])
      BY <1>2, <1>5 DEF AnswerInv, CopiesAim
    <2>2. Aim(Recovering(w).node, mem[w].grant)
      BY <1>3, <2>1, AimKept DEF FitToSpend, Achieved, Wanted
    <2>3. \A n \in selected[w] : Behind(n, Recovering(w).node)
      BY <1>3, <2>1 DEF FitToSpend, Behind, Achieved
    <2>. QED BY <2>2, <2>3
  <1>6. CASE PauseForReconciliation(w)
    <2> DEFINE m == [Recovering(w) EXCEPT !.status = "paused", !.asked = NoHandler]
    <2>1. /\ m \in Run /\ m.node = Recovering(w).node /\ m.grant = mem[w].grant
          /\ m.status = "paused"
      BY <1>1, <1>4 DEF Run, RunStatus, Scope
    <2>2. Checkpoint(w, m, "idle")
      BY <1>6 DEF PauseForReconciliation
    <2>3. w \in current => SavesGrant(w, m, "idle", selected'[w])
      BY <1>5, <2>1 DEF SavesGrant, FitToSpend
    <2>. QED BY <1>2, <2>1, <2>2, <2>3, CheckpointAnswer DEF Pcs
  <1>7. CASE Prepare(w)
    <2> DEFINE marked == MarkReady(Recovering(w).node, selected[w])
    <2>1. PICK final \in Settlements(marked), status \in RunStatus :
             LET m == [Recovering(w) EXCEPT !.node = final, !.status = status] IN
             /\ m \in Run /\ (Checkpoint(w, m, "loop") \/ Locally(w, m, "loop"))
             /\ status # "running" => status = RefreshRunStatus(final, "running")
      BY <1>7, PrepareSaves
    <2> DEFINE m == [Recovering(w) EXCEPT !.node = final, !.status = status]
    <2>2. /\ m \in Run /\ m.node = final /\ m.grant = mem[w].grant /\ m.status = status
          /\ Checkpoint(w, m, "loop") \/ Locally(w, m, "loop")
      BY <1>1, <1>4, <2>1 DEF Run
    <2>3. status \notin {"paused", "waiting_approval"}
      BY <2>1 DEF RefreshRunStatus
    <2>4. marked \in [Node -> NodeStatus]
      BY <1>1, MarkReadyType DEF Run
    <2>5. \A n \in Node : marked[n] = Recovering(w).node[n]
                          \/ (Recovering(w).node[n] = "pending" /\ marked[n] = "ready")
      BY <1>1 DEF MarkReady, ReadyNodes, Run
    <2> HIDE DEF marked, m
    <2>6. ASSUME w \in current PROVE FitToSpend(m, "loop", selected[w])
      <3>1. Aim(marked, mem[w].grant) /\ \A n \in selected[w] : Behind(n, marked)
        <4>1. Aim(marked, mem[w].grant)
          BY <1>5, <2>5, <2>6, AimKept DEF Achieved, Wanted
        <4>2. \A n \in selected[w] : Behind(n, marked)
          BY <1>5, <2>5, <2>6 DEF Achieved, Behind
        <4>. QED BY <4>1, <4>2
      <3>2. \A n \in Node : marked[n] \in Achieved => final[n] \in Achieved
        BY <2>1, <2>4, SettlingKeeps DEF Achieved, Open
      <3>3. \A n \in Node : Wanted(n, marked) => final[n] = "ready"
        BY <2>1, <2>4, WantedStays
      <3>4. Aim(final, mem[w].grant)
        BY <3>1, <3>2, <3>3, AimKept
      <3>5. \A n \in selected[w] : Behind(n, final)
        BY <3>1, <3>2 DEF Behind
      <3>. QED BY <2>2, <3>4, <3>5 DEF FitToSpend
    <2>7. selected' = selected
      BY <1>7 DEF Prepare, working
    <2>8. w \in current => SavesGrant(w, m, "loop", selected'[w])
      BY <2>2, <2>3, <2>6, <2>7 DEF SavesGrant
    <2>. QED BY <1>2, <2>2, <2>6, <2>7, <2>8, CheckpointAnswer, LocallyAnswer DEF Pcs
  <1>. QED BY <1>6, <1>7

LEMMA BatchAnswer ==
    ASSUME StepwiseInOrder, CopyInv, AnswerInv, NEW w \in Worker,
           Collect(w) \/ \E lead \in {0} \cup Node : StartBatch(w, lead)
    PROVE  AnswerInv'
  <1>1. TypeOK /\ mem[w] \in Run
    BY DEF CopyInv, TypeOK
  <1>2. \A v \in Worker : selected'[v] = selected[v]
    BY DEF Collect, StartBatch
  <1>3. ASSUME NEW lead \in {0} \cup Node, StartBatch(w, lead)
        PROVE  AnswerInv'
    <2>1. PICK started \in Run :
             /\ started.status = "running"
             /\ started.node = [n \in Node |-> IF n \in Chosen(w, lead) THEN "running"
                                               ELSE mem[w].node[n]]
             /\ started.grant = IF lead = 0 THEN mem[w].grant ELSE NoHandler
             /\ Checkpoint(w, started, "dispatch")
      BY <1>1, <1>3, StartSavesAll
    <2>2. /\ pc[w] = "loop" /\ Startable(w) # {}
          /\ lead = 0 => Privileged(w) = {}
      <3>1. /\ pc[w] = "loop" /\ Startable(w) # {}
            /\ IF Privileged(w) = {} THEN lead = 0 ELSE First(lead, Granted(w))
        BY <1>3 DEF StartBatch
      <3>2. lead # 0 \/ 0 \notin Granted(w)
        BY DEF Granted, Privileged, Startable, Ready, Node
      <3>. QED BY <3>1, <3>2 DEF First
    <2>3. \A n \in Chosen(w, lead) : mem[w].node[n] = "ready"
      BY <1>3, ChosenStartable
    <2>4. ASSUME w \in current PROVE SavesGrant(w, started, "dispatch", selected'[w])
      <3>1. started.grant = NoHandler
        <4>1. CASE lead # 0
          BY <2>1, <4>1
        <4>2. CASE lead = 0
          <5>1. Granted(w) = {}
            BY <2>2, <4>2 DEF Granted
          <5>2. mem[w].grant = NoHandler
            BY <1>1, <2>2, <2>4, <5>1, GrantFits
          <5>. QED BY <2>1, <4>2, <5>2
        <4>. QED BY <4>1, <4>2
      <3>2. FitToSpend(mem[w], "loop", selected[w])
        BY <2>2, <2>4 DEF AnswerInv, CopiesAim
      <3>3. \A n \in Node : mem[w].node[n] \in Achieved => started.node[n] \in Achieved
        BY <2>1, <2>3 DEF Achieved
      <3>4. \A n \in selected'[w] : Behind(n, started.node)
        BY <1>2, <3>2, <3>3 DEF FitToSpend, Behind
      <3>. QED BY <2>1, <3>1, <3>4 DEF SavesGrant, FitToSpend, Aim
    <2>. QED BY <1>1, <1>2, <2>1, <2>4, CheckpointAnswer DEF Pcs
  <1>4. CASE Collect(w)
    <2>0. PICK applied \in [Node -> NodeStatus] : \E final \in Settlements(applied) :
          \E saved \in Run :
             /\ \A n \in Node \ (batch[w] \cup denied[w]) : applied[n] = mem[w].node[n]
             /\ saved.node = MarkReady(final, Node)
             /\ saved.status = RefreshRunStatus(final, "running")
             /\ saved.grant = mem[w].grant
             /\ Checkpoint(w, saved, "loop")
      BY <1>1, <1>4, CollectSavesAll
    <2>1. PICK final \in Settlements(applied), saved \in Run :
             /\ \A n \in Node \ (batch[w] \cup denied[w]) : applied[n] = mem[w].node[n]
             /\ saved.node = MarkReady(final, Node)
             /\ saved.status = RefreshRunStatus(final, "running")
             /\ saved.grant = mem[w].grant
             /\ Checkpoint(w, saved, "loop")
      BY <2>0
    <2>2. \A n \in Node : applied[n] = mem[w].node[n] \/ mem[w].node[n] = "running"
      BY <2>1 DEF CopyInv, BatchesInFlight, InFlight
    <2>3. \A n \in Node : applied[n] \in Achieved => saved.node[n] \in Achieved
      <3>1. \A n \in Node : applied[n] \in Achieved => final[n] = applied[n]
        BY SettlingKeeps DEF Achieved, Open
      <3>2. \A n \in Node : final[n] \in Achieved => MarkReady(final, Node)[n] = final[n]
        BY DEF MarkReady, ReadyNodes, Achieved
      <3>. QED BY <2>1, <3>1, <3>2
    <2>4. saved.status \notin {"paused", "waiting_approval"}
      BY <2>1 DEF RefreshRunStatus
    <2>5. ASSUME w \in current PROVE SavesGrant(w, saved, "loop", selected'[w])
      <3>1. FitToSpend(mem[w], "dispatch", selected[w])
        BY <1>4, <2>5 DEF Collect, AnswerInv, CopiesAim
      <3>2. \A n \in selected'[w] : Behind(n, saved.node)
        BY <1>2, <2>2, <2>3, <3>1 DEF FitToSpend, Behind, Achieved
      <3>. QED BY <2>1, <2>4, <3>1, <3>2 DEF SavesGrant, FitToSpend, Aim
    <2>. QED BY <1>1, <1>2, <2>1, <2>5, CheckpointAnswer DEF Pcs
  <1>. QED BY <1>3, <1>4

(* The end of the task leaves no copy, and its run neither waits nor is    *)
(* paused.                                                                 *)
LEMMA EndAnswer ==
    ASSUME OnceInv, SettledInv, AnswerInv, NEW w \in Worker,
           \/ Finish(w) \/ FailTask(w) \/ DeadlineExceeded(w) \/ RefuseResult(w) \/ Crash(w)
    PROVE  AnswerInv'
  <1>1. TypeOK /\ run \in Run /\ mem[w] \in Run
    BY DEF SettledInv, TypeOK
  <1>2. /\ Forget(w) /\ pc'[w] \in {"idle", "failing"}
        /\ \A v \in Worker \ {w} : pc'[v] = pc[v] /\ selected'[v] = selected[v]
    BY <1>1 DEF Finish, FailTask, DeadlineExceeded, RefuseResult, Crash, working, TypeOK
  <1>3. \A v \in Worker \ {w} : mem'[v] = mem[v]
    BY <1>1, <1>2, ForgetCopies
  <1>4. NoVerifier'
    BY <1>2 DEF AnswerInv, NoVerifier
  <1>5. ASSUME run' = run, control' = control, task'.status = task.status,
               current' \subseteq current, w \notin current'
        PROVE  AnswerInv'
    <2>1. \A v \in current' : v \in Worker \ {w}
      BY <1>1, <1>5 DEF TypeOK
    <2>. QED BY <1>2, <1>3, <1>4, <1>5, <2>1, QuietAnswer
  <1>6. ASSUME current' = {}, task'.status \in {"completed", "failed"}, run'.status # "paused"
        PROVE  AnswerInv'
    BY <1>4, <1>6 DEF AnswerInv, Rests, RowAims, CopiesAim, Carried, TaskOver
  <1>7. CASE Finish(w)
    <2>1. CASE w \in current
      <3>1. /\ run' = Finalized(mem[w], "completed") /\ current' = {}
            /\ task'.status = "completed"
        BY <1>1, <1>7, <2>1 DEF Finish, StoreRow, TypeOK
      <3>2. run'.status = "completed"
        BY <1>1, <3>1 DEF Finalized, Run
      <3>. QED BY <1>6, <3>1, <3>2
    <2>2. CASE w \notin current
      <3>1. run' = run /\ control' = control /\ task' = task /\ current' = current
        BY <1>7, <2>2 DEF Finish, durable
      <3>. QED BY <1>5, <2>2, <3>1
    <2>. QED BY <2>1, <2>2
  <1>8. CASE FailTask(w)
    <2>1. CASE task.status # "completed"
      <3>1. /\ run' = Finalized(run, "failed") /\ current' = {}
            /\ task'.status = "failed"
        BY <1>1, <1>8, <2>1 DEF FailTask, StoreRow, TypeOK
      <3>2. run'.status = "failed"
        BY <1>1, <3>1 DEF Finalized, Run
      <3>. QED BY <1>6, <3>1, <3>2
    <2>2. CASE task.status = "completed"
      <3>1. /\ run' = run /\ control' = control /\ task' = task /\ current' = current
            /\ pc[w] = "failing"
        BY <1>8, <2>2 DEF FailTask, durable
      <3>. QED BY <1>5, <3>1 DEF OnceInv, FailingStale
    <2>. QED BY <2>1, <2>2
  <1>9. CASE DeadlineExceeded(w) \/ RefuseResult(w)
    <2>1. run' = run /\ control' = control /\ task' = task /\ current' = current \ {w}
      BY <1>9 DEF DeadlineExceeded, RefuseResult, durable
    <2>. QED BY <1>5, <2>1
  <1>10. CASE Crash(w)
    <2>1. /\ run' = run /\ control' = control /\ task'.status = task.status
          /\ current' = current \ {w}
      BY <1>1, <1>10 DEF Crash, TypeOK
    <2>. QED BY <1>5, <2>1
  <1>. QED BY <1>7, <1>8, <1>9, <1>10

(* An approval finds no current copy: the task waits for the review.       *)
LEMMA ApproveAnswer ==
    ASSUME SettledInv, AnswerInv, Approve
    PROVE  AnswerInv'
  <1>1. /\ Unanswered /\ control' = [request |-> "none", grant |-> run.asked]
        /\ task'.status = "queued"
        /\ UNCHANGED <<run, current, pc, mem, selected>>
    BY DEF Approve, RequestControl, SettledInv, TypeOK, working
  <1>2. run.status = "waiting_approval" /\ control.grant = NoHandler
    BY <1>1 DEF Unanswered
  <1>3. ~TaskOver
    BY <1>2 DEF SettledInv, TerminalTaskSettled, TaskOver
  <1>4. task.status = "waiting_review"
    BY <1>2, <1>3 DEF AnswerInv, Rests, SettledInv, TypeOK, TaskStatus, TaskOver
  <1>5. current = {}
    BY <1>4 DEF AnswerInv, Rests
  <1>6. run.asked # NoHandler /\ Aim(run.node, run.asked)
    BY <1>2, <1>3 DEF AnswerInv, RowAims
  <1>7. Rests'
    BY <1>1, <1>2, <1>6 DEF Rests
  <1>8. RowAims'
    BY <1>1, <1>6 DEF RowAims, Aim, Wanted, Behind
  <1>9. CopiesAim' /\ Carried' /\ NoVerifier'
    BY <1>1, <1>5 DEF CopiesAim, Carried, NoVerifier, AnswerInv
  <1>. QED BY <1>7, <1>8, <1>9 DEF AnswerInv

LEMMA UserAnswer ==
    ASSUME SettledInv, AnswerInv, User
    PROVE  AnswerInv'
  <1>1. TypeOK /\ run \in Run
    BY DEF SettledInv, TypeOK
  <1>2. CASE Pause
    <2>1. /\ run.status \in {"created", "running"} /\ control'.grant = NoHandler
          /\ UNCHANGED <<run, task, current, pc, mem, selected>>
      BY <1>2 DEF Pause, RequestControl, working
    <2>2. Rests'
      BY <2>1 DEF AnswerInv, Rests, Unanswered
    <2>3. RowAims'
      BY <2>1 DEF RowAims, Aim
    <2>4. CopiesAim' /\ Carried' /\ NoVerifier'
      BY <2>1 DEF AnswerInv, CopiesAim, Carried, NoVerifier, FitToSpend, Aim, Wanted, Behind
    <2>. QED BY <2>2, <2>3, <2>4 DEF AnswerInv
  <1>3. CASE Reject
    <2>1. /\ run.grant = NoHandler /\ control.grant = NoHandler
          /\ run' = [run EXCEPT !.status = "paused", !.request = "none"]
          /\ control' = [request |-> run'.request, grant |-> run'.grant]
          /\ task'.status = "waiting_user" /\ current' = {} /\ pc' = pc
      BY <1>1, <1>3 DEF Reject, StoreRow, Unanswered, TypeOK
    <2>2. run'.status = "paused" /\ run'.grant = NoHandler /\ control'.grant = NoHandler
      BY <1>1, <2>1 DEF Run
    <2>. QED BY <2>1, <2>2 DEF AnswerInv, Rests, RowAims, CopiesAim, Carried, NoVerifier, Aim
  <1>4. CASE Resume
    <2>1. /\ run.status = "paused" /\ task'.status = "queued"
          /\ control'.grant = IF control.grant # NoHandler THEN control.grant ELSE run.grant
          /\ UNCHANGED <<run, current, pc, mem, selected>>
      BY <1>1, <1>4 DEF Resume, RequestControl, working, TypeOK
    <2>2. control'.grant = control.grant
      BY <2>1 DEF AnswerInv, Rests
    <2>3. ~TaskOver
      BY <2>1 DEF SettledInv, TerminalTaskSettled, TaskOver
    <2>4. Rests'
      BY <2>1, <2>2 DEF AnswerInv, Rests
    <2>5. RowAims'
      BY <2>1, <2>2, <2>3 DEF AnswerInv, RowAims, Aim, Wanted, Behind
    <2>6. CopiesAim' /\ Carried' /\ NoVerifier'
      BY <2>1, <2>2 DEF AnswerInv, CopiesAim, Carried, NoVerifier, FitToSpend, Aim, Wanted, Behind
    <2>. QED BY <2>4, <2>5, <2>6 DEF AnswerInv
  <1>5. ASSUME NEW n \in Node, NEW outcome \in {"succeeded", "failed"}, Reconcile(n, outcome)
        PROVE  AnswerInv'
    <2>1. /\ ~TaskOver /\ run.status = "paused" /\ run.node[n] = "running"
          /\ run' = [run EXCEPT !.node[n] = outcome, !.stuck = @ \ {n}, !.request = "none",
                                !.grant = IF @ # NoHandler THEN @ ELSE control.grant]
          /\ control' = [request |-> run'.request, grant |-> run'.grant]
          /\ task'.status = "queued" /\ current' = {} /\ pc' = pc
      BY <1>1, <1>5 DEF Reconcile, StoreRow, TypeOK
    <2>2. control.grant = run.grant
      BY <2>1 DEF AnswerInv, Rests
    <2>3. /\ run'.status = "paused" /\ run'.node = [run.node EXCEPT ![n] = outcome]
          /\ run'.grant = control.grant /\ control'.grant = control.grant
      BY <1>1, <2>1, <2>2 DEF Run
    <2>4. Aim(run'.node, control'.grant)
      <3>1. Aim(run.node, control.grant)
        BY <2>1 DEF AnswerInv, RowAims
      <3>2. \A k \in Node : run'.node[k] = run.node[k] \/ run.node[k] = "running"
        BY <1>1, <2>3, <2>1 DEF Run
      <3>3. \A k \in Node : /\ Wanted(k, run.node) => run'.node[k] = "ready"
                            /\ run.node[k] \in Achieved => run'.node[k] \in Achieved
        BY <3>2 DEF Wanted, Achieved
      <3>4. Aim(run'.node, control.grant)
        BY <3>1, <3>3, AimKept
      <3>. QED BY <2>3, <3>4
    <2>5. Rests' /\ RowAims'
      BY <2>1, <2>3, <2>4 DEF Rests, RowAims
    <2>6. CopiesAim' /\ Carried' /\ NoVerifier'
      BY <2>1 DEF AnswerInv, CopiesAim, Carried, NoVerifier
    <2>. QED BY <2>5, <2>6 DEF AnswerInv
  <1>. QED BY <1>2, <1>3, <1>4, <1>5, ApproveAnswer DEF User

LEMMA ClaimAnswer ==
    ASSUME TypeOK, AnswerInv, NEW w \in Worker, Claim(w)
    PROVE  AnswerInv'
  <1>1. run \in Run
    BY DEF TypeOK
  <1>2. /\ task.status = "queued" /\ task'.status = "running" /\ control' = control
        /\ run'.node = run.node /\ run'.grant = run.grant /\ run'.asked = run.asked
        /\ run'.status = IF run.status = "absent" THEN "created" ELSE run.status
        /\ mem'[w].node = run.node /\ mem'[w].grant = control.grant
        /\ pc'[w] = "control" /\ current' = current \cup {w} /\ selected' = selected
        /\ \A v \in Worker \ {w} : mem'[v] = mem[v] /\ pc'[v] = pc[v]
    BY <1>1 DEF Claim, MarkRunning, StartOrRestore, TypeOK, Run, working
  <1>3. ~TaskOver
    BY <1>2 DEF TaskOver
  <1>4. Rests'
    BY <1>2 DEF AnswerInv, Rests
  <1>5. RowAims'
    BY <1>2, <1>3 DEF AnswerInv, RowAims, Aim, Wanted, Behind
  <1>6. ASSUME NEW v \in current'
        PROVE  /\ FitToSpend(mem'[v], pc'[v], selected'[v])
               /\ control.grant # NoHandler => mem'[v].grant = control.grant
    <2>1. CASE v = w
      BY <1>2, <1>3, <2>1 DEF AnswerInv, RowAims, FitToSpend
    <2>2. CASE v # w
      <3>1. v \in Worker \ {w} /\ v \in current
        BY <1>2, <2>2 DEF TypeOK
      <3>. QED BY <1>2, <3>1 DEF AnswerInv, CopiesAim, Carried
    <2>. QED BY <2>1, <2>2
  <1>7. CopiesAim' /\ Carried'
    BY <1>2, <1>6 DEF CopiesAim, Carried, FitToSpend, Aim, Wanted, Behind
  <1>8. NoVerifier'
    BY <1>2 DEF AnswerInv, NoVerifier
  <1>. QED BY <1>4, <1>5, <1>7, <1>8 DEF AnswerInv

LEMMA StepAnswer ==
    ASSUME StepwiseInOrder, OnceInv, CopyInv, SettledInv, OrderInv, AnswerInv, [Next]_vars
    PROVE  AnswerInv'
  <1>1. TypeOK
    BY DEF CopyInv
  <1>2. CASE UNCHANGED vars
    <2>1. UNCHANGED <<run, control, task, current, mem, pc, selected>>
      BY <1>2 DEF vars, durable, working
    <2>2. NoVerifier'
      BY <2>1 DEF AnswerInv, NoVerifier
    <2>. QED BY <2>1, <2>2, QuietAnswer
  <1>3. CASE \/ LeaseLapses \/ HeartbeatFails
             \/ \E w \in Worker : RecoverTask(w) \/ \E n \in Node : Invoke(w, n)
    <2>1. /\ UNCHANGED <<run, control, current, mem, pc, selected>>
          /\ \/ task'.status = task.status
             \/ {task.status, task'.status} \subseteq {"queued", "running"}
      BY <1>1, <1>3 DEF LeaseLapses, HeartbeatFails, RecoverTask, Recoverable, Invoke, working,
         durable, TypeOK
    <2>2. NoVerifier'
      BY <2>1 DEF AnswerInv, NoVerifier
    <2>. QED BY <2>1, <2>2, QuietAnswer
  <1>4. CASE Next
    BY <1>1, <1>2, <1>3, <1>4, NextCases, ClaimAnswer, ControllerAnswer, DecideAnswer,
       RequestAnswer, EnterAnswer, BatchAnswer, EndAnswer, UserAnswer
  <1>. QED BY <1>2, <1>4

(* A waiting task of a stepwise runtime accepts the control it waits for,  *)
(* in every behaviour, if the plan lists a node after the nodes it depends *)
(* on (_project_waiting_status, _gate_approval, _merge_control_data,       *)
(* request_control).                                                       *)
THEOREM WaitingAnswered == StepwiseInOrder => (Spec => []WaitingIsAnswerable)
  <1> SUFFICES ASSUME StepwiseInOrder PROVE Spec => []WaitingIsAnswerable
    OBVIOUS
  <1> DEFINE Inv == OnceInv /\ CopyInv /\ SettledInv /\ OrderInv /\ AnswerInv
  <1>1. Init => Inv
    <2>1. Init => OrderInv
      BY DEF Init, NewRun, OrderInv, InOrder, Live
    <2>2. Init => Over /\ TerminalTaskSettled /\ AboutToFinish
      BY DEF Init, Over, TerminalTaskSettled, AboutToFinish, TaskOver
    <2>3. Init => AnswerInv
      BY DEF Init, NewRun, AnswerInv, Rests, RowAims, CopiesAim, Carried, NoVerifier, Aim
    <2>. QED BY <2>1, <2>2, <2>3, InitOnce, InitCopies, InitType DEF SettledInv
  <1>2. Inv /\ [Next]_vars => Inv'
    BY StepOnce, StepCopies, StepSettled, StepOrder, StepAnswer
  <1>3. Inv => WaitingIsAnswerable
    BY DEF AnswerInv, Rests, WaitingIsAnswerable
  <1>. QED BY <1>1, <1>2, <1>3, PTL DEF Spec
=============================================================================
