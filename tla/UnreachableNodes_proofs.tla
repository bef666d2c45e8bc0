------------------------ MODULE UnreachableNodes_proofs ------------------------
(***************************************************************************)
(* Theorems about UnreachableNodes, for plans of any size and any statuses *)
(* the loop may start from: what the loop computes, and that it comes to   *)
(* an end.                                                                 *)
(***************************************************************************)
EXTENDS UnreachableNodes, FiniteSetTheorems, TLAPS

Openable == {"pending", "ready"}
Bad == {"failed", "blocked"}

(***************************************************************************)
(* Why the loop ends with the one settlement.  What it has settled is      *)
(* justified by the statuses as they stand (Justified): they only ever     *)
(* leave pending and ready, so a justification stays good.  A pass that    *)
(* has changed nothing has left nothing to settle behind it (Passed).      *)
(***************************************************************************)
Justified(n) ==
    \/ st[n] = before[n]
    \/ before[n] \in Openable /\ st[n] = "blocked" /\ MustBlock(n)
    \/ before[n] \in Openable /\ st[n] = "skipped" /\ MustSkip(n)

Passed(n) == st[n] \in Openable => ~MustBlock(n) /\ ~MustSkip(n)

LoopType ==
    /\ Plan!PlanAssumption
    /\ before \in [Nodes -> Statuses]
    /\ st \in [Nodes -> Statuses \cup {"blocked", "skipped"}]
    /\ at \in 1 .. (Count + 1)
    /\ changed \in {"no", "yes", "done"}

LoopInv ==
    /\ LoopType
    /\ \A n \in Nodes : Justified(n)
    /\ changed # "yes" => \A n \in Nodes : n < at => Passed(n)
    /\ changed = "done" => at = Count + 1
    /\ runStatus = IF st = before THEN "running"
                   ELSE Plan!RefreshRunStatus(st, "running")

-----------------------------------------------------------------------------
LEMMA PlanFacts ==
    ASSUME Plan!PlanAssumption
    PROVE  /\ Count \in Nat \ {0}
           /\ deps \in [Nodes -> SUBSET Nodes]
           /\ act \in [Nodes -> {"all_succeeded", "any_failed", "always"}]
           /\ \E rank \in [Nodes -> Nodes] :
                 \A n \in Nodes : \A d \in deps[n] : rank[d] < rank[n]
  BY DEF Plan!PlanAssumption, Plan!Node, Nodes

(* A plan that does not change keeps its assumption.                       *)
LEMMA PlanKept ==
    ASSUME Plan!PlanAssumption, UNCHANGED <<deps, act>>
    PROVE  Plan!PlanAssumption'
  BY DEF Plan!PlanAssumption, Plan!Node

(* The verdict of RuntimePlan, in the terms of the loop.                   *)
LEMMA VerdictIs ==
    ASSUME NEW n \in Nodes
    PROVE  Plan!Verdict(n, before, st) =
               IF before[n] \notin Openable THEN before[n]
               ELSE IF MustBlock(n) THEN "blocked"
               ELSE IF MustSkip(n) THEN "skipped"
               ELSE before[n]
  BY DEF Plan!Verdict, Plan!Open, Plan!Broken, Plan!Terminal, Openable, MustBlock, MustSkip

(* While a node is open the refresh of a running run leaves it running.    *)
LEMMA OpenRuns ==
    ASSUME NEW f, NEW n \in Nodes, f[n] \in Openable
    PROVE  Plan!RefreshRunStatus(f, "running") = "running"
  BY DEF Plan!RefreshRunStatus, Plan!Node, Plan!Terminal, Nodes, Openable

(* A set of natural numbers has a least element: the sets 0 .. x are       *)
(* finite, and strict inclusion is well-founded on finite sets.            *)
LEMMA LeastNatural ==
    ASSUME NEW S \in SUBSET Nat, S # {}
    PROVE  \E x \in S : \A y \in S : x <= y
  <1> DEFINE T == {0 .. x : x \in S}
  <1>1. T \subseteq FiniteSubsetsOf(Nat) /\ T # {}
    <2>1. ASSUME NEW x \in S PROVE 0 .. x \in FiniteSubsetsOf(Nat)
      <3>1. IsFiniteSet(0 .. x) /\ 0 .. x \subseteq Nat
        BY FS_Interval
      <3>. QED BY <3>1 DEF FiniteSubsetsOf
    <2>. QED BY <2>1
  <1>2. IsWellFoundedOn(StrictSubsetOrdering(Nat), FiniteSubsetsOf(Nat))
    BY FS_StrictSubsetOrderingWellFounded
  <1> HIDE DEF T
  <1>3. PICK I \in T : \A J \in T : ~ (<<J, I>> \in StrictSubsetOrdering(Nat))
    BY <1>1, <1>2, WFMin
  <1>4. PICK x \in S : I = 0 .. x
    BY DEF T
  <1>5. ASSUME NEW y \in S, y < x PROVE FALSE
    <2>1. 0 .. y \in T
      BY DEF T
    <2>2. 0 .. y \subseteq 0 .. x /\ x \in 0 .. x /\ x \notin 0 .. y /\ 0 .. x \subseteq Nat
      BY <1>5
    <2>3. <<0 .. y, I>> \in StrictSubsetOrdering(Nat)
      BY <1>4, <2>2 DEF StrictSubsetOrdering
    <2>. QED BY <1>3, <2>1, <2>3
  <1>. QED BY <1>5

(* Two settlements of the same statuses agree: of the nodes where they     *)
(* differ one has the least rank, and both got its verdict from the same   *)
(* statuses of its dependencies.                                           *)
LEMMA OneSettlement ==
    ASSUME Plan!PlanAssumption, NEW f \in Plan!Settlements(before),
           NEW g \in Plan!Settlements(before)
    PROVE  f = g
  <1>1. PICK rank \in [Nodes -> Nodes] :
           \A n \in Nodes : \A d \in deps[n] : rank[d] < rank[n]
    BY PlanFacts
  <1>2. \A n \in Nodes : deps[n] \subseteq Nodes
    BY PlanFacts
  <1>3. /\ DOMAIN f = Nodes /\ f = [n \in Nodes |-> f[n]]
        /\ DOMAIN g = Nodes /\ g = [n \in Nodes |-> g[n]]
        /\ \A n \in Nodes : f[n] = Plan!Verdict(n, before, f)
        /\ \A n \in Nodes : g[n] = Plan!Verdict(n, before, g)
    BY DEF Plan!Settlements, Plan!Closing, Plan!Node, Nodes
  <1>4. SUFFICES ASSUME NEW m \in Nodes, f[m] # g[m] PROVE FALSE
    BY <1>3
  <1> DEFINE R == {rank[n] : n \in {k \in Nodes : f[k] # g[k]}}
  <1>5. R \in SUBSET Nat /\ R # {}
    <2>1. Nodes \subseteq Nat
      BY DEF Nodes
    <2>. QED BY <1>4, <2>1
  <1>6. PICK r \in R : \A s \in R : r <= s
    <2> HIDE DEF R
    <2>. QED BY <1>5, LeastNatural
  <1>7. PICK n \in Nodes : r = rank[n] /\ f[n] # g[n]
    BY <1>6
  <1>8. \A d \in deps[n] : f[d] = g[d]
    <2> SUFFICES ASSUME NEW d \in deps[n], f[d] # g[d] PROVE FALSE
      OBVIOUS
    <2>1. d \in Nodes /\ rank[d] < rank[n]
      BY <1>1, <1>2
    <2>2. rank[d] \in R
      BY <2>1
    <2>3. rank[n] <= rank[d]
      BY <1>6, <1>7, <2>2
    <2>. QED BY <2>1, <2>3 DEF Nodes
  <1>9. Plan!Verdict(n, before, f) = Plan!Verdict(n, before, g)
    BY <1>8 DEF Plan!Verdict
  <1>. QED BY <1>3, <1>7, <1>9

-----------------------------------------------------------------------------
(* Settling an open node.                                                  *)
LEMMA SettleKeeps ==
    ASSUME LoopInv, UNCHANGED <<deps, act, before>>, at \in Nodes, st[at] \in Openable,
           NEW verdict, Settle(at, verdict), at' = at + 1, changed # "done",
           \/ verdict = "blocked" /\ MustBlock(at)
           \/ verdict = "skipped" /\ MustSkip(at)
    PROVE  LoopInv'
  <1>1. /\ Count \in Nat /\ \A n \in Nodes : deps[n] \subseteq Nodes
        /\ before \in [Nodes -> Statuses]
        /\ st \in [Nodes -> Statuses \cup {"blocked", "skipped"}]
    BY PlanFacts DEF LoopInv, LoopType
  <1>2. /\ st' = [st EXCEPT ![at] = verdict] /\ changed' = "yes"
        /\ runStatus' = Plan!RefreshRunStatus(st', runStatus)
    BY DEF Settle
  <1>3. before[at] = st[at]
    BY DEF LoopInv, Justified, Openable
  <1>4. LoopType'
    <2>1. Plan!PlanAssumption'
      BY PlanKept DEF LoopInv, LoopType
    <2>2. at' \in 1 .. (Count + 1)
      BY <1>1 DEF Nodes
    <2>3. st' \in [Nodes -> Statuses \cup {"blocked", "skipped"}]
      BY <1>1, <1>2
    <2>. QED BY <1>1, <1>2, <2>1, <2>2, <2>3 DEF LoopType, Nodes
  <1>5. \A n \in Nodes : (MustBlock(n) => MustBlock(n)') /\ (MustSkip(n) => MustSkip(n)')
    <2> TAKE n \in Nodes
    <2>1. \A d \in deps[n] : st[d] \notin Openable => st'[d] = st[d]
      BY <1>1, <1>2
    <2>2. MustBlock(n) => MustBlock(n)'
      BY <2>1 DEF MustBlock, Openable
    <2>3. MustSkip(n) => MustSkip(n)'
      BY <2>1 DEF MustSkip, Openable, Plan!Terminal
    <2>. QED BY <2>2, <2>3
  <1>6. \A n \in Nodes : Justified(n)'
    <2> TAKE n \in Nodes
    <2>1. CASE n = at
      BY <1>1, <1>2, <1>3, <1>5, <2>1 DEF Justified, Openable
    <2>2. CASE n # at
      <3>1. st'[n] = st[n]
        BY <1>1, <1>2, <2>2
      <3>. QED BY <1>5, <3>1 DEF LoopInv, Justified
    <2>. QED BY <2>1, <2>2
  <1>7. runStatus = "running"
    BY OpenRuns DEF LoopInv
  <1>8. st' # before
    <2>1. st'[at] = verdict
      BY <1>1, <1>2
    <2>. QED BY <1>3, <2>1 DEF Openable
  <1>9. Nodes' = Nodes
    BY DEF Nodes
  <1>. QED BY <1>2, <1>4, <1>6, <1>7, <1>8, <1>9 DEF LoopInv

(* A visit that settles nothing leaves the node passed.                    *)
LEMMA VisitKeeps ==
    ASSUME LoopInv, Visit
    PROVE  LoopInv'
  <1>1. Count \in Nat
    BY PlanFacts DEF LoopInv, LoopType
  <1>2. CASE st[at] \in Openable /\ MustBlock(at)
    BY <1>2, SettleKeeps DEF Visit, Openable
  <1>3. CASE st[at] \in Openable /\ ~MustBlock(at) /\ MustSkip(at)
    BY <1>3, SettleKeeps DEF Visit, Openable
  <1>4. CASE Passed(at) /\ UNCHANGED <<st, runStatus, changed>>
    <2>1. UNCHANGED <<deps, act, before, st, runStatus, changed>> /\ at' = at + 1 /\ at \in Nodes
      BY <1>4 DEF Visit
    <2>2. Plan!PlanAssumption' /\ Nodes' = Nodes
      BY <2>1, PlanKept DEF LoopInv, LoopType, Nodes
    <2>3. LoopType'
      BY <1>1, <2>1, <2>2 DEF LoopInv, LoopType, Nodes
    <2>4. \A n \in Nodes : Justified(n)' <=> Justified(n)
      BY <2>1 DEF Justified, MustBlock, MustSkip, Plan!Terminal
    <2>5. \A n \in Nodes : Passed(n)' <=> Passed(n)
      BY <2>1 DEF Passed, MustBlock, MustSkip, Plan!Terminal
    <2>6. \A n \in Nodes : n < at + 1 => n < at \/ n = at
      BY <2>1 DEF Nodes
    <2>7. changed' # "done"
      BY <2>1 DEF Visit
    <2>8. runStatus' = IF st' = before' THEN "running"
                       ELSE Plan!RefreshRunStatus(st, "running")'
      BY <2>1, <2>2 DEF LoopInv, Plan!RefreshRunStatus, Plan!Node, Nodes, Plan!Recovered
    <2>. QED BY <1>4, <2>1, <2>2, <2>3, <2>4, <2>5, <2>6, <2>7, <2>8 DEF LoopInv
  <1>. QED BY <1>2, <1>3, <1>4 DEF Visit, Passed, Openable

LEMMA StepKeeps ==
    ASSUME LoopInv, [Next]_vars
    PROVE  LoopInv'
  <1>1. CASE Visit
    BY <1>1, VisitKeeps
  <1>2. ASSUME UNCHANGED <<deps, act, before, st, runStatus>>,
               \/ at' = 1 /\ changed' = "no"
               \/ at' = at /\ changed' = changed
               \/ at' = at /\ changed' = "done" /\ at = Count + 1 /\ changed = "no"
        PROVE  LoopInv'
    <2>1. Count \in Nat /\ Plan!PlanAssumption' /\ Nodes' = Nodes
      BY <1>2, PlanFacts, PlanKept DEF LoopInv, LoopType, Nodes
    <2>2. LoopType'
      BY <1>2, <2>1 DEF LoopInv, LoopType, Nodes
    <2>3. \A n \in Nodes : (Justified(n)' <=> Justified(n)) /\ (Passed(n)' <=> Passed(n))
      BY <1>2 DEF Justified, Passed, MustBlock, MustSkip, Plan!Terminal
    <2>4. runStatus' = IF st' = before' THEN "running"
                       ELSE Plan!RefreshRunStatus(st, "running")'
      BY <1>2, <2>1 DEF LoopInv, Plan!RefreshRunStatus, Plan!Node, Nodes, Plan!Recovered
    <2>5. \A n \in Nodes : ~(n < 1)
      BY DEF Nodes
    <2>6. changed' # "yes" => \A n \in Nodes : n < at' => Passed(n)
      BY <1>2, <2>5 DEF LoopInv
    <2>7. changed' = "done" => at' = Count + 1
      BY <1>2 DEF LoopInv
    <2>. QED BY <2>1, <2>2, <2>3, <2>4, <2>6, <2>7, <1>2 DEF LoopInv
  <1>3. CASE NextPass
    BY <1>2, <1>3 DEF NextPass
  <1>4. CASE Return
    BY <1>2, <1>4 DEF Return
  <1>5. CASE UNCHANGED vars
    BY <1>2, <1>5 DEF vars
  <1>. QED BY <1>1, <1>3, <1>4, <1>5 DEF Next

LEMMA InitLoop ==
    ASSUME Init
    PROVE  LoopInv
  <1>1. Count \in Nat
    BY PlanFacts DEF Init
  <1>2. LoopType
    BY <1>1 DEF Init, LoopType
  <1>. QED BY <1>1, <1>2 DEF Init, LoopInv, Justified, Nodes

LEMMA LoopInvHolds == Spec => []LoopInv
  BY InitLoop, StepKeeps, PTL DEF Spec

(* The loop of block_unreachable_nodes computes what RuntimePlan says of   *)
(* it, for every plan validate_graph accepts and whatever order its passes *)
(* meet the nodes in: the one assignment that gives every node the verdict *)
(* of its dependencies, and the run status refreshed for it.               *)
THEOREM LoopComputesSettlement == Spec => []LoopSettles
  <1>1. LoopInv => LoopSettles
    <2> SUFFICES ASSUME LoopInv, changed = "done"
                 PROVE  /\ Plan!Settlements(before) = {st}
                        /\ runStatus = IF st = before THEN "running"
                                       ELSE Plan!RefreshRunStatus(st, "running")
      BY DEF LoopSettles
    <2>1. \A n \in Nodes : Justified(n) /\ Passed(n)
      <3>1. \A n \in Nodes : n < at
        BY PlanFacts DEF LoopInv, LoopType, Nodes
      <3>. QED BY <3>1 DEF LoopInv
    <2>2. \A n \in Nodes : st[n] = Plan!Verdict(n, before, st)
      <3> TAKE n \in Nodes
      <3>1. MustBlock(n) => ~MustSkip(n)
        BY DEF MustBlock, MustSkip
      <3>. QED BY <2>1, <3>1, VerdictIs DEF Justified, Passed, Openable
    <2>3. \E S \in SUBSET Plan!OpenNodes(before) : st = Plan!Closing(before, S)
      <3> DEFINE S == {n \in Nodes : st[n] # before[n]}
      <3>1. \A n \in S : /\ before[n] \in Plan!Open
                        /\ st[n] = IF act[n] = "any_failed" THEN "skipped" ELSE "blocked"
        BY <2>2 DEF Plan!Verdict
      <3>2. S \in SUBSET Plan!OpenNodes(before)
        BY <3>1 DEF Plan!OpenNodes, Plan!Node, Nodes
      <3>3. st = [n \in Nodes |-> st[n]]
        BY DEF LoopInv, LoopType
      <3>4. st = Plan!Closing(before, S)
        BY <3>1, <3>3 DEF Plan!Closing, Plan!Node, Nodes
      <3> HIDE DEF S
      <3>. QED BY <3>2, <3>4
    <2>4. st \in Plan!Settlements(before)
      BY <2>2, <2>3 DEF Plan!Settlements, Plan!Node, Nodes
    <2>5. Plan!Settlements(before) = {st}
      BY <2>4, OneSettlement DEF LoopInv, LoopType
    <2>. QED BY <2>5 DEF LoopInv
  <1>. QED BY <1>1, LoopInvHolds, PTL

-----------------------------------------------------------------------------
(***************************************************************************)
(* Why the loop ends.  Every visit leads on in the pass, and a further     *)
(* pass is paid for by a node that was settled in the last one.            *)
(***************************************************************************)
OpenNodes == {n \in Nodes : st[n] \in Openable}

StepsLeft ==
    Cardinality(OpenNodes) * (Count + 2)
        + (IF changed = "yes" THEN Count + 2 ELSE 0)
        + (Count + 1 - at)
        + (IF changed = "done" THEN 0 ELSE 1)

LEMMA OpenCount ==
    ASSUME LoopInv
    PROVE  /\ IsFiniteSet(OpenNodes) /\ Cardinality(OpenNodes) \in Nat
           /\ Count \in Nat /\ at \in 1 .. (Count + 1)
  <1>1. Count \in Nat /\ at \in 1 .. (Count + 1)
    BY PlanFacts DEF LoopInv, LoopType
  <1>2. IsFiniteSet(Nodes)
    BY <1>1, FS_Interval DEF Nodes
  <1>3. IsFiniteSet(OpenNodes)
    BY <1>2, FS_Subset DEF OpenNodes
  <1>. QED BY <1>1, <1>3, FS_CardinalityType

LEMMA StepsNatural ==
    ASSUME LoopInv
    PROVE  StepsLeft \in Nat
  <1>1. \A c, k \in Nat : c * k \in Nat
    OBVIOUS
  <1>2. Cardinality(OpenNodes) * (Count + 2) \in Nat
    BY <1>1, OpenCount
  <1>3. Count + 1 - at \in Nat
    BY OpenCount
  <1> DEFINE P == Cardinality(OpenNodes) * (Count + 2)
  <1> HIDE DEF P
  <1>4. P \in Nat
    BY <1>2 DEF P
  <1>5. StepsLeft = P + (IF changed = "yes" THEN Count + 2 ELSE 0)
                      + (Count + 1 - at) + (IF changed = "done" THEN 0 ELSE 1)
    BY DEF StepsLeft, P
  <1>. QED BY <1>3, <1>4, <1>5, OpenCount

(* Settling takes a node from the open ones.                               *)
LEMMA SettlingPays ==
    ASSUME LoopInv, at \in Nodes, st[at] \in Openable, NEW verdict \in {"blocked", "skipped"},
           Settle(at, verdict), at' = at + 1, changed # "done"
    PROVE  StepsLeft' < StepsLeft
  <1>1. st' = [st EXCEPT ![at] = verdict] /\ changed' = "yes" /\ at' = at + 1
    BY DEF Settle
  <1>2. OpenNodes' = OpenNodes \ {at} /\ at \in OpenNodes
    BY <1>1 DEF OpenNodes, Openable, LoopInv, LoopType, Nodes
  <1>3. Cardinality(OpenNodes') = Cardinality(OpenNodes) - 1
    BY <1>2, OpenCount, FS_RemoveElement
  <1> DEFINE P == Cardinality(OpenNodes) * (Count + 2)
  <1>4. P \in Nat /\ Cardinality(OpenNodes') * (Count + 2) = P - (Count + 2)
    <2>1. \A c, k \in Nat : c * k \in Nat /\ (c - 1) * k = c * k - k
      OBVIOUS
    <2>. QED BY <1>3, <2>1, OpenCount
  <1> HIDE DEF P
  <1>5. StepsLeft = P + (IF changed = "yes" THEN Count + 2 ELSE 0) + (Count + 1 - at) + 1
    BY DEF StepsLeft, P
  <1>6. StepsLeft' = P - (Count + 2) + (Count + 2) + (Count + 1 - at') + 1
    BY <1>1, <1>4 DEF StepsLeft
  <1>. QED BY <1>1, <1>4, <1>5, <1>6, OpenCount

LEMMA StepPays ==
    ASSUME LoopInv, Next
    PROVE  StepsLeft' < StepsLeft
  <1>1. CASE /\ at \in Nodes /\ changed # "done" /\ st[at] \in Openable /\ at' = at + 1
             /\ \E verdict \in {"blocked", "skipped"} : Settle(at, verdict)
    BY <1>1, SettlingPays
  <1>2. ASSUME UNCHANGED st
        PROVE  OpenNodes' = OpenNodes
    BY <1>2 DEF OpenNodes, Nodes
  <1> DEFINE P == Cardinality(OpenNodes) * (Count + 2)
  <1>3. P \in Nat
    <2>1. \A c, k \in Nat : c * k \in Nat
      OBVIOUS
    <2>. QED BY <2>1, OpenCount
  <1> HIDE DEF P
  <1>4. StepsLeft = P + (IF changed = "yes" THEN Count + 2 ELSE 0)
                      + (Count + 1 - at) + (IF changed = "done" THEN 0 ELSE 1)
    BY DEF StepsLeft, P
  <1>5. ASSUME UNCHANGED st
        PROVE  StepsLeft' = P + (IF changed' = "yes" THEN Count + 2 ELSE 0)
                      + (Count + 1 - at') + (IF changed' = "done" THEN 0 ELSE 1)
    BY <1>2, <1>5 DEF StepsLeft, P
  <1>6. CASE at \in Nodes /\ at' = at + 1 /\ changed # "done" /\ UNCHANGED <<st, changed>>
    BY <1>3, <1>4, <1>5, <1>6, OpenCount
  <1>7. CASE NextPass
    BY <1>3, <1>4, <1>5, <1>7, OpenCount DEF NextPass
  <1>8. CASE Return
    BY <1>3, <1>4, <1>5, <1>8, OpenCount DEF Return
  <1>. QED BY <1>1, <1>6, <1>7, <1>8 DEF Next, Visit, Openable

(* The repeated passes of block_unreachable_nodes cannot go round for      *)
(* ever: every step takes from a number that starts no higher than         *)
(* (Count + 1) * (Count + 2), whatever the plan.                           *)
THEOREM LoopDescends ==
    Spec => /\ StepsLeft <= (Count + 1) * (Count + 2)
            /\ [](StepsLeft \in Nat)
            /\ [][StepsLeft' < StepsLeft]_vars
  <1>1. LoopInv => StepsLeft \in Nat
    BY StepsNatural
  <1>2. LoopInv /\ [Next]_vars => [StepsLeft' < StepsLeft]_vars
    BY StepPays
  <1>3. Init => StepsLeft <= (Count + 1) * (Count + 2)
    <2> SUFFICES ASSUME Init PROVE StepsLeft <= (Count + 1) * (Count + 2)
      OBVIOUS
    <2>1. LoopInv
      BY InitLoop
    <2>2. Cardinality(OpenNodes) <= Count
      <3>1. Count \in Nat
        BY <2>1, OpenCount
      <3>2. /\ IsFiniteSet(1 .. Count)
            /\ Cardinality(1 .. Count) = IF 1 > Count THEN 0 ELSE Count - 1 + 1
        BY <3>1, FS_Interval
      <3>3. OpenNodes \subseteq 1 .. Count
        BY DEF OpenNodes, Nodes
      <3>4. Cardinality(OpenNodes) <= Cardinality(1 .. Count)
        BY <3>2, <3>3, FS_Subset
      <3>. QED BY <3>1, <3>2, <3>4
    <2>3. Cardinality(OpenNodes) * (Count + 2) <= Count * (Count + 2)
      <3>1. \A b, c, k \in Nat : b <= c => b * k <= c * k
        OBVIOUS
      <3>. QED BY <2>1, <2>2, <3>1, OpenCount
    <2>4. (Count + 1) * (Count + 2) = Count * (Count + 2) + Count + 2
      BY <2>1, OpenCount
    <2>. QED BY <2>1, <2>3, <2>4, StepsNatural, OpenCount DEF Init, StepsLeft
  <1>. QED BY <1>1, <1>2, <1>3, LoopInvHolds, PTL DEF Spec
=============================================================================
