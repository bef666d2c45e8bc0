--------------------------- MODULE TaskQueue_proofs ---------------------------
(***************************************************************************)
(* Theorems about TaskQueue, for any number of workers, tasks and faults.  *)
(***************************************************************************)
EXTENDS TaskQueue, TLAPS

LEMMA MinType ==
    ASSUME NEW m \in Nat, NEW n \in Nat
    PROVE  Min({m, n}) \in 0 .. n
  <1>1. \E x \in {m, n} : \A y \in {m, n} : x <= y
    BY m <= n \/ n <= m
  <1>. QED  BY <1>1 DEF Min

(* The smaller of two numbers, as CHOOSE finds it. *)
LEMMA MinIs ==
    ASSUME NEW m \in Nat, NEW n \in Nat, m <= n
    PROVE  Min({m + 1, n}) = IF m = n THEN n ELSE m + 1
  <1>1. CASE m = n
    <2>1. \A x \in {m + 1, n} : (\A y \in {m + 1, n} : x <= y) <=> x = n
      BY <1>1
    <2>. QED BY <1>1, <2>1 DEF Min
  <1>2. CASE m # n
    <2>1. \A x \in {m + 1, n} : (\A y \in {m + 1, n} : x <= y) <=> x = m + 1
      BY <1>2
    <2>. QED BY <1>2, <2>1 DEF Min
  <1>. QED BY <1>1, <1>2

(* A worker at a place where a message is handled has one in its hand. *)
LEMMA Holding ==
    ASSUME TypeOK, NEW w \in Worker,
           pc[w] \in {"popped", "rejecting", "requeueing", "burying", "forgetting"}
    PROVE  hand[w] \in Task
  BY DEF TypeOK, Consuming

LEMMA InitType == Init => TypeOK
  BY QueueAssumption DEF Init, TypeOK, Where, Consuming

LEMMA TakeType ==
    ASSUME TypeOK, NEW w \in Worker, NEW S, Take(w, S)
    PROVE  taken' \in [Worker -> SUBSET Task]
  BY DEF TypeOK, Take, Free

(* A worker that moves keeps a message in its hand wherever one is handled. *)
LEMMA GotoType ==
    ASSUME TypeOK, NEW w \in Worker, NEW place \in Where, Goto(w, place),
           hand' \in [Worker -> Task \cup {NoTask}],
           \A v \in Worker : v # w => hand'[v] = hand[v],
           place \in Consuming \ {"receiving", "checking"} => hand'[w] \in Task
    PROVE  /\ pc' \in [Worker -> Where]
           /\ \A v \in Worker :
                 pc'[v] \in Consuming \ {"receiving", "checking"} => hand'[v] \in Task
  <1>1. pc' \in [Worker -> Where]
    BY DEF Goto, TypeOK
  <1>2. \A v \in Worker : pc'[v] = IF v = w THEN place ELSE pc[v]
    BY DEF Goto, TypeOK
  <1>3. \A v \in Worker : v # w /\ pc[v] \in Consuming \ {"receiving", "checking"}
                              => hand[v] \in Task
    BY DEF TypeOK
  <1>. QED  BY <1>1, <1>2, <1>3

LEMMA NextType == TypeOK /\ [Next]_vars => TypeOK'
  <1>. SUFFICES ASSUME TypeOK, [Next]_vars
                PROVE  TypeOK'
    OBVIOUS
  <1>. USE DEF redis, lease, bounds, Goto
  <1>0. Consuming \subseteq Where /\ {"down", "booted", "starting", "exiting"} \subseteq Where
    BY DEF Where
  <1>1. ASSUME NEW t \in Task, Publish(t)
        PROVE  TypeOK'
    <2>0. pending \in Seq(Task) /\ (pending' = Append(pending, t) \/ pending' = pending)
      BY <1>1 DEF Publish, TypeOK
    <2>1. pending' \in Seq(Task) /\ open' \in SUBSET Task
      <3>1. pending' \in Seq(Task)
        BY <2>0
      <3>2. open' \in SUBSET Task
        BY <1>1 DEF Publish, TypeOK
      <3>. QED  BY <3>1, <3>2
    <2>2. published' \in Nat /\ faults' \in Nat
      BY <1>1 DEF Publish, TypeOK
    <2>3. UNCHANGED <<dead, attempts, lock, valid, refreshing, pc, hand, taken, failures,
                      refreshErrors>>
      BY <1>1 DEF Publish
    <2>. QED  BY <2>1, <2>2, <2>3 DEF TypeOK
  <1>2. ASSUME NEW w \in Worker, NEW t \in Task, Finish(w, t)
        PROVE  TypeOK'
    BY <1>2 DEF Finish, TypeOK
  <1>3. ASSUME NEW w \in Worker, Boot(w)
        PROVE  TypeOK'
    BY <1>0, <1>3, TakeType DEF Boot, TypeOK, Consuming
  <1>4. ASSUME NEW w \in Worker, AcquireLease(w)
        PROVE  TypeOK'
    BY <1>0, <1>4 DEF AcquireLease, TypeOK, Consuming
  <1>5. ASSUME NEW w \in Worker, Start(w)
        PROVE  TypeOK'
    BY <1>0, <1>5, TakeType DEF Start, TypeOK, Consuming
  <1>6. ASSUME NEW w \in Worker, Receive(w)
        PROVE  TypeOK'
    <2>1. CASE pending # <<>>
      <3>1. Head(pending) \in Task /\ Tail(pending) \in Seq(Task)
        BY <2>1 DEF TypeOK
      <3>2. /\ hand' = [hand EXCEPT ![w] = Head(pending)]
            /\ pending' = Tail(pending) /\ Goto(w, "popped")
        BY <1>6, <2>1 DEF Receive
      <3>3. /\ hand' \in [Worker -> Task \cup {NoTask}] /\ hand'[w] \in Task
            /\ \A v \in Worker : v # w => hand'[v] = hand[v]
        BY <3>1, <3>2 DEF TypeOK
      <3>4. "popped" \in Where
        BY DEF Where, Consuming
      <3>5. /\ pc' \in [Worker -> Where]
            /\ \A v \in Worker :
                  pc'[v] \in Consuming \ {"receiving", "checking"} => hand'[v] \in Task
        BY <3>2, <3>3, <3>4, GotoType
      <3>. QED  BY <1>6, <3>1, <3>2, <3>3, <3>5 DEF Receive, TypeOK
    <2>2. CASE pending = <<>>
      <3>1. /\ hand' = [hand EXCEPT ![w] = NoTask]
            /\ pending' = pending /\ Goto(w, "checking")
        BY <1>6, <2>2 DEF Receive
      <3>2. /\ hand' \in [Worker -> Task \cup {NoTask}]
            /\ \A v \in Worker : v # w => hand'[v] = hand[v]
        BY <3>1 DEF TypeOK
      <3>3. "checking" \in Where
        BY DEF Where, Consuming
      <3>4. /\ pc' \in [Worker -> Where]
            /\ \A v \in Worker :
                  pc'[v] \in Consuming \ {"receiving", "checking"} => hand'[v] \in Task
        BY <3>1, <3>2, <3>3, GotoType
      <3>. QED  BY <1>6, <3>1, <3>2, <3>4 DEF Receive, TypeOK
    <2>. QED  BY <2>1, <2>2
  <1>7. ASSUME NEW w \in Worker, Count(w)
        PROVE  TypeOK'
    BY <1>0, <1>7, Holding DEF Count, TypeOK, Consuming
  <1>8. ASSUME NEW w \in Worker, Dispatch(w)
        PROVE  TypeOK'
    <2>1. taken' \in [Worker -> SUBSET Task]
      BY <1>8, TakeType DEF Dispatch, TypeOK
    <2>2. failures' \in [Task -> 0 .. DeadLetterMax]
      <3>1. DeadLetterMax \in Nat
        BY QueueAssumption
      <3>2. ASSUME NEW t \in Task
            PROVE  Min({failures[t] + 1, DeadLetterMax}) \in 0 .. DeadLetterMax
        <4>1. failures[t] + 1 \in Nat
          BY <3>1 DEF TypeOK
        <4>. QED  BY <3>1, <4>1, MinType
      <3>3. 0 \in 0 .. DeadLetterMax
        BY <3>1
      <3>4. hand[w] \in Task \cup {NoTask}
        BY DEF TypeOK
      <3>5. CASE UNCHANGED failures
        BY <3>5 DEF TypeOK
      <3>6. CASE /\ hand[w] # NoTask
                 /\ \/ failures' = [failures EXCEPT ![hand[w]] = 0]
                    \/ failures' = [failures EXCEPT ![hand[w]] = Min({@ + 1, DeadLetterMax})]
        <4>1. hand[w] \in Task
          BY <3>4, <3>6
        <4>2. PICK n \in 0 .. DeadLetterMax : failures' = [failures EXCEPT ![hand[w]] = n]
          BY <3>2, <3>3, <3>6, <4>1
        <4>. QED  BY <4>2 DEF TypeOK
      <3>. QED  BY <1>8, <3>5, <3>6 DEF Dispatch
    <2>3. /\ pc' \in [Worker -> Where]
          /\ \A v \in Worker :
                pc'[v] \in Consuming \ {"receiving", "checking"} => hand'[v] \in Task
      <3>1. /\ hand' = hand /\ hand \in [Worker -> Task \cup {NoTask}]
        BY <1>8 DEF Dispatch, TypeOK
      <3>2. PICK place \in {"exiting", "receiving", "forgetting", "rejecting"} :
               /\ Goto(w, place)
               /\ place \in {"forgetting", "rejecting"} => hand[w] # NoTask
        BY <1>8 DEF Dispatch
      <3>3. place \in Where /\ (place \in Consuming \ {"receiving", "checking"}
                                    => place \in {"forgetting", "rejecting"})
        BY <3>2 DEF Where, Consuming
      <3>4. hand'[w] \in Task \cup {NoTask} /\ \A v \in Worker : hand'[v] = hand[v]
        BY <3>1
      <3>5. place \in Consuming \ {"receiving", "checking"} => hand'[w] \in Task
        BY <3>1, <3>2, <3>3, <3>4
      <3>6. hand' \in [Worker -> Task \cup {NoTask}]
        BY <3>1
      <3>7. Goto(w, place)
        BY <3>2
      <3>. QED  BY <3>3, <3>4, <3>5, <3>6, <3>7, GotoType
    <2>. QED  BY <1>8, <2>1, <2>2, <2>3 DEF Dispatch, TypeOK
  <1>9. ASSUME NEW w \in Worker, Reject(w)
        PROVE  TypeOK'
    BY <1>0, <1>9, Holding DEF Reject, TypeOK, Consuming
  <1>10. ASSUME NEW w \in Worker, Requeue(w)
         PROVE  TypeOK'
    BY <1>0, <1>10, Holding DEF Requeue, TypeOK, Consuming
  <1>11. ASSUME NEW w \in Worker, Bury(w)
         PROVE  TypeOK'
    BY <1>0, <1>11, Holding DEF Bury, TypeOK, Consuming
  <1>12. ASSUME NEW w \in Worker, Forget(w)
         PROVE  TypeOK'
    BY <1>0, <1>12, Holding DEF Forget, TypeOK, Consuming
  <1>13. ASSUME NEW w \in Worker, Recover(w)
         PROVE  TypeOK'
    BY <1>13, TakeType DEF Recover, TypeOK
  <1>14. ASSUME NEW w \in Worker, Refresh(w) \/ RefreshRaises(w)
         PROVE  TypeOK'
    <2>1. refreshing' \in [Worker -> BOOLEAN]
      BY <1>14 DEF Refresh, RefreshRaises, TypeOK
    <2>2. valid' \in [Worker -> BOOLEAN]
      BY <1>14 DEF Refresh, RefreshRaises, TypeOK
    <2>3. refreshErrors' \in Nat
      BY <1>14 DEF Refresh, RefreshRaises, TypeOK
    <2>4. UNCHANGED <<redis, lock, pc, hand, open, taken, failures, published, faults>>
      BY <1>14 DEF Refresh, RefreshRaises
    <2>. QED  BY <2>1, <2>2, <2>3, <2>4 DEF TypeOK
  <1>15. CASE LockExpires \/ RefreshLate
    BY <1>15 DEF LockExpires, RefreshLate, TypeOK
  <1>16. ASSUME NEW w \in Worker, Exit(w) \/ Crash(w)
         PROVE  TypeOK'
    <2>1. Ended(w)
      BY <1>16 DEF Exit, Crash
    <2>2. lock' \in Worker \cup {NoWorker} /\ faults' \in Nat
      BY <1>16 DEF Exit, Crash, TypeOK
    <2>3. UNCHANGED <<redis, open, failures, published, refreshErrors>>
      BY <1>16 DEF Exit, Crash
    <2>4. valid' \in [Worker -> BOOLEAN] /\ refreshing' \in [Worker -> BOOLEAN]
      BY <2>1, Zenon DEF Ended, TypeOK
    <2>5. taken' \in [Worker -> SUBSET Task]
      BY <2>1 DEF Ended, TypeOK
    <2>6. /\ hand' \in [Worker -> Task \cup {NoTask}]
          /\ \A v \in Worker : v # w => hand'[v] = hand[v]
      BY <2>1 DEF Ended, TypeOK
    <2>7. "down" \in Where \ Consuming /\ Goto(w, "down")
      BY <2>1 DEF Ended, Where, Consuming
    <2>8. /\ pc' \in [Worker -> Where]
          /\ \A v \in Worker :
                pc'[v] \in Consuming \ {"receiving", "checking"} => hand'[v] \in Task
      BY <2>6, <2>7, GotoType
    <2>. QED  BY <2>2, <2>3, <2>4, <2>5, <2>6, <2>8 DEF TypeOK
  <1>17. ASSUME NEW w \in Worker, RedisFails(w)
         PROVE  TypeOK'
    BY <1>0, <1>17 DEF RedisFails, TypeOK, Consuming
  <1>18. CASE UNCHANGED vars
    BY <1>18 DEF vars, TypeOK
  <1>. QED
    BY <1>1, <1>2, <1>3, <1>4, <1>5, <1>6, <1>7, <1>8, <1>9, <1>10, <1>11, <1>12,
       <1>13, <1>14, <1>15, <1>16, <1>17, <1>18 DEF Next, Turn

(* Every reachable state has the types TypeOK gives. *)
THEOREM TypeCorrect == Spec => []TypeOK
  <1>. QED  BY InitType, NextType, PTL DEF Spec

-----------------------------------------------------------------------------
(* The action of NoTheft. *)
Kept == \A w \in Worker :
           lock = w /\ refreshing[w] /\ pc[w] # "exiting" /\ faults' = faults => lock' = w

LEMMA StepKept == TypeOK /\ [Next]_vars => Kept
  <1>. SUFFICES ASSUME TypeOK, [Next]_vars, NEW w \in Worker, lock = w, refreshing[w],
                       pc[w] # "exiting", faults' = faults
                PROVE  lock' = w
    BY DEF Kept
  <1>. USE DEF redis, lease, bounds
  <1>1. lock # NoWorker /\ faults \in Nat
    BY QueueAssumption DEF TypeOK
  <1>2. ASSUME NEW v \in Worker, Exit(v)
        PROVE  lock' = w
    BY <1>2 DEF Exit
  <1>3. ASSUME NEW v \in Worker, AcquireLease(v)
        PROVE  lock' = w
    BY <1>1, <1>3 DEF AcquireLease
  <1>4. CASE LockExpires \/ RefreshLate
    BY <1>1, <1>4 DEF LockExpires, RefreshLate
  <1>5. CASE UNCHANGED lock
    BY <1>5
  <1>6. ASSUME NEW v \in Worker, Boot(v) \/ Start(v) \/ Receive(v) \/ Count(v) \/ Dispatch(v)
                                 \/ Reject(v) \/ Requeue(v) \/ Bury(v) \/ Forget(v)
        PROVE  UNCHANGED lock
    BY <1>6 DEF Boot, Start, Receive, Count, Dispatch, Reject, Requeue, Bury, Forget
  <1>7. ASSUME NEW v \in Worker, Recover(v) \/ Refresh(v) \/ RefreshRaises(v)
                                 \/ RedisFails(v) \/ Crash(v)
        PROVE  UNCHANGED lock
    BY <1>7 DEF Recover, Refresh, RefreshRaises, RedisFails, Crash
  <1>8. ASSUME NEW t \in Task, Publish(t) \/ \E v \in Worker : Finish(v, t)
        PROVE  UNCHANGED lock
    BY <1>8 DEF Publish, Finish
  <1>9. CASE UNCHANGED vars
    BY <1>9 DEF vars
  <1>. QED  BY <1>2, <1>3, <1>4, <1>5, <1>6, <1>7, <1>8, <1>9 DEF Next, Turn

(* No release, late or of a process that never had the lease, takes the    *)
(* worker lock from the worker that holds and refreshes it (the release    *)
(* script of task_queue compares the token).                               *)
THEOREM LockNotStolen == Spec => NoTheft
  <1>1. TypeOK /\ [Next]_vars
           => [\A w \in Worker :
                  lock = w /\ refreshing[w] /\ pc[w] # "exiting" /\ faults' = faults
                      => lock' = w]_vars
    BY StepKept DEF Kept
  <1>. QED  BY <1>1, TypeCorrect, PTL DEF Spec, NoTheft

-----------------------------------------------------------------------------
(***************************************************************************)
(* The strengthening of DeadLetterEarned.  Until a call is lost, or an     *)
(* error ends a refresh loop, who consumes holds the lock and refreshes    *)
(* it, so there is one consumer (Leased); the count of a message is behind *)
(* the dispatches that failed, but while its only consumer holds it,       *)
(* counted and not yet dispatched, or dispatched and not yet acknowledged  *)
(* (Accounted).                                                            *)
(***************************************************************************)
Serving(w) == pc[w] \in Consuming \cup {"starting"}

Leased == \A w \in Worker : Serving(w) => lock = w /\ valid[w] /\ refreshing[w]

InHand(w, t) ==
    /\ hand[w] = t
    /\ \/ pc[w] = "forgetting"
       \/ pc[w] = "checking" /\ attempts[t] <= failures[t] + 1

Accounted == \A t \in Task :
    \/ failures[t] = DeadLetterMax \/ attempts[t] <= failures[t]
    \/ \E w \in Worker : InHand(w, t)

Earned == \A w \in Worker : pc[w] = "burying" => failures[hand[w]] >= DeadLetterMax

Lossless == faults = 0 /\ refreshErrors = 0

EarnInv == Lossless => Leased /\ Accounted /\ Earned

(* A step that moves no consumer, and neither counts nor dispatches.       *)
LEMMA QuietEarned ==
    ASSUME TypeOK, Leased, Accounted, Earned,
           UNCHANGED <<attempts, failures>>,
           \A v \in Worker : \/ pc'[v] = pc[v] /\ hand'[v] = hand[v]
                                /\ (Serving(v) => lock' = lock /\ valid'[v] = valid[v]
                                                  /\ refreshing'[v] = refreshing[v])
                             \/ pc[v] \notin Consuming /\ pc'[v] \notin Consuming
                                /\ (Serving(v)' => lock' = v /\ valid'[v] /\ refreshing'[v])
    PROVE  Leased' /\ Accounted' /\ Earned'
  <1>1. Leased'
    BY DEF Leased, Serving
  <1>2. \A v \in Worker, t \in Task : InHand(v, t) => InHand(v, t)'
    BY DEF InHand, Consuming
  <1>3. Accounted'
    BY <1>2 DEF Accounted
  <1>4. Earned'
    BY DEF Earned, Consuming
  <1>. QED BY <1>1, <1>3, <1>4

(* The step of a consumer: there is no other, so the message it held is    *)
(* the only one whose count may be ahead.                                  *)
LEMMA ConsumerEarned ==
    ASSUME TypeOK, Leased, Accounted, Earned, NEW w \in Worker, pc[w] \in Consuming,
           UNCHANGED lease, NEW place \in Consuming, Goto(w, place),
           \A v \in Worker : v # w => hand'[v] = hand[v],
           place = "burying" => hand'[w] \in Task /\ failures'[hand'[w]] >= DeadLetterMax,
           \A t \in Task :
              \/ failures'[t] = DeadLetterMax \/ attempts'[t] <= failures'[t]
              \/ InHand(w, t)'
    PROVE  Leased' /\ Accounted' /\ Earned'
  <1>1. \A v \in Worker : v # w => ~Serving(v)
    BY DEF Leased, Serving
  <1>2. \A v \in Worker : pc'[v] = IF v = w THEN place ELSE pc[v]
    BY DEF Goto, TypeOK
  <1>3. Serving(w)
    BY DEF Serving
  <1>4. Leased'
    BY <1>2, <1>3 DEF Leased, Serving, lease
  <1>5. Earned'
    BY <1>1, <1>2 DEF Earned, Serving, Consuming
  <1>6. Accounted'
    BY DEF Accounted
  <1>. QED BY <1>4, <1>5, <1>6

LEMMA StepEarned == TypeOK /\ EarnInv /\ [Next]_vars => EarnInv'
  <1>. SUFFICES ASSUME TypeOK, EarnInv, [Next]_vars, Lossless'
                PROVE  Leased' /\ Accounted' /\ Earned'
    BY DEF EarnInv
  <1>. USE DEF redis, lease, bounds
  <1>0. /\ attempts \in [Task -> Nat] /\ failures \in [Task -> 0 .. DeadLetterMax]
        /\ DeadLetterMax \in Nat \ {0} /\ faults \in Nat /\ refreshErrors \in Nat
        /\ NoWorker \notin Worker /\ NoTask \notin Task
        /\ pc \in [Worker -> Where] /\ hand \in [Worker -> Task \cup {NoTask}]
    BY QueueAssumption DEF TypeOK
  <1>1. Lossless /\ ~ (\E w \in Worker : RefreshRaises(w) \/ RedisFails(w) \/ Crash(w))
        /\ ~ RefreshLate
    <2>1. faults' = faults \/ faults' = faults + 1
      BY DEF Next, Turn, vars, Publish, Finish, Boot, AcquireLease, Start, Receive, Count,
         Dispatch, Reject, Requeue, Bury, Forget, Exit, Recover, Refresh, RefreshRaises,
         RedisFails, Crash, LockExpires, RefreshLate
    <2>2. refreshErrors' = refreshErrors \/ refreshErrors' = refreshErrors + 1
      BY DEF Next, Turn, vars, Publish, Finish, Boot, AcquireLease, Start, Receive, Count,
         Dispatch, Reject, Requeue, Bury, Forget, Exit, Recover, Refresh, RefreshRaises,
         RedisFails, Crash, LockExpires, RefreshLate
    <2>3. Lossless
      BY <1>0, <2>1, <2>2 DEF Lossless
    <2>. QED BY <1>0, <2>3 DEF Lossless, RefreshRaises, RedisFails, Crash, RefreshLate
  <1>2. Leased /\ Accounted /\ Earned
    BY <1>1 DEF EarnInv
  <1>3. ASSUME NEW w \in Worker, Boot(w) \/ AcquireLease(w)
        PROVE  Leased' /\ Accounted' /\ Earned'
    <2>1. /\ pc[w] \in {"down", "booted"} /\ pc'[w] \in {"booted", "starting", "exiting"}
          /\ \A v \in Worker : v # w => pc'[v] = pc[v]
          /\ UNCHANGED <<attempts, failures, hand>>
      BY <1>0, <1>3 DEF Boot, AcquireLease, Goto
    <2>2. pc'[w] = "starting" => lock' = w /\ valid'[w] /\ refreshing'[w]
      BY <1>0, <1>3 DEF Boot, AcquireLease, Goto, TypeOK
    <2>3. \A v \in Worker : Serving(v) => lock' = lock /\ valid'[v] = valid[v]
                                          /\ refreshing'[v] = refreshing[v]
      BY <1>0, <1>2, <1>3 DEF Boot, AcquireLease, Leased, Serving, TypeOK, Consuming
    <2>. QED BY <1>2, <2>1, <2>2, <2>3, QuietEarned DEF Serving, Consuming
  <1>4. ASSUME NEW w \in Worker, Exit(w)
        PROVE  Leased' /\ Accounted' /\ Earned'
    <2>1. /\ pc[w] = "exiting" /\ pc'[w] = "down"
          /\ \A v \in Worker : v # w => /\ pc'[v] = pc[v] /\ hand'[v] = hand[v]
                                        /\ valid'[v] = valid[v]
                                        /\ refreshing'[v] = refreshing[v]
          /\ lock' = IF lock = w THEN NoWorker ELSE lock
          /\ UNCHANGED <<attempts, failures>>
      BY <1>0, <1>4 DEF Exit, Ended, Goto, TypeOK
    <2>2. \A v \in Worker : Serving(v) => v # w /\ lock' = lock
      BY <1>2, <2>1 DEF Leased, Serving, Consuming
    <2>. QED BY <1>2, <2>1, <2>2, QuietEarned DEF Serving, Consuming
  <1>5. ASSUME NEW w \in Worker, Start(w)
        PROVE  Leased' /\ Accounted' /\ Earned'
    <2>1. /\ Serving(w) /\ pc'[w] = "receiving"
          /\ \A v \in Worker : v # w => pc'[v] = pc[v]
          /\ UNCHANGED <<attempts, failures, hand, lock, valid, refreshing>>
          /\ pc[w] = "starting"
      BY <1>0, <1>5 DEF Start, Goto, Serving
    <2>2. Leased'
      BY <1>2, <2>1 DEF Leased, Serving
    <2>3. \A v \in Worker, t \in Task : InHand(v, t) => InHand(v, t)'
      BY <2>1 DEF InHand
    <2>4. Earned'
      BY <1>2, <2>1 DEF Earned
    <2>. QED BY <1>2, <2>1, <2>2, <2>3, <2>4 DEF Accounted
  <1>6. CASE \/ LockExpires \/ \E w \in Worker : Refresh(w) \/ Recover(w)
             \/ \E t \in Task : Publish(t) \/ \E w \in Worker : Finish(w, t)
    <2>1. UNCHANGED <<attempts, failures, pc, hand>>
      BY <1>6 DEF LockExpires, Refresh, Recover, Publish, Finish
    <2>2. \A v \in Worker : Serving(v) => lock' = lock /\ valid'[v] = valid[v]
                                          /\ refreshing'[v] = refreshing[v]
      BY <1>0, <1>2, <1>6 DEF LockExpires, Refresh, Recover, Publish, Finish, Leased, TypeOK
    <2>. QED BY <1>2, <2>1, <2>2, QuietEarned
  <1>7. CASE UNCHANGED vars
    BY <1>2, <1>7, QuietEarned DEF vars
  <1>8. ASSUME NEW w \in Worker, pc[w] \in Consuming,
               UNCHANGED lease, NEW place \in Consuming, Goto(w, place),
               \A v \in Worker : v # w => hand'[v] = hand[v],
               place = "burying" => hand'[w] \in Task /\ failures'[hand'[w]] >= DeadLetterMax,
               \A t \in Task : \/ failures'[t] = DeadLetterMax \/ attempts'[t] <= failures'[t]
                               \/ InHand(w, t)'
        PROVE  Leased' /\ Accounted' /\ Earned'
    BY <1>2, <1>8, ConsumerEarned
  <1>9. ASSUME NEW w \in Worker, pc[w] \in Consuming, pc[w] \notin {"forgetting", "checking"},
               NEW t \in Task
        PROVE  failures[t] = DeadLetterMax \/ attempts[t] <= failures[t]
    BY <1>2, <1>9 DEF Accounted, InHand, Leased, Serving, Consuming
  <1>10. ASSUME NEW w \in Worker, Receive(w)
         PROVE  Leased' /\ Accounted' /\ Earned'
    <2>1. PICK place \in {"popped", "checking"} :
             /\ pc[w] = "receiving" /\ Goto(w, place) /\ UNCHANGED <<attempts, failures, lease>>
             /\ \A v \in Worker : v # w => hand'[v] = hand[v]
      BY <1>0, <1>10 DEF Receive
    <2>. QED BY <1>8, <1>9, <2>1 DEF Consuming
  <1>11. ASSUME NEW w \in Worker, Count(w)
         PROVE  Leased' /\ Accounted' /\ Earned'
    <2>1. /\ pc[w] = "popped" /\ Goto(w, "checking") /\ UNCHANGED <<failures, hand, lease>>
          /\ \A t \in Task : attempts'[t] = IF t = hand[w] THEN attempts[t] + 1 ELSE attempts[t]
      BY <1>0, <1>11 DEF Count
    <2>2. pc'[w] = "checking"
      BY <1>0, <2>1 DEF Goto
    <2>3. \A t \in Task : \/ failures'[t] = DeadLetterMax \/ attempts'[t] <= failures'[t]
                          \/ InHand(w, t)'
      BY <1>0, <1>9, <2>1, <2>2 DEF InHand, Consuming
    <2>. QED BY <1>8, <2>1, <2>3 DEF Consuming
  <1>12. ASSUME NEW w \in Worker, pc[w] = "checking", NEW t \in Task,
                failures[t] # DeadLetterMax, ~ (attempts[t] <= failures[t])
         PROVE  hand[w] = t /\ attempts[t] <= failures[t] + 1
    BY <1>2, <1>12 DEF Accounted, InHand, Leased, Serving, Consuming
  <1>13. ASSUME NEW w \in Worker, Dispatch(w)
         PROVE  Leased' /\ Accounted' /\ Earned'
    <2>1. pc[w] = "checking" /\ valid[w] /\ UNCHANGED <<attempts, hand, lease>>
      BY <1>2, <1>13 DEF Dispatch, Leased, Serving, Consuming
    <2>2. CASE hand[w] = NoTask
      <3>1. Goto(w, "receiving") /\ UNCHANGED failures
        BY <1>13, <2>1, <2>2 DEF Dispatch
      <3>2. \A t \in Task : failures[t] = DeadLetterMax \/ attempts[t] <= failures[t]
        BY <1>0, <1>12, <2>1, <2>2
      <3>. QED BY <1>8, <2>1, <3>1, <3>2 DEF Consuming
    <2>3. CASE hand[w] # NoTask
      <3>1. hand[w] \in Task
        BY <1>0, <2>3
      <3>2. CASE /\ failures' = [failures EXCEPT ![hand[w]] = 0] /\ Goto(w, "forgetting")
        <4>1. pc'[w] = "forgetting" /\ hand'[w] = hand[w]
          BY <1>0, <2>1, <3>2 DEF Goto
        <4>2. \A t \in Task : t # hand[w] =>
                 /\ failures'[t] = failures[t] /\ attempts'[t] = attempts[t]
                 /\ failures[t] = DeadLetterMax \/ attempts[t] <= failures[t]
          BY <1>0, <1>12, <2>1, <3>2
        <4>3. \A t \in Task : \/ failures'[t] = DeadLetterMax \/ attempts'[t] <= failures'[t]
                              \/ InHand(w, t)'
          BY <4>1, <4>2 DEF InHand
        <4>. QED BY <1>8, <2>1, <3>2, <4>3 DEF Consuming
      <3>3. CASE /\ failures' = [failures EXCEPT ![hand[w]] = Min({@ + 1, DeadLetterMax})]
                 /\ Goto(w, "rejecting")
        <4>1. \A t \in Task : t # hand[w] =>
                 /\ failures'[t] = failures[t] /\ attempts'[t] = attempts[t]
                 /\ failures[t] = DeadLetterMax \/ attempts[t] <= failures[t]
          BY <1>0, <1>12, <2>1, <3>3
        <4>2. failures'[hand[w]] = Min({failures[hand[w]] + 1, DeadLetterMax})
          BY <1>0, <3>1, <3>3
        <4>3. failures'[hand[w]] = IF failures[hand[w]] = DeadLetterMax THEN DeadLetterMax
                                   ELSE failures[hand[w]] + 1
          BY <1>0, <3>1, <4>2, MinIs
        <4>4. \/ failures'[hand[w]] = DeadLetterMax
              \/ attempts'[hand[w]] <= failures'[hand[w]]
          BY <1>0, <1>12, <2>1, <3>1, <4>3
        <4>. QED BY <1>8, <2>1, <3>3, <4>1, <4>4 DEF Consuming
      <3>. QED BY <1>13, <2>1, <2>3, <3>2, <3>3 DEF Dispatch
    <2>. QED BY <2>2, <2>3
  <1>14. ASSUME NEW w \in Worker, Reject(w)
         PROVE  Leased' /\ Accounted' /\ Earned'
    <2>1. /\ pc[w] = "rejecting" /\ UNCHANGED <<attempts, failures, hand, lease>>
          /\ Goto(w, IF attempts[hand[w]] < DeadLetterMax THEN "requeueing" ELSE "burying")
      BY <1>14 DEF Reject
    <2>2. hand[w] \in Task
      BY <2>1, Holding
    <2>3. failures[hand[w]] = DeadLetterMax \/ attempts[hand[w]] <= failures[hand[w]]
      BY <1>9, <2>1, <2>2 DEF Consuming
    <2>4. ~ (attempts[hand[w]] < DeadLetterMax) => failures[hand[w]] >= DeadLetterMax
      BY <1>0, <2>2, <2>3
    <2>5. \A t \in Task : failures'[t] = DeadLetterMax \/ attempts'[t] <= failures'[t]
      BY <1>9, <2>1 DEF Consuming
    <2>6. CASE attempts[hand[w]] < DeadLetterMax
      BY <1>8, <2>1, <2>5, <2>6 DEF Consuming
    <2>7. CASE ~ (attempts[hand[w]] < DeadLetterMax)
      BY <1>8, <2>1, <2>2, <2>4, <2>5, <2>7 DEF Consuming
    <2>. QED BY <2>6, <2>7
  <1>15. ASSUME NEW w \in Worker, Requeue(w) \/ Bury(w)
         PROVE  Leased' /\ Accounted' /\ Earned'
    <2>1. PICK place \in {"receiving", "forgetting"} :
             /\ pc[w] \in {"requeueing", "burying"} /\ Goto(w, place)
             /\ UNCHANGED <<attempts, failures, hand, lease>>
      BY <1>15 DEF Requeue, Bury
    <2>. QED BY <1>8, <1>9, <2>1 DEF Consuming
  <1>16. ASSUME NEW w \in Worker, Forget(w)
         PROVE  Leased' /\ Accounted' /\ Earned'
    <2>1. /\ pc[w] = "forgetting" /\ Goto(w, "receiving") /\ UNCHANGED <<failures, hand, lease>>
          /\ \A t \in Task : attempts'[t] = IF t = hand[w] THEN 0 ELSE attempts[t]
      BY <1>0, <1>16 DEF Forget
    <2>2. \A t \in Task : failures'[t] = DeadLetterMax \/ attempts'[t] <= failures'[t]
      BY <1>0, <1>2, <2>1 DEF Accounted, InHand, Leased, Serving, Consuming
    <2>. QED BY <1>8, <2>1, <2>2 DEF Consuming
  <1>. QED
    BY <1>1, <1>3, <1>4, <1>5, <1>6, <1>7, <1>10, <1>11, <1>13, <1>14, <1>15, <1>16
       DEF Next, Turn

(* A message is buried only after as many failed dispatches in a row as    *)
(* the limit says, for any number of workers, unless a call was lost or an *)
(* error ended a refresh loop (receive, ack and reject of task_queue, the  *)
(* lease of TaskWorker.run).                                               *)
THEOREM BurialsEarned == Spec => []DeadLetterEarned
  <1>1. Init => EarnInv
    BY DEF Init, EarnInv, Leased, Accounted, Earned, Serving, Consuming
  <1>2. EarnInv => DeadLetterEarned
    BY DEF EarnInv, Lossless, Earned, DeadLetterEarned
  <1>. QED BY <1>1, <1>2, StepEarned, TypeCorrect, PTL DEF Spec

=============================================================================
