------------------------------- MODULE TaskQueue -------------------------------
(***************************************************************************)
(* The Redis transport between the API, which announces task ids, and the  *)
(* queue worker, which dispatches them: a list of messages, a hash of      *)
(* delivery attempts, a dead-letter list and the worker lock, with the     *)
(* database as the authority on which tasks are still to be done.          *)
(*                                                                         *)
(* A worker is a program counter over the Redis calls of one turn of       *)
(* TaskWorker.run; between two calls anything else may happen.  What a     *)
(* dispatched task does is the subject of TaskLifecycle: here it is taken  *)
(* by a worker and finished by it, or free again when the worker goes.     *)
(***************************************************************************)
EXTENDS Integers, Sequences, FiniteSets, SequencesExt

CONSTANTS
    Task, Worker,
    NoTask, NoWorker,
    DeadLetterMax,      \* dead_letter_max_attempts
    MaxPublish,         \* bound: messages the API announces
    MaxFaults,          \* bound: crashes, lost calls, late refreshes
    MaxRefreshErrors    \* bound: Redis errors inside the refresh loop

ASSUME QueueAssumption ==
    /\ NoTask \notin Task /\ NoWorker \notin Worker
    /\ DeadLetterMax \in Nat \ {0}
    /\ MaxPublish \in Nat /\ MaxFaults \in Nat /\ MaxRefreshErrors \in Nat

VARIABLES
    pending,      \* the Redis list of task ids
    dead,         \* the dead-letter list
    attempts,     \* the hash of delivery attempts
    lock,         \* the worker whose token is in the lock key
    pc,           \* where each worker is
    hand,         \* the message each worker is handling
    valid,        \* _worker_lease_valid
    refreshing,   \* the refresh loop is alive
    open,         \* tasks the database holds to be done
    taken,        \* tasks each worker is executing under a database lease
    failures,     \* history: failed dispatches since the last other outcome,
                  \* counted up to DeadLetterMax
    published, faults, refreshErrors

redis == <<pending, dead, attempts>>
lease == <<lock, valid, refreshing>>
bounds == <<published, faults, refreshErrors>>
vars == <<redis, lease, pc, hand, open, taken, failures, bounds>>

(* Inside the try block of TaskWorker.run. *)
Consuming == {"receiving", "popped", "checking", "rejecting", "requeueing",
              "burying", "forgetting"}
Where == Consuming \cup {"down", "booted", "starting", "exiting"}

Init ==
    /\ pending = <<>> /\ dead = {} /\ attempts = [t \in Task |-> 0]
    /\ lock = NoWorker
    /\ pc = [w \in Worker |-> "down"]
    /\ hand = [w \in Worker |-> NoTask]
    /\ valid = [w \in Worker |-> FALSE]
    /\ refreshing = [w \in Worker |-> FALSE]
    /\ open = {} /\ taken = [w \in Worker |-> {}]
    /\ failures = [t \in Task |-> 0]
    /\ published = 0 /\ faults = 0 /\ refreshErrors = 0

Goto(w, place) == pc' = [pc EXCEPT ![w] = place]
Free == open \ UNION {taken[w] : w \in Worker}
Take(w, S) == taken' = [taken EXCEPT ![w] = @ \cup (S \cap Free)]

-----------------------------------------------------------------------------
(* The API commits the task and then announces it, for the first time or   *)
(* after an answer; the call may be lost after the commit.                 *)
Publish(t) ==
    /\ published < MaxPublish
    /\ published' = published + 1
    /\ open' = open \cup {t}
    /\ \/ pending' = Append(pending, t) /\ UNCHANGED faults
       \/ faults < MaxFaults /\ faults' = faults + 1 /\ UNCHANGED pending
    /\ UNCHANGED <<dead, attempts, lease, pc, hand, taken, failures, refreshErrors>>

(* The worker's application recovers once as it starts, before the lease.  *)
Boot(w) ==
    /\ pc[w] = "down"
    /\ Goto(w, "booted")
    /\ Take(w, Free)
    /\ UNCHANGED <<redis, lease, hand, open, failures, bounds>>

(* SET NX EX; without the lock the process ends and starts over. *)
AcquireLease(w) ==
    /\ pc[w] = "booted"
    /\ IF lock = NoWorker
       THEN /\ lock' = w
            /\ valid' = [valid EXCEPT ![w] = TRUE]
            /\ refreshing' = [refreshing EXCEPT ![w] = TRUE]
            /\ Goto(w, "starting")
       ELSE /\ Goto(w, "exiting")
            /\ UNCHANGED lease
    /\ UNCHANGED <<redis, hand, open, taken, failures, bounds>>

Start(w) ==
    /\ pc[w] = "starting"
    /\ Take(w, Free)
    /\ Goto(w, "receiving")
    /\ UNCHANGED <<redis, lease, hand, open, failures, bounds>>

(* BLPOP: a message, or nothing within the timeout. *)
Receive(w) ==
    /\ pc[w] = "receiving"
    /\ IF pending # <<>>
       THEN /\ hand' = [hand EXCEPT ![w] = Head(pending)]
            /\ pending' = Tail(pending)
            /\ Goto(w, "popped")
       ELSE /\ hand' = [hand EXCEPT ![w] = NoTask]
            /\ Goto(w, "checking")
            /\ UNCHANGED pending
    /\ UNCHANGED <<dead, attempts, lease, open, taken, failures, bounds>>

(* HINCRBY *)
Count(w) ==
    /\ pc[w] = "popped"
    /\ attempts' = [attempts EXCEPT ![hand[w]] = @ + 1]
    /\ Goto(w, "checking")
    /\ UNCHANGED <<pending, dead, lease, hand, open, taken, failures, bounds>>

(* The lease is looked at once per message; submit does not suspend. *)
Dispatch(w) ==
    /\ pc[w] = "checking"
    /\ \/ /\ ~valid[w]
          /\ Goto(w, "exiting")
          /\ UNCHANGED <<taken, failures>>
       \/ /\ valid[w] /\ hand[w] = NoTask
          /\ Goto(w, "receiving")
          /\ UNCHANGED <<taken, failures>>
       \/ /\ valid[w] /\ hand[w] # NoTask
          /\ Take(w, {hand[w]})
          /\ failures' = [failures EXCEPT ![hand[w]] = 0]
          /\ Goto(w, "forgetting")
       \/ /\ valid[w] /\ hand[w] # NoTask
          /\ failures' = [failures EXCEPT ![hand[w]] = Min({@ + 1, DeadLetterMax})]
          /\ Goto(w, "rejecting")
          /\ UNCHANGED taken
    /\ UNCHANGED <<redis, lease, hand, open, bounds>>

(* reject: HGET, then LPUSH, or RPUSH to the dead letters and HDEL. *)
Reject(w) ==
    /\ pc[w] = "rejecting"
    /\ Goto(w, IF attempts[hand[w]] < DeadLetterMax THEN "requeueing" ELSE "burying")
    /\ UNCHANGED <<redis, lease, hand, open, taken, failures, bounds>>

Requeue(w) ==
    /\ pc[w] = "requeueing"
    /\ pending' = <<hand[w]>> \o pending
    /\ Goto(w, "receiving")
    /\ UNCHANGED <<dead, attempts, lease, hand, open, taken, failures, bounds>>

Bury(w) ==
    /\ pc[w] = "burying"
    /\ dead' = dead \cup {hand[w]}
    /\ Goto(w, "forgetting")
    /\ UNCHANGED <<pending, attempts, lease, hand, open, taken, failures, bounds>>

ForgetNothing(w) ==   \* variant: the attempts of an acknowledged message stay
    /\ pc[w] = "forgetting"
    /\ Goto(w, "receiving")
    /\ UNCHANGED <<redis, lease, hand, open, taken, failures, bounds>>

(* ack, and the end of a burial: HDEL *)
Forget(w) ==
    /\ pc[w] = "forgetting"
    /\ attempts' = [attempts EXCEPT ![hand[w]] = 0]
    /\ Goto(w, "receiving")
    /\ UNCHANGED <<pending, dead, lease, hand, open, taken, failures, bounds>>

RecoverUnclaimed(w) ==   \* variant: only tasks still announced are recovered
    /\ pc[w] \in Consuming
    /\ Free \cap ToSet(pending) # {}
    /\ Take(w, Free \cap ToSet(pending))
    /\ UNCHANGED <<redis, lease, pc, hand, open, failures, bounds>>

(* The recovery loop runs beside the consumer, from the database alone. *)
Recover(w) ==
    /\ pc[w] \in Consuming
    /\ Free # {}
    /\ Take(w, Free)
    /\ UNCHANGED <<redis, lease, pc, hand, open, failures, bounds>>

Finish(w, t) ==
    /\ t \in taken[w]
    /\ taken' = [taken EXCEPT ![w] = @ \ {t}]
    /\ open' = open \ {t}
    /\ UNCHANGED <<redis, lease, pc, hand, failures, bounds>>

-----------------------------------------------------------------------------
(* The lock.                                                               *)

RefreshBlind(w) ==   \* variant: the loop ends and the flag stays as it was
    /\ refreshing[w] /\ lock # w
    /\ refreshing' = [refreshing EXCEPT ![w] = FALSE]
    /\ UNCHANGED <<redis, lock, valid, pc, hand, open, taken, failures, bounds>>

(* The script extends the caller's own lock; finding another's, or none,   *)
(* the loop marks the lease lost and ends.                                 *)
Refresh(w) ==
    /\ refreshing[w] /\ lock # w
    /\ valid' = [valid EXCEPT ![w] = FALSE]
    /\ refreshing' = [refreshing EXCEPT ![w] = FALSE]
    /\ UNCHANGED <<redis, lock, pc, hand, open, taken, failures, bounds>>

(* A Redis error ends the loop, and nobody looks at its result. *)
RefreshRaises(w) ==
    /\ refreshErrors < MaxRefreshErrors
    /\ refreshing[w]
    /\ refreshing' = [refreshing EXCEPT ![w] = FALSE]
    /\ refreshErrors' = refreshErrors + 1
    /\ UNCHANGED <<redis, lock, valid, pc, hand, open, taken, failures, published, faults>>

LockExpires ==
    /\ lock # NoWorker
    /\ ~refreshing[lock]
    /\ lock' = NoWorker
    /\ UNCHANGED <<redis, valid, refreshing, pc, hand, open, taken, failures, bounds>>

RefreshLate ==
    /\ faults < MaxFaults
    /\ lock # NoWorker
    /\ refreshing[lock]
    /\ lock' = NoWorker
    /\ faults' = faults + 1
    /\ UNCHANGED <<redis, valid, refreshing, pc, hand, open, taken, failures,
                   published, refreshErrors>>

(* The process ends: what it executed is free again. *)
Ended(w) ==
    /\ Goto(w, "down")
    /\ valid' = [valid EXCEPT ![w] = FALSE]
    /\ refreshing' = [refreshing EXCEPT ![w] = FALSE]
    /\ taken' = [taken EXCEPT ![w] = {}]
    /\ hand' = [hand EXCEPT ![w] = NoTask]

ExitDeleting(w) ==   \* variant: the release does not compare the token
    /\ pc[w] = "exiting"
    /\ lock' = NoWorker
    /\ Ended(w)
    /\ UNCHANGED <<redis, open, failures, bounds>>

(* The lease is released by a script that compares the token; a process    *)
(* that never had it releases nothing.                                     *)
Exit(w) ==
    /\ pc[w] = "exiting"
    /\ lock' = IF lock = w THEN NoWorker ELSE lock
    /\ Ended(w)
    /\ UNCHANGED <<redis, open, failures, bounds>>

(* A Redis call of the consumer raises. *)
RedisFails(w) ==
    /\ faults < MaxFaults
    /\ pc[w] \in Consuming \ {"checking"}
    /\ Goto(w, "exiting")
    /\ faults' = faults + 1
    /\ UNCHANGED <<redis, lease, hand, open, taken, failures, published, refreshErrors>>

Crash(w) ==
    /\ faults < MaxFaults
    /\ pc[w] # "down"
    /\ faults' = faults + 1
    /\ Ended(w)
    /\ UNCHANGED <<redis, lock, open, failures, published, refreshErrors>>

-----------------------------------------------------------------------------
Turn(w) ==
    \/ Boot(w) \/ AcquireLease(w) \/ Start(w) \/ Receive(w) \/ Count(w) \/ Dispatch(w)
    \/ Reject(w) \/ Requeue(w) \/ Bury(w) \/ Forget(w) \/ Exit(w)

Next ==
    \/ \E t \in Task : Publish(t) \/ \E w \in Worker : Finish(w, t)
    \/ \E w \in Worker :
          \/ Turn(w) \/ Recover(w) \/ Refresh(w)
          \/ RefreshRaises(w) \/ RedisFails(w) \/ Crash(w)
    \/ LockExpires \/ RefreshLate

Spec == Init /\ [][Next]_vars

(* The consumer, the recovery and refresh loops and the jobs run; a lock   *)
(* nobody refreshes expires; when no worker is left one is started again   *)
(* (the one worker service of docker-compose.server.yml, restart: always). *)
(* Another may be started by hand at any time, or never.                   *)
Fairness ==
    /\ \A w \in Worker : /\ WF_vars(pc[w] # "down" /\ Turn(w))
                         /\ WF_vars(Recover(w))
                         /\ WF_vars(Refresh(w))
    /\ WF_vars((\A w \in Worker : pc[w] = "down") /\ \E w \in Worker : Boot(w))
    /\ \A w \in Worker, t \in Task : WF_vars(Finish(w, t))
    /\ WF_vars(LockExpires)

FairSpec == Spec /\ Fairness

-----------------------------------------------------------------------------
(* Every variable keeps its type. *)
TypeOK ==
    /\ pending \in Seq(Task) /\ dead \in SUBSET Task
    /\ attempts \in [Task -> Nat]
    /\ lock \in Worker \cup {NoWorker}
    /\ pc \in [Worker -> Where]
    /\ hand \in [Worker -> Task \cup {NoTask}]
    /\ \A w \in Worker : pc[w] \in Consuming \ {"receiving", "checking"} => hand[w] \in Task
    /\ valid \in [Worker -> BOOLEAN] /\ refreshing \in [Worker -> BOOLEAN]
    /\ open \in SUBSET Task
    /\ taken \in [Worker -> SUBSET Task]
    /\ failures \in [Task -> 0 .. DeadLetterMax]
    /\ published \in Nat /\ faults \in Nat /\ refreshErrors \in Nat

(* No release, late or of a process that never had the lease, takes the    *)
(* lock from the worker that holds and refreshes it.                       *)
NoTheft ==
    [][\A w \in Worker :
          lock = w /\ refreshing[w] /\ pc[w] # "exiting" /\ faults' = faults
              => lock' = w]_vars

(* A worker whose lock went to another, or to nobody, stops consuming:     *)
(* the refresh finds out, the next message or timeout ends the process.    *)
(* It holds as long as no Redis error has ended a refresh loop: such a     *)
(* worker goes on consuming without a lock (_refresh_loop).                *)
LossNoticed ==
    \A w \in Worker :
        pc[w] \in Consuming /\ lock # w
            ~> pc[w] \notin Consuming \/ lock = w \/ refreshErrors > 0

(* One worker process at a time (worker README 15).                        *)
Alone == \A v, w \in Worker : pc[v] # "down" /\ pc[w] # "down" => v = w

(* The database makes up for everything the transport loses: what is to be *)
(* done is done, whatever call, message or process was lost on the way,    *)
(* once one worker at most runs at a time.  A second one that is started   *)
(* again and again claims recoverable tasks at its boot, before it asks    *)
(* for the lease that turns it away.                                       *)
Delivered == <>[]Alone => \A t \in Task : t \in open ~> t \notin open

(* The transport gives a task up only when its last DeadLetterMax          *)
(* dispatches failed, however often it was announced (worker README 20).   *)
(* It holds as long as no call is lost and no worker goes on without the   *)
(* lock: a delivery counted and not yet acknowledged is taken for a failed *)
(* one by the next.                                                        *)
DeadLetterEarned ==
    faults = 0 /\ refreshErrors = 0 =>
        \A w \in Worker : pc[w] = "burying" => failures[hand[w]] >= DeadLetterMax
=============================================================================
