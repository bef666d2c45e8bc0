------------------------------ MODULE DurableTask ------------------------------
(***************************************************************************)
(* What the task system promises about a task, whatever executes it: it is *)
(* accepted once, it is queued, run and put to wait any number of times,   *)
(* and it is over at most once and for good, with one outcome.  A task     *)
(* whose cancellation was requested ends cancelled or not at all.          *)
(***************************************************************************)
CONSTANT Task

VARIABLES phase, wanted

Phase == {"absent", "queued", "running", "waiting", "completed", "failed", "cancelled"}
Live == {"queued", "running", "waiting"}
Ended == {"completed", "failed", "cancelled"}

Init ==
    /\ phase = [t \in Task |-> "absent"]
    /\ wanted = {}

Accept(t) ==
    /\ phase[t] = "absent"
    /\ phase' = [phase EXCEPT ![t] = "queued"]
    /\ UNCHANGED wanted

Move(t, p) ==
    /\ phase[t] \in Live
    /\ phase' = [phase EXCEPT ![t] = p]
    /\ UNCHANGED wanted

WantCancelled(t) ==
    /\ phase[t] \in Live
    /\ wanted' = wanted \cup {t}
    /\ phase' \in {phase, [phase EXCEPT ![t] = "cancelled"]}

End(t, outcome) ==
    /\ phase[t] \in Live
    /\ outcome = "cancelled" <=> t \in wanted
    /\ phase' = [phase EXCEPT ![t] = outcome]
    /\ UNCHANGED wanted

(* Recovery hands out every task it finds in one transaction. *)
Requeue(S) ==
    /\ \A t \in S : phase[t] \in Live
    /\ phase' = [t \in Task |-> IF t \in S THEN "queued" ELSE phase[t]]
    /\ UNCHANGED wanted

Next ==
    \/ \E t \in Task :
          \/ Accept(t) \/ WantCancelled(t)
          \/ \E p \in Live : Move(t, p)
          \/ \E outcome \in Ended : End(t, outcome)
    \/ \E S \in SUBSET Task : Requeue(S)

Spec == Init /\ [][Next]_<<phase, wanted>>
================================================================================
