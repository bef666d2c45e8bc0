------------------------------- MODULE EventFeed -------------------------------
(***************************************************************************)
(* What the workspace is promised about the events of a task, whatever     *)
(* stores and carries them: a log that is only appended to and holds a     *)
(* final event exactly when the task is over; a reader who is shown its    *)
(* events one by one, in order, none twice and none left out; and a wait   *)
(* that is answered at most once, and told of the end only at the end.     *)
(***************************************************************************)
EXTENDS Naturals, Sequences

CONSTANT Final      \* the events that end a task

VARIABLES log,      \* the published events
          over,     \* the task is over
          shown,    \* the events the reader has seen
          outcome   \* of the wait: "open", then one of Outcomes

Outcomes == {"told", "rejected", "cancelled"}

Init ==
    /\ log = <<>>
    /\ over = FALSE
    /\ shown = <<>>
    /\ outcome = "open"

Appended == {log'[i] : i \in Len(log) + 1 .. Len(log')}

Extend ==
    /\ Len(log') > Len(log)
    /\ \A i \in 1 .. Len(log) : log'[i] = log[i]
    /\ UNCHANGED <<shown, outcome>>

Publish ==
    /\ Extend
    /\ Appended \cap Final = {}
    /\ UNCHANGED over

Complete ==
    /\ ~over
    /\ Extend
    /\ log'[Len(log')] \in Final
    /\ over' = TRUE

Show ==
    /\ Len(shown) < Len(log)
    /\ shown' = Append(shown, log[Len(shown) + 1])
    /\ UNCHANGED <<log, over, outcome>>

Settle ==
    /\ outcome = "open"
    /\ outcome' \in Outcomes
    /\ outcome' = "told" => over
    /\ UNCHANGED <<log, over, shown>>

Next == Publish \/ Complete \/ Show \/ Settle

Spec == Init /\ [][Next]_<<log, over, shown, outcome>>
================================================================================
