----------------------------- MODULE TaskStream -----------------------------
(***************************************************************************)
(* The event log of one task and its way to the browser: transactions that *)
(* append numbered events (event_service, runtime_persistence_hooks), the  *)
(* server-sent event stream that reads them (api/v1/tasks), and the wait   *)
(* of the workspace that follows the stream, reconnects and polls          *)
(* (task-transport.ts).                                                    *)
(*                                                                         *)
(* Transactions are READ COMMITTED: a statement sees what is committed     *)
(* when it runs and what its own transaction wrote.  PostgreSQL locks the  *)
(* task row on SELECT ... FOR UPDATE; SQLite ignores the clause and only   *)
(* serialises writers, from their first write to their commit.  Initially  *)
(* rowLocks is either.                                                     *)
(***************************************************************************)
EXTENDS Naturals, Sequences, FiniteSets, FiniteSetsExt

CONSTANTS
    Reporters,   \* transactions that append one event each
    Engine,      \* the run whose checkpoints flush the buffered events
    Ender,       \* the transaction that completes the task
    NoOne,
    MaxEmit,     \* events the run emits
    MaxFaults,   \* crashes, failed transactions, dropped connections
    MaxErrors    \* requests of the browser that the API answers with an error

SingleAttempt == 1   \* variant: the insert is tried once

Retries == 3     \* _EVENT_SEQUENCE_RETRIES
EnderEvents == 2 \* AGENT_OUTPUT, then TASK_COMPLETED

Writers == Reporters \cup {Engine, Ender}

ASSUME StreamAssumption ==
    /\ IsFiniteSet(Reporters)
    /\ Engine \notin Reporters
    /\ Ender \notin Reporters
    /\ Engine # Ender
    /\ NoOne \notin Writers
    /\ {MaxEmit, MaxFaults, MaxErrors} \subseteq Nat

VARIABLES
    rowLocks, \* the database takes row locks (PostgreSQL; SQLite does not)
    rows,     \* task_events: the committed rows [seq, by, n]
    status,   \* tasks.status: "live", or "over" once terminal
    holder,   \* who holds the task row (or, without row locks, the database)
    tx,       \* the open transaction of each writer
    own,      \* the rows it has inserted and not committed
    buffer,   \* RuntimePersistenceHooks._event_buffers[run]
    emitted,  \* events the run has emitted
    lost,     \* buffered events that went with a process
    conn,     \* the stream: where the generator is, its cursor, the status it read
    flight,   \* rows sent on the stream that the browser has not seen
    got,      \* the ids the browser has seen, in order
    wait,     \* the promise of waitForTask
    req,      \* its status request in flight
    faults,
    errors

logVars    == <<rowLocks, rows, status>>
txVars     == <<holder, tx, own>>
bufferVars == <<buffer, emitted, lost>>
connVars   == <<conn, flight, got>>
waitVars   == <<wait, req>>
boundVars  == <<faults, errors>>
vars == <<logVars, txVars, bufferVars, connVars, waitVars, boundVars>>

Seqs(S) == {r.seq : r \in S}

Top(S) == Max(Seqs(S) \cup {0})     \* next_event_sequence, less one

LastId == IF got = <<>> THEN 0 ELSE got[Len(got)]

IsTerminal(r) == r.by = Ender /\ r.n = EnderEvents

NoTx == [at |-> "idle", next |-> 1, tries |-> 0, todo |-> 0]

TypeOK ==
    /\ rowLocks \in BOOLEAN
    /\ \A r \in rows : r.seq \in Nat /\ r.by \in Writers /\ r.n \in Nat
    /\ status \in {"live", "over"}
    /\ holder \in Writers \cup {NoOne}
    /\ tx \in [Writers -> [at : {"idle", "open", "read", "wrote", "failed", "done"},
                           next : Nat, tries : 0..Retries, todo : Nat]]
    /\ DOMAIN own = Writers
    /\ \A w \in Writers :
          \A r \in own[w] : r.seq \in Nat /\ r.by = w /\ r.n \in Nat
    /\ buffer \in Seq(1..MaxEmit)
    /\ emitted \in 0..MaxEmit
    /\ lost \subseteq 1..MaxEmit
    /\ conn \in [at : {"down", "status", "events", "ended", "gone", "shut"},
                 cursor : Nat, seen : {"live", "over"}]
    /\ flight \subseteq rows
    /\ got \in Seq(Nat)
    /\ wait \in {"open", "told", "rejected", "cancelled"}
    /\ req \in {"none", "sent", "live", "over", "error"}
    /\ faults \in 0..MaxFaults
    /\ errors \in 0..MaxErrors

Init ==
    /\ rowLocks \in BOOLEAN
    /\ rows = {}
    /\ status = "live"
    /\ holder = NoOne
    /\ tx = [w \in Writers |-> NoTx]
    /\ own = [w \in Writers |-> {}]
    /\ buffer = <<>>
    /\ emitted = 0
    /\ lost = {}
    /\ conn = [at |-> "down", cursor |-> 0, seen |-> "live"]
    /\ flight = {}
    /\ got = <<>>
    /\ wait = "open"
    /\ req = "none"
    /\ faults = 0
    /\ errors = 0

-----------------------------------------------------------------------------
(* The writers.                                                            *)

Appends(w) == IF w = Ender THEN EnderEvents ELSE 1   \* in one transaction

\* The events one append of w inserts together, by their number at the writer.
\* A checkpoint hands the whole buffer to append_task_events.
Batch(w) ==
    IF w = Engine THEN buffer
    ELSE <<Appends(w) - tx[w].todo + 1>>

\* A node or decision event of the run goes to the buffer.  The executor emits
\* and checkpoints in turn, never at once.  Bound: checkpoints with events are
\* modelled on a database with row locks.
Emit ==
    /\ rowLocks
    /\ emitted < MaxEmit
    /\ tx[Engine].at = "idle"
    /\ emitted' = emitted + 1
    /\ buffer' = Append(buffer, emitted + 1)
    /\ UNCHANGED <<logVars, txVars, lost, connVars, waitVars, boundVars>>

BeginEnded(w) ==   \* variant: the terminal status is committed before its event
    /\ tx[w].at = "idle"
    /\ w = Engine => buffer # <<>>
    /\ IF rowLocks \/ w = Ender
       THEN holder = NoOne /\ holder' = w
       ELSE UNCHANGED holder
    /\ tx' = [tx EXCEPT ![w] = [at |-> "open", next |-> 1, tries |-> 0, todo |-> Appends(w)]]
    /\ status' = IF w = Ender THEN "over" ELSE status
    /\ UNCHANGED <<rowLocks, rows, own, bufferVars, connVars, waitVars, boundVars>>

\* The transaction starts by reading the task row FOR UPDATE.  The ender has
\* changed the row by then, so it holds the database where row locks do not exist.
Begin(w) ==
    /\ tx[w].at = "idle"
    /\ w = Engine => buffer # <<>>
    /\ IF rowLocks \/ w = Ender
       THEN holder = NoOne /\ holder' = w
       ELSE UNCHANGED holder
    /\ tx' = [tx EXCEPT ![w] = [at |-> "open", next |-> 1, tries |-> 0, todo |-> Appends(w)]]
    /\ UNCHANGED <<logVars, own, bufferVars, connVars, waitVars, boundVars>>

\* MAX(sequence) + 1 is a candidate.
ReadNext(w) ==
    /\ tx[w].at = "open"
    /\ tx' = [tx EXCEPT ![w].at = "read", ![w].next = Top(rows \cup own[w]) + 1]
    /\ UNCHANGED <<logVars, holder, own, bufferVars, connVars, waitVars, boundVars>>

Candidate(w) ==
    {[seq |-> tx[w].next + i - 1, by |-> w, n |-> Batch(w)[i]] : i \in DOMAIN Batch(w)}

NoKey(w) == FALSE   \* variant: (task_id, sequence) is not unique

\* uq_task_events_sequence.
Conflict(w) == Seqs(Candidate(w)) \cap Seqs(rows) # {}

\* The insert waits for a writer that is in its way.
MayWrite(w) == holder \in {NoOne, w}

Insert(w) ==
    /\ tx[w].at = "read"
    /\ MayWrite(w)
    /\ ~Conflict(w)
    /\ holder' = w
    /\ own' = [own EXCEPT ![w] = @ \cup Candidate(w)]
    /\ tx' = [tx EXCEPT ![w].at = IF tx[w].todo = 1 THEN "wrote" ELSE "open",
                        ![w].todo = @ - 1,
                        ![w].tries = 0]
    /\ UNCHANGED <<logVars, bufferVars, connVars, waitVars, boundVars>>

\* The savepoint is rolled back and the next candidate read; the last attempt
\* raises, and the caller's transaction is over.
Collide(w) ==
    /\ tx[w].at = "read"
    /\ MayWrite(w)
    /\ Conflict(w)
    /\ IF tx[w].tries = Retries - 1
       THEN /\ tx' = [tx EXCEPT ![w].at = "failed"]
            /\ own' = [own EXCEPT ![w] = {}]
            /\ holder' = NoOne
       ELSE /\ tx' = [tx EXCEPT ![w].at = "open", ![w].tries = @ + 1]
            /\ holder' = w
            /\ UNCHANGED own
    /\ UNCHANGED <<logVars, bufferVars, connVars, waitVars, boundVars>>

\* Events and status become visible at once.  A checkpoint that is committed
\* drops the events it wrote from the buffer; the run goes on.
Commit(w) ==
    /\ tx[w].at = "wrote"
    /\ rows' = rows \cup own[w]
    /\ status' = IF w = Ender THEN "over" ELSE status
    /\ holder' = NoOne
    /\ own' = [own EXCEPT ![w] = {}]
    /\ tx' = [tx EXCEPT ![w] = IF w = Engine THEN NoTx ELSE [NoTx EXCEPT !.at = "done"]]
    /\ buffer' = IF w = Engine THEN <<>> ELSE buffer
    /\ UNCHANGED <<rowLocks, emitted, lost, connVars, waitVars, boundVars>>

AbortDiscarding(w) ==   \* variant: the buffer is emptied before the transaction
    /\ faults < MaxFaults
    /\ tx[w].at \in {"open", "read", "wrote"}
    /\ faults' = faults + 1
    /\ tx' = [tx EXCEPT ![w] = NoTx]
    /\ own' = [own EXCEPT ![w] = {}]
    /\ holder' = IF holder = w THEN NoOne ELSE holder
    /\ buffer' = IF w = Engine THEN <<>> ELSE buffer
    /\ UNCHANGED <<logVars, emitted, lost, connVars, waitVars, errors>>

\* The database fails the transaction: nothing of it stays, and the buffer of a
\* checkpoint is kept for the next one.
Abort(w) ==
    /\ faults < MaxFaults
    /\ tx[w].at \in {"open", "read", "wrote"}
    /\ faults' = faults + 1
    /\ tx' = [tx EXCEPT ![w] = NoTx]
    /\ own' = [own EXCEPT ![w] = {}]
    /\ holder' = IF holder = w THEN NoOne ELSE holder
    /\ UNCHANGED <<logVars, bufferVars, connVars, waitVars, errors>>

\* The worker process dies: its transactions are rolled back and the events it
\* had buffered are gone.  The run goes on from its checkpoint in another one.
Crash ==
    /\ faults < MaxFaults
    /\ faults' = faults + 1
    /\ tx' = [w \in Writers |-> IF w \in {Engine, Ender} /\ tx[w].at # "done"
                                THEN NoTx ELSE tx[w]]
    /\ own' = [w \in Writers |-> IF w \in {Engine, Ender} THEN {} ELSE own[w]]
    /\ holder' = IF holder \in {Engine, Ender} THEN NoOne ELSE holder
    /\ lost' = lost \cup {buffer[i] : i \in DOMAIN buffer}
    /\ buffer' = <<>>
    /\ UNCHANGED <<logVars, emitted, connVars, waitVars, errors>>

-----------------------------------------------------------------------------
(* The stream: event_stream on the server, EventSource in the browser.     *)

ConnectAtCursor ==   \* variant: resumes where the stream was, not where the browser is
    /\ conn.at = "down"
    /\ conn' = [conn EXCEPT !.at = "status", !.seen = "live"]
    /\ UNCHANGED <<logVars, txVars, bufferVars, flight, got, waitVars, boundVars>>

\* The browser connects, or reconnects with Last-Event-ID.
Connect ==
    /\ conn.at = "down"
    /\ conn' = [at |-> "status", cursor |-> LastId, seen |-> "live"]
    /\ UNCHANGED <<logVars, txVars, bufferVars, flight, got, waitVars, boundVars>>

\* The generator reads the task first ...
ReadStatus ==
    /\ conn.at = "status"
    /\ conn' = [conn EXCEPT !.at = "events", !.seen = status]
    /\ UNCHANGED <<logVars, txVars, bufferVars, flight, got, waitVars, boundVars>>

\* ... then the events after its cursor, sends them in order, and ends when the
\* status it had read was terminal.
ReadEvents ==
    LET new == {r \in rows : r.seq > conn.cursor}
    IN  /\ conn.at = "events"
        /\ conn' = [conn EXCEPT !.at = IF conn.seen = "over" THEN "ended" ELSE "status",
                                !.cursor = Max(Seqs(new) \cup {conn.cursor})]
        /\ flight' = flight \cup new
        /\ UNCHANGED <<logVars, txVars, bufferVars, got, waitVars, boundVars>>

\* The browser takes the next event.  A terminal one makes it ask for the task.
Receive ==
    \E r \in flight :
        /\ \A s \in flight : r.seq <= s.seq
        /\ flight' = flight \ {r}
        /\ got' = Append(got, r.seq)
        /\ req' = IF IsTerminal(r) /\ req = "none" THEN "sent" ELSE req
        /\ UNCHANGED <<logVars, txVars, bufferVars, conn, wait, boundVars>>

\* onerror: what was on the way is lost; EventSource reconnects by itself, unless
\* it has given up.
Disconnect(at) ==
    /\ conn' = [conn EXCEPT !.at = at]
    /\ flight' = {}

\* The browser has read the stream to its end.
End ==
    /\ conn.at = "ended"
    /\ flight = {}
    /\ Disconnect("down")
    /\ UNCHANGED <<logVars, txVars, bufferVars, got, waitVars, boundVars>>

DropClosing ==   \* variant: onerror closes the EventSource and leaves it to the polls
    /\ faults < MaxFaults
    /\ conn.at \in {"down", "status", "events", "ended"}
    /\ faults' = faults + 1
    /\ Disconnect("shut")
    /\ UNCHANGED <<logVars, txVars, bufferVars, got, waitVars, errors>>

\* The connection breaks; or an answer other than 200 makes EventSource give up.
Drop ==
    /\ faults < MaxFaults
    /\ conn.at \in {"down", "status", "events", "ended"}
    /\ faults' = faults + 1
    /\ \E at \in {"down", "gone"} : Disconnect(at)
    /\ UNCHANGED <<logVars, txVars, bufferVars, got, waitVars, errors>>

-----------------------------------------------------------------------------
(* waitForTask.                                                            *)

\* terminalPollTimer asks for the task every 1.2 s, from the first onerror on
\* reconnectPollTimer does too, every 0.9 s.  Both handle the answer as finish
\* does, and a live one changes nothing, so one request in flight stands for all.
Tick ==
    /\ wait = "open"
    /\ req = "none"
    /\ req' = "sent"
    /\ UNCHANGED <<logVars, txVars, bufferVars, connVars, wait, boundVars>>

\* The API reads the task.
Serve ==
    /\ req = "sent"
    /\ req' = status
    /\ UNCHANGED <<logVars, txVars, bufferVars, connVars, wait, boundVars>>

\* The API is away, or answers with an error.
ServeError ==
    /\ errors < MaxErrors
    /\ req = "sent"
    /\ errors' = errors + 1
    /\ req' = "error"
    /\ UNCHANGED <<logVars, txVars, bufferVars, connVars, wait, faults>>

\* settled = true; cleanup(); and the promise is settled unless it was before.
Settle(outcome) ==
    /\ wait' = IF wait = "open" THEN outcome ELSE wait
    /\ conn' = [conn EXCEPT !.at = "shut"]
    /\ flight' = {}

AnswerOnce ==   \* variant: the flag of the request is not reset after a live answer
    /\ req \in {"over", "error"}
    /\ req' = "none"
    /\ Settle(IF req = "over" THEN "told" ELSE "rejected")
    /\ UNCHANGED <<logVars, txVars, bufferVars, got, boundVars>>

\* A live task leaves the wait open; the next tick asks again.
Answer ==
    /\ req \in {"live", "over", "error"}
    /\ req' = "none"
    /\ CASE req = "over"  -> Settle("told")
         [] req = "error" -> Settle("rejected")
         [] OTHER         -> UNCHANGED <<wait, conn, flight>>
    /\ UNCHANGED <<logVars, txVars, bufferVars, got, boundVars>>

\* The user stops, or leaves the session.
Cancel ==
    /\ wait = "open"
    /\ Settle("cancelled")
    /\ UNCHANGED <<logVars, txVars, bufferVars, got, req, boundVars>>

-----------------------------------------------------------------------------
Write(w) == Begin(w) \/ ReadNext(w) \/ Insert(w) \/ Collide(w) \/ Commit(w) \/ Abort(w)

Stream == Connect \/ ReadStatus \/ ReadEvents \/ Receive \/ End \/ Drop

Browser == Tick \/ Serve \/ ServeError \/ Answer \/ Cancel

Next ==
    \/ Emit
    \/ \E w \in Writers : Write(w)
    \/ Crash
    \/ Stream
    \/ Browser

Spec == Init /\ [][Next]_vars

\* The server answers, the browser's timers fire and its callbacks run; nothing is
\* assumed of the writers, of the user or of the connection.
FairSpec ==
    /\ Spec
    /\ WF_vars(Connect) /\ WF_vars(ReadStatus) /\ WF_vars(ReadEvents)
    /\ WF_vars(Receive) /\ WF_vars(End)
    /\ WF_vars(Tick) /\ WF_vars(Serve) /\ WF_vars(Answer)

-----------------------------------------------------------------------------
(* Properties.                                                             *)

\* The committed events of a task are numbered 1, 2, ... with no number missing
\* and none used twice, whatever order the writers of event_service.py come in.
Numbered ==
    /\ Seqs(rows) = 1..Top(rows)
    /\ \A r, s \in rows : r.seq = s.seq => r = s

\* A browser that reconnects with the last id it saw sees every number once, in
\* order: none of them is committed behind the cursor of the stream.
SeenInOrder == \A i \in DOMAIN got : got[i] = i

\* The stream ends by itself only after it has sent the terminal event: the status
\* is read before the events, so an end can never overtake the event.
EndsComplete ==
    conn.at = "ended" =>
        \E r \in rows : IsTerminal(r) /\ r.seq <= conn.cursor

\* An event of the run is in the buffer, in the log or lost with its process, in
\* one place only, and the log keeps the order they were emitted in.
EmittedOnce ==
    LET logged == {r \in rows : r.by = Engine}
        held   == {buffer[i] : i \in DOMAIN buffer}
    IN  /\ {r.n : r \in logged} \cup held \cup lost = 1..emitted
        /\ {r.n : r \in logged} \cap held = {}
        /\ \A r, s \in logged : r.n < s.n <=> r.seq < s.seq

\* No append runs out of attempts, however many transactions append at once: with
\* row locks the first candidate is free, without them the second one is.
AppendSucceeds ==
    \A w \in Writers :
        /\ tx[w].at # "failed"
        /\ rowLocks /\ tx[w].at = "read" => ~Conflict(w)

\* Once the task is over the wait is settled, even if the stream is gone for good.
WaitEnds == (status = "over") ~> (wait # "open")

\* While the wait is open and EventSource has not given up, the browser catches up
\* with the log again and again.
Delivered == []<>(wait # "open" \/ conn.at = "gone" \/ Len(got) = Cardinality(rows))

-----------------------------------------------------------------------------
(* Refinement.                                                             *)

\* The log as the sequence its numbers make it, and what the browser has seen of it.
EventAt(i) == CHOOSE r \in rows : r.seq = i
Log == [i \in 1..Top(rows) |-> EventAt(i)]
Shown == [i \in DOMAIN got |-> EventAt(got[i])]
Terminal == [seq : Nat, by : {Ender}, n : {EnderEvents}]

Feed == INSTANCE EventFeed
    WITH Final <- Terminal, log <- Log, over <- (status = "over"),
         shown <- Shown, outcome <- wait

\* Whatever the writers, connections and polls do, the browser is shown the log as it
\* was committed, event by event, and the wait is told of the end at the end.
Refines == Feed!Spec
=============================================================================
