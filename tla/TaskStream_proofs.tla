--------------------------- MODULE TaskStream_proofs ---------------------------
(***************************************************************************)
(* Theorems about TaskStream, for any number of reporters, emitted events, *)
(* faults and errors, with row locks and without.                          *)
(***************************************************************************)
EXTENDS TaskStream, TLAPS

Gapless(S) ==
    /\ \E n \in Nat : Seqs(S) = 1..n
    /\ \A r, s \in S : r.seq = s.seq => r = s

(* What one transaction has done so far.  Whoever has inserted a row holds *)
(* the task, and whoever holds it has read the number that is next.        *)
WriterOK(w) ==
    /\ tx[w].at # "failed"
    /\ tx[w].tries <= 1
    /\ holder # w => own[w] = {} /\ tx[w].tries = 0 /\ tx[w].at # "wrote"
    /\ tx[w].at \in {"idle", "done"} => holder # w
    /\ rowLocks /\ tx[w].at \in {"open", "read"} => holder = w
    /\ tx[w].at \in {"open", "read"} => tx[w].todo \in 1..Appends(w)
    /\ tx[w].at = "read" => tx[w].next \in 1..(Top(rows \cup own[w]) + 1)
    /\ tx[w].at = "read" /\ holder = w => tx[w].next = Top(rows \cup own[w]) + 1
    /\ Gapless(rows \cup own[w])
    /\ \A r \in own[w] : r.seq > Top(rows)

EnderOK ==
    tx[Ender].at = "wrote" => \E r \in own[Ender] : r.n = EnderEvents

(* A checkpoint that has written has written the buffer, in its order.     *)
EngineOK ==
    /\ tx[Engine].at \in {"open", "read"} => own[Engine] = {} /\ buffer # <<>>
    /\ tx[Engine].at = "wrote" => own[Engine] = Candidate(Engine)
    /\ \A i, j \in DOMAIN buffer : i < j => buffer[i] < buffer[j]
    /\ \A i \in DOMAIN buffer : buffer[i] \in 1..emitted
    /\ \A r \in rows, i \in DOMAIN buffer : r.by = Engine => r.n < buffer[i]

Tx == [at : {"idle", "open", "read", "wrote", "failed", "done"},
       next : Nat, tries : 0..Retries, todo : Nat]

Connected == conn.at \in {"status", "events", "ended"}

(* What the browser has seen, what is on its way and the cursor of the     *)
(* stream continue one another, and end where the log does, or before.     *)
StreamOK ==
    /\ IF Connected
       THEN Seqs(flight) = (Len(got) + 1)..conn.cursor /\ conn.cursor \in Len(got)..Top(rows)
       ELSE flight = {} /\ Len(got) <= Top(rows)
    /\ SeenInOrder

EndOK ==
    /\ status = "over" => \E r \in rows : IsTerminal(r)
    /\ conn.seen = "over" => status = "over"
    /\ EndsComplete

LogInv ==
    /\ TypeOK
    /\ Gapless(rows)
    /\ \A w \in Writers : WriterOK(w)
    /\ EnderOK
    /\ EngineOK
    /\ EmittedOnce
    /\ StreamOK
    /\ EndOK

LogVars == <<logVars, txVars, bufferVars>>

-----------------------------------------------------------------------------
(* The operators of the model.                                             *)

(* Max of a set of integers is its member that no other exceeds.           *)
LEMMA MaxIs ==
    ASSUME NEW S \in SUBSET Int, NEW m \in S, \A x \in S : x <= m
    PROVE  Max(S) = m
  <1>1. \A x \in S : (\A y \in S : x >= y) => x = m
    OBVIOUS
  <1>2. m \in S /\ \A y \in S : m >= y
    OBVIOUS
  <1>. QED BY <1>1, <1>2 DEF Max

(* Intervals, element by element. *)
LEMMA CutBelow ==
    ASSUME NEW n \in Nat, NEW c \in Nat, NEW B, \A x : x \in B <=> x \in 1..n /\ x > c
    PROVE  B = (c + 1)..n
  <1>1. \A x : x \in B <=> x \in (c + 1)..n
    OBVIOUS
  <1>. QED BY <1>1

LEMMA Joined ==
    ASSUME NEW a \in Nat, NEW c \in Nat, NEW n \in Nat, a <= c + 1, c <= n,
           NEW B, \A x : x \in B <=> x \in a..c \/ x \in (c + 1)..n
    PROVE  B = a..n
  <1>1. \A x : x \in B <=> x \in a..n
    OBVIOUS
  <1>. QED BY <1>1

LEMMA CutLeast ==
    ASSUME NEW a \in Nat, NEW c \in Nat,
           NEW B, \A x : x \in B <=> x \in a..c /\ x # a
    PROVE  B = (a + 1)..c
  <1>1. \A x : x \in B <=> x \in (a + 1)..c
    OBVIOUS
  <1>. QED BY <1>1

LEMMA Least ==
    ASSUME NEW a \in Nat, NEW c \in Nat, NEW m \in a..c, \A x \in a..c : m <= x
    PROVE  m = a
  <1>1. a \in a..c
    OBVIOUS
  <1>. QED BY <1>1

LEMMA TopIs ==
    ASSUME NEW S, NEW n \in Nat, Seqs(S) = 1..n
    PROVE  Top(S) = n
  <1>1. Seqs(S) \cup {0} \in SUBSET Int /\ n \in Seqs(S) \cup {0}
    OBVIOUS
  <1>2. \A x \in Seqs(S) \cup {0} : x <= n
    OBVIOUS
  <1>. QED BY <1>1, <1>2, MaxIs DEF Top

LEMMA GaplessTop ==
    ASSUME NEW S, Gapless(S)
    PROVE  Top(S) \in Nat /\ Seqs(S) = 1..Top(S)
  BY TopIs DEF Gapless

(* Rows numbered n + 1 to n + k after gapless ones are gapless with them.  *)
LEMMA GaplessUnion ==
    ASSUME NEW S, Gapless(S), NEW T, NEW k \in Nat,
           Seqs(T) = (Top(S) + 1)..(Top(S) + k),
           \A r, s \in T : r.seq = s.seq => r = s
    PROVE  Gapless(S \cup T) /\ Top(S \cup T) = Top(S) + k
  <1>1. Top(S) \in Nat /\ Seqs(S) = 1..Top(S)
    BY GaplessTop
  <1>2. Seqs(S \cup T) = Seqs(S) \cup Seqs(T)
    <2>1. \A x : x \in Seqs(S \cup T) <=> \E r \in S \cup T : x = r.seq
      BY DEF Seqs
    <2>2. \A x : x \in Seqs(S) \cup Seqs(T) <=> \E r \in S \cup T : x = r.seq
      BY DEF Seqs
    <2>. QED BY <2>1, <2>2
  <1>3. Seqs(S \cup T) = 1..(Top(S) + k)
    <2>1. ASSUME NEW m \in Nat PROVE (1..m) \cup ((m + 1)..(m + k)) = 1..(m + k)
      OBVIOUS
    <2>. QED BY <1>1, <1>2, <2>1
  <1>4. ASSUME NEW r \in S, NEW s \in T PROVE r.seq # s.seq
    <2>1. r.seq \in Seqs(S) /\ s.seq \in Seqs(T)
      BY DEF Seqs
    <2>. QED BY <2>1, <1>1
  <1>5. \A r, s \in S \cup T : r.seq = s.seq => r = s
    BY <1>4 DEF Gapless
  <1>. QED BY <1>1, <1>3, <1>5, TopIs DEF Gapless

(* The rows one insert adds are numbered from next on.                     *)
LEMMA CandidateSeqs ==
    ASSUME NEW w \in Writers, tx[w].next \in Nat, NEW k \in Nat,
           DOMAIN Batch(w) = 1..k
    PROVE  /\ Seqs(Candidate(w)) = tx[w].next..(tx[w].next + k - 1)
           /\ \A r, s \in Candidate(w) : r.seq = s.seq => r = s
           /\ \A r \in Candidate(w) : r.by = w
  <1>. DEFINE next == tx[w].next
              row(i) == [seq |-> next + i - 1, by |-> w, n |-> Batch(w)[i]]
  <1>1. Candidate(w) = {row(i) : i \in 1..k}
    BY DEF Candidate
  <1>2. \A i \in 1..k : row(i).seq = next + i - 1 /\ row(i).by = w
    OBVIOUS
  <1>3. Seqs(Candidate(w)) = {next + i - 1 : i \in 1..k}
    <2>1. \A x : x \in Seqs(Candidate(w)) <=> \E i \in 1..k : x = row(i).seq
      BY <1>1 DEF Seqs
    <2>. QED BY <2>1, <1>2
  <1>4. {next + i - 1 : i \in 1..k} = next..(next + k - 1)
    <2>1. ASSUME NEW x \in next..(next + k - 1)
          PROVE  x \in {next + i - 1 : i \in 1..k}
      <3>1. x - next + 1 \in 1..k /\ x = next + (x - next + 1) - 1
        OBVIOUS
      <3>. QED BY <3>1
    <2>. QED BY <2>1
  <1>5. \A i, j \in 1..k : row(i).seq = row(j).seq => row(i) = row(j)
    BY <1>2
  <1>. QED BY <1>1, <1>2, <1>3, <1>4, <1>5

-----------------------------------------------------------------------------
LEMMA WritersAre == Engine \in Writers /\ Ender \in Writers /\ Engine # Ender
                    /\ NoOne \notin Writers
  BY StreamAssumption DEF Writers

LEMMA TxType == LogInv => tx \in [Writers -> Tx]
  BY DEF LogInv, TypeOK, Tx

LEMMA Bounded ==
    LogInv => /\ faults \in 0..MaxFaults /\ MaxFaults \in Nat
              /\ errors \in 0..MaxErrors /\ MaxErrors \in Nat
  BY StreamAssumption DEF LogInv, TypeOK

LEMMA InitInv == Init => LogInv
  <1>. SUFFICES ASSUME Init PROVE LogInv
    OBVIOUS
  <1>1. Seqs({}) = 1..0
    BY DEF Seqs
  <1>2. Gapless(rows) /\ Top(rows) = 0
    BY <1>1, TopIs DEF Init, Gapless
  <1>3. \A w \in Writers : rows \cup own[w] = rows
    BY DEF Init
  <1>4. TypeOK
    BY StreamAssumption DEF Init, TypeOK, NoTx, Retries
  <1>5. \A w \in Writers : WriterOK(w)
    BY <1>2, <1>3, WritersAre DEF Init, WriterOK, NoTx
  <1>6. EnderOK /\ EngineOK
    BY WritersAre DEF Init, EnderOK, EngineOK, NoTx
  <1>7. EmittedOnce
    BY DEF Init, EmittedOnce
  <1>8. StreamOK /\ EndOK
    BY <1>2 DEF Init, StreamOK, EndOK, Connected, SeenInOrder, EndsComplete
  <1>. QED BY <1>2, <1>4, <1>5, <1>6, <1>7, <1>8 DEF LogInv

(* The log side of the invariant is untouched by the stream and the browser *)
LEMMA LogFrame ==
    ASSUME LogInv, UNCHANGED LogVars
    PROVE  /\ Gapless(rows)'
           /\ \A w \in Writers : WriterOK(w)'
           /\ EnderOK' /\ EngineOK' /\ EmittedOnce'
  <1>. USE DEF LogVars, logVars, txVars, bufferVars
  <1>1. rows' = rows /\ own' = own /\ tx' = tx /\ holder' = holder /\ buffer' = buffer
        /\ rowLocks' = rowLocks /\ emitted' = emitted /\ lost' = lost
    OBVIOUS
  <1>2. Gapless(rows)'
    BY <1>1 DEF LogInv
  <1>3. \A w \in Writers : WriterOK(w)'
    <2>1. ASSUME NEW w \in Writers PROVE WriterOK(w) => WriterOK(w)'
      BY <1>1 DEF WriterOK, Gapless, Top, Seqs
    <2>. QED BY <2>1 DEF LogInv
  <1>4. EnderOK' /\ EngineOK'
    BY <1>1 DEF LogInv, EnderOK, EngineOK, Candidate, Batch
  <1>5. EmittedOnce'
    BY <1>1 DEF LogInv, EmittedOnce
  <1>. QED BY <1>2, <1>3, <1>4, <1>5

LEMMA StreamFrame ==
    ASSUME LogInv, UNCHANGED <<rows, status, connVars>>
    PROVE  StreamOK' /\ EndOK'
  BY DEF LogInv, connVars, StreamOK, EndOK, Connected, SeenInOrder, EndsComplete

(* A transaction is not disturbed by what another one does to itself.      *)
LEMMA OtherWriter ==
    ASSUME NEW v \in Writers, WriterOK(v), rows' = rows, rowLocks' = rowLocks,
           own'[v] = own[v], tx'[v] = tx[v], holder' = v <=> holder = v
    PROVE  WriterOK(v)'
  BY DEF WriterOK, Gapless, Top, Seqs

-----------------------------------------------------------------------------
(* The writers.                                                            *)

LEMMA EmitInv == LogInv /\ Emit => LogInv'
  <1>. SUFFICES ASSUME LogInv, Emit PROVE LogInv'
    OBVIOUS
  <1>. USE DEF logVars, txVars, connVars, waitVars, boundVars
  <1>1. /\ rows' = rows /\ own' = own /\ tx' = tx /\ holder' = holder
        /\ rowLocks' = rowLocks /\ lost' = lost /\ status' = status
        /\ emitted' = emitted + 1 /\ buffer' = Append(buffer, emitted + 1)
        /\ emitted < MaxEmit /\ tx[Engine].at = "idle"
    BY DEF Emit
  <1>2. buffer \in Seq(1..MaxEmit) /\ emitted \in 0..MaxEmit /\ MaxEmit \in Nat
    BY StreamAssumption DEF LogInv, TypeOK
  <1>3. buffer' \in Seq(1..MaxEmit) /\ emitted' \in 0..MaxEmit
    BY <1>1, <1>2
  <1>4. /\ DOMAIN buffer' = DOMAIN buffer \cup {Len(buffer) + 1}
        /\ \A i \in DOMAIN buffer : buffer'[i] = buffer[i] /\ i < Len(buffer) + 1
        /\ buffer'[Len(buffer) + 1] = emitted + 1
    BY <1>1, <1>2
  <1>5. TypeOK'
    BY <1>1, <1>3 DEF LogInv, TypeOK, Emit
  <1>6. Gapless(rows)' /\ \A w \in Writers : WriterOK(w)'
    BY <1>1, OtherWriter DEF LogInv
  <1>7. EnderOK'
    BY <1>1 DEF LogInv, EnderOK
  <1>8. \A r \in rows : r.by = Engine => r.n \in 1..emitted
    BY DEF LogInv, EmittedOnce
  <1>9. EngineOK'
    BY <1>1, <1>2, <1>4, <1>8 DEF LogInv, EngineOK
  <1>10. EmittedOnce'
    <2>1. {buffer'[j] : j \in DOMAIN buffer'} = {buffer[j] : j \in DOMAIN buffer} \cup {emitted + 1}
      BY <1>4
    <2>2. 1..(emitted + 1) = (1..emitted) \cup {emitted + 1}
      BY <1>2
    <2>. DEFINE logged == {r \in rows : r.by = Engine}
                held == {buffer[j] : j \in DOMAIN buffer}
                ns == {r.n : r \in logged}
    <2>3. /\ ns \cup held \cup lost = 1..emitted /\ ns \cap held = {}
          /\ \A r, s \in logged : r.n < s.n <=> r.seq < s.seq
      BY DEF LogInv, EmittedOnce
    <2>4. emitted + 1 \notin ns
      BY <1>2, <2>3
    <2>5. ns \cup (held \cup {emitted + 1}) \cup lost = 1..(emitted + 1)
      BY <2>2, <2>3
    <2>6. ns \cap (held \cup {emitted + 1}) = {}
      BY <2>3, <2>4
    <2>. QED BY <1>1, <2>1, <2>3, <2>5, <2>6 DEF EmittedOnce
  <1>11. StreamOK' /\ EndOK'
    BY <1>1, StreamFrame DEF Emit
  <1>. QED BY <1>5, <1>6, <1>7, <1>9, <1>10, <1>11 DEF LogInv

(* A step of w that touches neither the log nor the buffer.                *)
OwnStep(w) ==
    /\ UNCHANGED <<logVars, bufferVars, connVars>>
    /\ \A v \in Writers \ {w} : own'[v] = own[v] /\ tx'[v] = tx[v]
    /\ holder' = holder \/ {holder, holder'} \subseteq {w, NoOne}

OwnTyped(w) == \A r \in own[w] : r.seq \in Nat /\ r.by = w /\ r.n \in Nat

LEMMA OwnStepType ==
    ASSUME LogInv, NEW w \in Writers, OwnStep(w), UNCHANGED <<waitVars, errors>>,
           faults' \in 0..MaxFaults, holder' \in {holder, w, NoOne},
           tx' \in [Writers -> Tx], DOMAIN own' = Writers, OwnTyped(w)'
    PROVE  TypeOK'
  <1>1. \A v \in Writers : OwnTyped(v)'
    BY DEF OwnStep, OwnTyped, LogInv, TypeOK
  <1>2. holder' \in Writers \cup {NoOne}
    BY DEF LogInv, TypeOK
  <1>3. /\ rowLocks' = rowLocks /\ rows' = rows /\ status' = status
        /\ buffer' = buffer /\ emitted' = emitted /\ lost' = lost
        /\ conn' = conn /\ flight' = flight /\ got' = got
        /\ wait' = wait /\ req' = req /\ errors' = errors
    BY DEF OwnStep, logVars, bufferVars, connVars, waitVars
  <1>. QED BY <1>1, <1>2, <1>3 DEF LogInv, TypeOK, Tx, OwnTyped

LEMMA OwnStepInv ==
    ASSUME LogInv, NEW w \in Writers, OwnStep(w), TypeOK', WriterOK(w)',
           w = Ender => EnderOK', w = Engine => EngineOK'
    PROVE  LogInv'
  <1>. USE DEF logVars, bufferVars
  <1>1. /\ rows' = rows /\ rowLocks' = rowLocks /\ status' = status
        /\ buffer' = buffer /\ emitted' = emitted /\ lost' = lost
    BY DEF OwnStep
  <1>2. \A v \in Writers : WriterOK(v)'
    BY <1>1, OtherWriter, WritersAre DEF LogInv, OwnStep
  <1>3. EnderOK'
    BY WritersAre DEF LogInv, OwnStep, EnderOK
  <1>4. EngineOK'
    BY <1>1, WritersAre DEF LogInv, OwnStep, EngineOK, Candidate, Batch
  <1>5. Gapless(rows)' /\ EmittedOnce'
    BY <1>1 DEF LogInv, EmittedOnce
  <1>6. StreamOK' /\ EndOK'
    BY <1>1, StreamFrame DEF OwnStep
  <1>. QED BY <1>2, <1>3, <1>4, <1>5, <1>6 DEF LogInv

LEMMA BeginInv == ASSUME NEW w \in Writers, LogInv, Begin(w) PROVE LogInv'
  <1>. USE WritersAre
  <1>. DEFINE t == [at |-> "open", next |-> 1, tries |-> 0, todo |-> Appends(w)]
  <1>1. tx' = [tx EXCEPT ![w] = t] /\ own' = own
    BY DEF Begin
  <1>2. t.at = "open" /\ t.next = 1 /\ t.tries = 0 /\ t.todo = Appends(w)
    OBVIOUS
  <1>a. t \in Tx
    <2>1. Appends(w) \in Nat /\ 0 \in 0..Retries
      BY DEF Appends, EnderEvents, Retries
    <2>. QED BY <2>1 DEF Tx
  <1>. HIDE DEF t
  <1>3. tx'[w] = t /\ \A v \in Writers \ {w} : tx'[v] = tx[v]
    BY <1>1 DEF LogInv, TypeOK
  <1>4. OwnStep(w)
    BY <1>1, <1>3 DEF Begin, OwnStep
  <1>5. TypeOK'
    <2>1. tx' \in [Writers -> Tx]
      BY <1>1, <1>a, TxType
    <2>2. holder' \in Writers \cup {NoOne}
      BY DEF LogInv, TypeOK, Begin
    <2>. QED BY <1>1, <2>1, <2>2 DEF LogInv, TypeOK, Tx, Begin, logVars, bufferVars, connVars,
                                     waitVars, boundVars
  <1>6. own[w] = {} /\ holder # w
    BY DEF LogInv, WriterOK, Begin
  <1>7. rows' = rows /\ rowLocks' = rowLocks /\ buffer' = buffer
    BY DEF Begin, logVars, bufferVars
  <1>8. Appends(w) \in Nat \ {0}
    BY DEF Appends, EnderEvents
  <1>9. WriterOK(w)'
    <2>1. rows' \cup own'[w] = rows
      BY <1>1, <1>6, <1>7
    <2>2. Gapless(rows' \cup own'[w])
      BY <2>1 DEF LogInv
    <2>3. rowLocks' => holder' = w
      BY <1>7 DEF Begin
    <2>. QED BY <1>1, <1>2, <1>3, <1>6, <1>8, <2>2, <2>3 DEF WriterOK, Gapless, Top, Seqs
  <1>10. w = Ender => EnderOK'
    BY <1>2, <1>3 DEF EnderOK
  <1>11. w = Engine => EngineOK'
    BY <1>1, <1>2, <1>3, <1>6, <1>7 DEF LogInv, EngineOK, Begin, bufferVars
  <1>. QED BY <1>4, <1>5, <1>9, <1>10, <1>11, OwnStepInv

LEMMA ReadNextInv == ASSUME NEW w \in Writers, LogInv, ReadNext(w) PROVE LogInv'
  <1>. USE WritersAre
  <1>. DEFINE next == Top(rows \cup own[w]) + 1
  <1>1. /\ tx[w].at = "open" /\ own' = own /\ holder' = holder
        /\ tx' = [tx EXCEPT ![w].at = "read", ![w].next = next]
    BY DEF ReadNext
  <1>2. next \in Nat \ {0}
    <2>1. Gapless(rows \cup own[w])
      BY DEF LogInv, WriterOK
    <2>. QED BY <2>1, GaplessTop
  <1>. HIDE DEF next
  <1>3. /\ tx'[w].at = "read" /\ tx'[w].next = next
        /\ tx'[w].tries = tx[w].tries /\ tx'[w].todo = tx[w].todo
        /\ \A v \in Writers \ {w} : tx'[v] = tx[v]
    BY <1>1 DEF LogInv, TypeOK
  <1>4. OwnStep(w)
    BY <1>1, <1>3 DEF ReadNext, OwnStep
  <1>5. TypeOK'
    <2>1. tx' \in [Writers -> Tx]
      BY <1>1, <1>2, TxType DEF Tx
    <2>. QED BY <1>1, <2>1 DEF LogInv, TypeOK, Tx, ReadNext, logVars, bufferVars, connVars,
                               waitVars, boundVars
  <1>6. rows' = rows /\ rowLocks' = rowLocks /\ buffer' = buffer
    BY DEF ReadNext, logVars, bufferVars
  <1>7. next = Top(rows' \cup own'[w]) + 1
    BY <1>1, <1>6 DEF next
  <1>8. WriterOK(w)'
    <2>1. /\ tx[w].tries <= 1 /\ (rowLocks => holder = w)
          /\ holder # w => own[w] = {} /\ tx[w].tries = 0
          /\ tx[w].todo \in 1..Appends(w)
          /\ Gapless(rows \cup own[w]) /\ \A r \in own[w] : r.seq > Top(rows)
      BY <1>1 DEF LogInv, WriterOK
    <2>2. Gapless(rows' \cup own'[w]) /\ \A r \in own'[w] : r.seq > Top(rows')
      BY <2>1, <1>1, <1>6
    <2>. QED BY <1>1, <1>2, <1>3, <1>6, <1>7, <2>1, <2>2 DEF WriterOK, Gapless, Top, Seqs
  <1>9. w = Ender => EnderOK'
    BY <1>3 DEF EnderOK
  <1>10. w = Engine => EngineOK'
    BY <1>1, <1>3, <1>6 DEF LogInv, EngineOK, ReadNext, bufferVars
  <1>. QED BY <1>4, <1>5, <1>8, <1>9, <1>10, OwnStepInv

(* One event, or the whole buffer of the run.                              *)
LEMMA BatchSize ==
    ASSUME NEW w \in Writers, LogInv, tx[w].at = "read"
    PROVE  \E k \in Nat \ {0} :
              /\ DOMAIN Batch(w) = 1..k
              /\ \A i \in 1..k : Batch(w)[i] \in Nat
  <1>1. CASE w = Engine
    <2>1. Batch(w) = buffer /\ buffer \in Seq(1..MaxEmit) /\ buffer # <<>>
      BY <1>1 DEF Batch, LogInv, TypeOK, EngineOK
    <2>2. Len(buffer) \in Nat \ {0} /\ DOMAIN buffer = 1..Len(buffer)
      BY <2>1
    <2>3. \A i \in 1..Len(buffer) : buffer[i] \in Nat
      BY <2>1, <2>2, StreamAssumption
    <2>. QED BY <2>1, <2>2, <2>3
  <1>2. CASE w # Engine
    <2>1. tx[w].todo \in 1..Appends(w) /\ Appends(w) \in Nat
      BY DEF LogInv, WriterOK, Appends, EnderEvents
    <2>2. Batch(w) = <<Appends(w) - tx[w].todo + 1>>
      BY <1>2 DEF Batch
    <2>. QED BY <2>1, <2>2
  <1>. QED BY <1>1, <1>2

(* Without a conflict the first free number has been read.                 *)
LEMMA InsertedNext ==
    ASSUME NEW w \in Writers, LogInv, Insert(w)
    PROVE  /\ Gapless(rows \cup own[w] \cup Candidate(w))
           /\ tx[w].next = Top(rows \cup own[w]) + 1
           /\ \A r \in Candidate(w) : r.seq > Top(rows) /\ r.seq \in Nat /\ r.n \in Nat
                                      /\ r.by = w
  <1>. DEFINE S == rows \cup own[w]
              next == tx[w].next
  <1>1. tx[w].at = "read" /\ MayWrite(w) /\ ~Conflict(w)
    BY DEF Insert
  <1>2. PICK k \in Nat \ {0} : DOMAIN Batch(w) = 1..k /\ \A i \in 1..k : Batch(w)[i] \in Nat
    BY <1>1, BatchSize
  <1>3. next \in Nat
    BY DEF LogInv, TypeOK
  <1>4. /\ Seqs(Candidate(w)) = next..(next + k - 1)
        /\ \A r, s \in Candidate(w) : r.seq = s.seq => r = s
        /\ \A r \in Candidate(w) : r.by = w
    BY <1>2, <1>3, CandidateSeqs
  <1>5. Gapless(rows) /\ Gapless(S) /\ next \in 1..(Top(S) + 1)
        /\ (holder = w => next = Top(S) + 1) /\ (holder # w => own[w] = {})
    BY <1>1 DEF LogInv, WriterOK
  <1>6. /\ Top(rows) \in Nat /\ Seqs(rows) = 1..Top(rows)
        /\ Top(S) \in Nat /\ Seqs(S) = 1..Top(S)
    BY <1>5, GaplessTop
  <1>7. Top(rows) <= Top(S)
    <2>1. \A x \in Seqs(rows) : x \in Seqs(S)
      BY DEF Seqs
    <2>2. Top(rows) = 0 \/ Top(rows) \in Seqs(rows)
      BY <1>6
    <2>. HIDE DEF S
    <2>. QED BY <2>1, <2>2, <1>6
  <1>8. next = Top(S) + 1
    <2>1. CASE holder = w
      BY <2>1, <1>5
    <2>2. CASE holder # w
      <3>1. S = rows
        BY <2>2, <1>5
      <3>2. next \in Seqs(Candidate(w))
        BY <1>2, <1>3, <1>4
      <3>3. next \notin Seqs(rows)
        BY <1>1, <3>2 DEF Conflict
      <3>. HIDE DEF S, next
      <3>. QED BY <3>1, <3>3, <1>5, <1>6
    <2>. QED BY <2>1, <2>2
  <1>9. Gapless(S \cup Candidate(w))
    BY <1>2, <1>4, <1>5, <1>6, <1>8, GaplessUnion
  <1>10. ASSUME NEW r \in Candidate(w)
         PROVE  r.seq > Top(rows) /\ r.seq \in Nat /\ r.n \in Nat
    <2>1. r.seq \in Seqs(Candidate(w))
      BY DEF Seqs
    <2>2. PICK i \in 1..k : r = [seq |-> next + i - 1, by |-> w, n |-> Batch(w)[i]]
      BY <1>2 DEF Candidate
    <2>. QED BY <2>1, <2>2, <1>2, <1>3, <1>4, <1>6, <1>7, <1>8
  <1>. QED BY <1>4, <1>8, <1>9, <1>10

LEMMA InsertInv == ASSUME NEW w \in Writers, LogInv, Insert(w) PROVE LogInv'
  <1>. USE WritersAre
  <1>. DEFINE at == IF tx[w].todo = 1 THEN "wrote" ELSE "open"
  <1>1. /\ tx[w].at = "read" /\ holder \in {NoOne, w} /\ holder' = w
        /\ own' = [own EXCEPT ![w] = @ \cup Candidate(w)]
        /\ tx' = [tx EXCEPT ![w].at = at, ![w].todo = @ - 1, ![w].tries = 0]
    BY DEF Insert, MayWrite
  <1>2. tx \in [Writers -> Tx] /\ DOMAIN own = Writers
    BY TxType DEF LogInv, TypeOK
  <1>3. tx[w].todo \in 1..Appends(w) /\ Appends(w) \in Nat
    BY <1>1 DEF LogInv, WriterOK, Appends, EnderEvents
  <1>4. /\ tx'[w].at = at /\ tx'[w].todo = tx[w].todo - 1 /\ tx'[w].tries = 0
        /\ tx'[w].next = tx[w].next
        /\ \A v \in Writers \ {w} : tx'[v] = tx[v]
    BY <1>1, <1>2 DEF Tx
  <1>5. /\ own'[w] = own[w] \cup Candidate(w)
        /\ \A v \in Writers \ {w} : own'[v] = own[v]
    BY <1>1, <1>2
  <1>6. OwnStep(w)
    BY <1>1, <1>4, <1>5 DEF Insert, OwnStep
  <1>7. rows' = rows /\ rowLocks' = rowLocks /\ buffer' = buffer
    BY DEF Insert, logVars, bufferVars
  <1>8. TypeOK'
    <2>1. tx' \in [Writers -> Tx]
      <3>1. at \in {"wrote", "open"} /\ tx[w].todo - 1 \in Nat /\ 0 \in 0..Retries
        BY <1>3 DEF Retries
      <3>. HIDE DEF at
      <3>. QED BY <1>1, <1>2, <3>1 DEF Tx
    <2>2. DOMAIN own' = Writers
      BY <1>1, <1>2
    <2>3. OwnTyped(w)'
      <3>1. OwnTyped(w)
        BY DEF LogInv, TypeOK, OwnTyped
      <3>2. \A r \in Candidate(w) : r.seq \in Nat /\ r.by = w /\ r.n \in Nat
        BY InsertedNext
      <3>. QED BY <1>5, <3>1, <3>2 DEF OwnTyped
    <2>4. UNCHANGED <<waitVars, errors>> /\ faults' \in 0..MaxFaults
      BY DEF Insert, boundVars, LogInv, TypeOK
    <2>. QED BY <1>1, <1>6, <2>1, <2>2, <2>3, <2>4, OwnStepType
  <1>9. WriterOK(w)'
    <2>1. rows' \cup own'[w] = rows \cup own[w] \cup Candidate(w)
      BY <1>5, <1>7
    <2>2. Gapless(rows' \cup own'[w])
      BY <2>1, InsertedNext
    <2>3. \A r \in own'[w] : r.seq > Top(rows')
      BY <1>5, <1>7, InsertedNext DEF LogInv, WriterOK
    <2>4. at \in {"wrote", "open"} /\ (at = "open" => tx[w].todo - 1 \in 1..Appends(w))
      BY <1>3
    <2>. HIDE DEF at
    <2>. QED BY <1>1, <1>4, <2>2, <2>3, <2>4 DEF WriterOK, Gapless, Top, Seqs
  <1>10. w = Ender => EnderOK'
    <2>. SUFFICES ASSUME w = Ender, tx[w].todo = 1
                  PROVE  \E r \in own'[w] : r.n = EnderEvents
      BY <1>4 DEF EnderOK
    <2>1. Batch(w) = <<EnderEvents>>
      BY DEF Batch, Appends, EnderEvents
    <2>2. [seq |-> tx[w].next + 1 - 1, by |-> w, n |-> EnderEvents] \in Candidate(w)
      BY <2>1 DEF Candidate
    <2>. QED BY <2>2, <1>5
  <1>11. w = Engine => EngineOK'
    <2>. SUFFICES ASSUME w = Engine PROVE EngineOK'
      OBVIOUS
    <2>1. tx[w].todo = 1 /\ own[w] = {}
      BY <1>1, <1>3 DEF LogInv, EngineOK, Appends
    <2>2. Candidate(w)' = Candidate(w)
      BY <1>4, <1>7 DEF Candidate, Batch
    <2>. QED BY <1>4, <1>5, <1>7, <2>1, <2>2 DEF LogInv, EngineOK, Insert, bufferVars
  <1>. QED BY <1>6, <1>8, <1>9, <1>10, <1>11, OwnStepInv

(* Whoever holds the task never meets its number taken.                    *)
LEMMA HolderFree ==
    ASSUME NEW w \in Writers, LogInv, tx[w].at = "read", holder = w
    PROVE  ~Conflict(w)
  <1>. DEFINE S == rows \cup own[w]
  <1>1. PICK k \in Nat \ {0} : DOMAIN Batch(w) = 1..k
    BY BatchSize
  <1>2. tx[w].next \in Nat /\ tx[w].next = Top(S) + 1 /\ Gapless(S)
    BY DEF LogInv, TypeOK, WriterOK
  <1>3. Seqs(Candidate(w)) = tx[w].next..(tx[w].next + k - 1)
    BY <1>1, <1>2, CandidateSeqs
  <1>4. Top(S) \in Nat /\ Seqs(S) = 1..Top(S)
    BY <1>2, GaplessTop
  <1>5. \A x \in Seqs(rows) : x \in Seqs(S)
    BY DEF Seqs
  <1>. HIDE DEF S
  <1>. QED BY <1>2, <1>3, <1>4, <1>5 DEF Conflict

LEMMA CollideInv == ASSUME NEW w \in Writers, LogInv, Collide(w) PROVE LogInv'
  <1>. USE WritersAre
  <1>1. tx[w].at = "read" /\ holder # w /\ holder = NoOne
    BY HolderFree DEF Collide, MayWrite
  <1>2. own[w] = {} /\ tx[w].tries = 0 /\ ~rowLocks
    BY <1>1 DEF LogInv, WriterOK
  <1>3. /\ tx' = [tx EXCEPT ![w].at = "open", ![w].tries = @ + 1]
        /\ holder' = w /\ own' = own
    BY <1>2 DEF Collide, Retries
  <1>4. /\ tx'[w].at = "open" /\ tx'[w].tries = 1 /\ tx'[w].todo = tx[w].todo
        /\ \A v \in Writers \ {w} : tx'[v] = tx[v]
    BY <1>2, <1>3, TxType DEF Tx
  <1>5. OwnStep(w)
    BY <1>1, <1>3, <1>4 DEF Collide, OwnStep
  <1>6. rows' = rows /\ rowLocks' = rowLocks /\ buffer' = buffer
    BY DEF Collide, logVars, bufferVars
  <1>7. TypeOK'
    <2>1. tx' \in [Writers -> Tx]
      BY <1>2, <1>3, TxType DEF Tx, Retries
    <2>. QED BY <1>3, <2>1 DEF LogInv, TypeOK, Tx, Collide, logVars, bufferVars, connVars,
                               waitVars, boundVars
  <1>8. WriterOK(w)'
    <2>1. tx[w].todo \in 1..Appends(w) /\ Gapless(rows)
      BY <1>1 DEF LogInv, WriterOK
    <2>2. rows' \cup own'[w] = rows
      BY <1>2, <1>3, <1>6
    <2>3. Gapless(rows' \cup own'[w])
      BY <2>1, <2>2
    <2>. QED BY <1>2, <1>3, <1>4, <2>1, <2>3 DEF WriterOK, Gapless, Top, Seqs
  <1>9. w = Ender => EnderOK'
    BY <1>4 DEF EnderOK
  <1>10. w = Engine => EngineOK'
    BY <1>1, <1>3, <1>4, <1>6 DEF LogInv, EngineOK, Collide, bufferVars
  <1>. QED BY <1>5, <1>7, <1>8, <1>9, <1>10, OwnStepInv

LEMMA AbortInv == ASSUME NEW w \in Writers, LogInv, Abort(w) PROVE LogInv'
  <1>. USE WritersAre
  <1>1. /\ tx' = [tx EXCEPT ![w] = NoTx] /\ own' = [own EXCEPT ![w] = {}]
        /\ holder' = IF holder = w THEN NoOne ELSE holder
    BY DEF Abort
  <1>2. /\ tx'[w] = NoTx /\ \A v \in Writers \ {w} : tx'[v] = tx[v]
        /\ own'[w] = {} /\ \A v \in Writers \ {w} : own'[v] = own[v]
    BY <1>1, TxType DEF LogInv, TypeOK
  <1>3. NoTx.at = "idle" /\ NoTx.tries = 0 /\ NoTx \in Tx
    BY DEF NoTx, Tx, Retries
  <1>4. OwnStep(w)
    BY <1>1, <1>2 DEF Abort, OwnStep
  <1>5. rows' = rows /\ rowLocks' = rowLocks /\ buffer' = buffer
    BY DEF Abort, logVars, bufferVars
  <1>6. TypeOK'
    <2>1. tx' \in [Writers -> Tx] /\ DOMAIN own' = Writers
      BY <1>1, <1>3, TxType DEF LogInv, TypeOK
    <2>2. faults' \in 0..MaxFaults
      BY Bounded DEF Abort
    <2>3. OwnTyped(w)'
      BY <1>2 DEF OwnTyped
    <2>4. UNCHANGED <<waitVars, errors>> /\ holder' \in {holder, NoOne}
      BY <1>1 DEF Abort
    <2>. QED BY <1>4, <2>1, <2>2, <2>3, <2>4, OwnStepType
  <1>7. WriterOK(w)'
    <2>1. rows' \cup own'[w] = rows /\ holder' # w
      BY <1>1, <1>2, <1>5
    <2>2. Gapless(rows' \cup own'[w])
      BY <2>1 DEF LogInv
    <2>. QED BY <1>2, <1>3, <2>1, <2>2 DEF WriterOK, Gapless, Top, Seqs
  <1>8. w = Ender => EnderOK'
    BY <1>2, <1>3 DEF EnderOK
  <1>9. w = Engine => EngineOK'
    BY <1>2, <1>3, <1>5 DEF LogInv, EngineOK, Abort, bufferVars
  <1>. QED BY <1>4, <1>6, <1>7, <1>8, <1>9, OwnStepInv

(* What a commit of w leaves: its rows are the end of the log.             *)
LEMMA Committed ==
    ASSUME NEW w \in Writers, LogInv, Commit(w)
    PROVE  /\ holder = w /\ rows' = rows \cup own[w]
           /\ own'[w] = {} /\ tx'[w].at \in {"idle", "done"} /\ tx'[w].tries = 0
           /\ \A v \in Writers \ {w} : /\ own[v] = {} /\ own'[v] = {}
                                        /\ tx'[v] = tx[v] /\ tx[v].at # "wrote"
           /\ tx' \in [Writers -> Tx] /\ DOMAIN own' = Writers
           /\ Gapless(rows') /\ Top(rows') >= Top(rows)
  <1>1. /\ tx[w].at = "wrote" /\ rows' = rows \cup own[w] /\ own' = [own EXCEPT ![w] = {}]
        /\ tx' = [tx EXCEPT ![w] = IF w = Engine THEN NoTx ELSE [NoTx EXCEPT !.at = "done"]]
    BY DEF Commit
  <1>2. holder = w /\ Gapless(rows \cup own[w]) /\ Gapless(rows)
    BY <1>1 DEF LogInv, WriterOK
  <1>3. NoTx \in Tx /\ [NoTx EXCEPT !.at = "done"] \in Tx
    BY DEF NoTx, Tx, Retries
  <1>4. tx' \in [Writers -> Tx] /\ DOMAIN own' = Writers /\ own'[w] = {}
    BY <1>1, <1>3, TxType DEF LogInv, TypeOK
  <1>5. tx'[w].at \in {"idle", "done"} /\ tx'[w].tries = 0
    BY <1>1, TxType DEF NoTx
  <1>6. ASSUME NEW v \in Writers \ {w}
        PROVE  own[v] = {} /\ own'[v] = {} /\ tx'[v] = tx[v] /\ tx[v].at # "wrote"
    BY <1>1, <1>2, TxType DEF LogInv, TypeOK, WriterOK
  <1>7. Top(rows') >= Top(rows)
    <2>1. /\ Top(rows) \in Nat /\ Seqs(rows) = 1..Top(rows)
          /\ Top(rows') \in Nat /\ Seqs(rows') = 1..Top(rows')
      BY <1>1, <1>2, GaplessTop
    <2>2. \A x \in Seqs(rows) : x \in Seqs(rows')
      BY <1>1 DEF Seqs
    <2>3. Top(rows) = 0 \/ Top(rows) \in Seqs(rows)
      BY <2>1
    <2>. QED BY <2>1, <2>2, <2>3
  <1>. QED BY <1>1, <1>2, <1>4, <1>5, <1>6, <1>7

LEMMA CommitEmitted ==
    ASSUME NEW w \in Writers, LogInv, Commit(w)
    PROVE  EngineOK' /\ EmittedOnce'
  <1>. USE WritersAre
  <1>. DEFINE logged == {r \in rows : r.by = Engine}
              held == {buffer[i] : i \in DOMAIN buffer}
              ns == {r.n : r \in logged}
  <1>1. emitted' = emitted /\ lost' = lost /\ rows' = rows \cup own[w]
    BY Committed DEF Commit
  <1>2. /\ ns \cup held \cup lost = 1..emitted /\ ns \cap held = {}
        /\ \A r, s \in logged : r.n < s.n <=> r.seq < s.seq
    BY DEF LogInv, EmittedOnce
  <1>3. CASE w # Engine
    <2>1. buffer' = buffer
      BY <1>3 DEF Commit
    <2>2. {r \in rows' : r.by = Engine} = logged
      BY <1>1, <1>3 DEF LogInv, TypeOK
    <2>3. EmittedOnce'
      BY <1>1, <1>2, <2>1, <2>2 DEF EmittedOnce
    <2>4. \A r \in rows', i \in DOMAIN buffer : r.by = Engine => r.n < buffer[i]
      BY <2>2 DEF LogInv, EngineOK
    <2>5. EngineOK'
      BY <1>1, <1>3, <2>1, <2>4, Committed DEF LogInv, EngineOK
    <2>. QED BY <2>3, <2>5
  <1>4. CASE w = Engine
    <2>. DEFINE new == Candidate(Engine)
                row(i) == [seq |-> tx[Engine].next + i - 1, by |-> Engine, n |-> buffer[i]]
    <2>a. \A i \in DOMAIN buffer : i \in Nat /\ buffer[i] \in Nat
      <3>1. buffer \in Seq(1..MaxEmit) /\ MaxEmit \in Nat
        BY StreamAssumption DEF LogInv, TypeOK
      <3>. QED BY <3>1
    <2>b. tx[Engine].next \in Nat
      BY TxType DEF Tx
    <2>c. \A r \in rows \cup own[Engine] : r.seq \in Nat /\ r.n \in Nat
      BY DEF LogInv, TypeOK
    <2>1. buffer' = <<>> /\ tx'[Engine].at = "idle"
      BY <1>4, TxType DEF Commit, NoTx
    <2>2. own[Engine] = new /\ new = {row(i) : i \in DOMAIN buffer}
      BY <1>4 DEF LogInv, EngineOK, Commit, Candidate, Batch
    <2>3. {r \in rows' : r.by = Engine} = logged \cup new
      BY <1>1, <1>4, <2>2
    <2>4. {r.n : r \in logged \cup new} = ns \cup held
      <3>1. \A x : x \in held <=> \E r \in new : x = r.n
        <4>1. \A i \in DOMAIN buffer : row(i).n = buffer[i]
          OBVIOUS
        <4>. HIDE DEF row
        <4>. QED BY <2>2, <4>1
      <3>2. \A x : x \in ns <=> \E r \in logged : x = r.n
        OBVIOUS
      <3>3. \A x : x \in {r.n : r \in logged \cup new} <=> \E r \in logged \cup new : x = r.n
        OBVIOUS
      <3>. HIDE DEF logged, held, ns, new
      <3>. QED BY <3>1, <3>2, <3>3
    <2>5. ASSUME NEW r \in logged, NEW s \in new PROVE r.n < s.n /\ r.seq < s.seq
      <3>1. r.n < s.n
        BY <2>2 DEF LogInv, EngineOK
      <3>2. s.seq > Top(rows)
        BY <2>2 DEF LogInv, WriterOK
      <3>3. r.seq \in 1..Top(rows) /\ Top(rows) \in Nat /\ s.seq \in Nat
        <4>1. r.seq \in Seqs(rows) /\ s \in own[Engine]
          BY <2>2 DEF Seqs
        <4>. QED BY <4>1, GaplessTop DEF LogInv, TypeOK
      <3>. QED BY <3>1, <3>2, <3>3
    <2>6. ASSUME NEW r \in new, NEW s \in new PROVE r.n < s.n <=> r.seq < s.seq
      <3>1. PICK i \in DOMAIN buffer : r = row(i)
        BY <2>2
      <3>2. PICK j \in DOMAIN buffer : s = row(j)
        BY <2>2
      <3>3. i \in Nat /\ j \in Nat /\ tx[Engine].next \in Nat
        BY <2>a, <2>b
      <3>4. buffer[i] \in Nat /\ buffer[j] \in Nat
        BY <2>a
      <3>5. (i < j => buffer[i] < buffer[j]) /\ (j < i => buffer[j] < buffer[i])
        BY DEF LogInv, EngineOK
      <3>6. buffer[i] < buffer[j] <=> i < j
        BY <3>3, <3>4, <3>5
      <3>. QED BY <3>1, <3>2, <3>3, <3>6
    <2>7. ASSUME NEW r \in new, NEW s \in logged PROVE ~(r.n < s.n) /\ ~(r.seq < s.seq)
      <3>1. s.n < r.n /\ s.seq < r.seq
        BY <2>5
      <3>2. r.n \in Nat /\ r.seq \in Nat /\ s.n \in Nat /\ s.seq \in Nat
        BY <2>2, <2>c
      <3>. QED BY <3>1, <3>2
    <2>8. \A r, s \in logged \cup new : r.n < s.n <=> r.seq < s.seq
      <3>. HIDE DEF new
      <3>. QED BY <1>2, <2>5, <2>6, <2>7
    <2>9. EmittedOnce'
      <3>1. {buffer'[i] : i \in DOMAIN buffer'} = {}
        BY <2>1
      <3>. HIDE DEF logged, held, ns, new
      <3>2. (ns \cup held) \cup {} \cup lost = 1..emitted
        BY <1>2
      <3>. QED BY <1>1, <2>3, <2>4, <2>8, <3>1, <3>2 DEF EmittedOnce
    <2>10. EngineOK'
      BY <2>1 DEF EngineOK
    <2>. QED BY <2>9, <2>10
  <1>. QED BY <1>3, <1>4

LEMMA CommitInv == ASSUME NEW w \in Writers, LogInv, Commit(w) PROVE LogInv'
  <1>. USE WritersAre
  <1>1. /\ holder = w /\ holder' = NoOne /\ rows' = rows \cup own[w]
        /\ rowLocks' = rowLocks /\ Gapless(rows') /\ Top(rows') >= Top(rows)
    BY Committed DEF Commit
  <1>2. Top(rows) \in Nat /\ Top(rows') \in Nat
    BY <1>1, GaplessTop DEF LogInv
  <1>3. TypeOK'
    <2>1. \A r \in rows' : r.seq \in Nat /\ r.by \in Writers /\ r.n \in Nat
      BY <1>1 DEF LogInv, TypeOK
    <2>2. \A v \in Writers : own'[v] = {}
      BY Committed
    <2>3. tx' \in [Writers -> Tx] /\ DOMAIN own' = Writers
      BY Committed
    <2>4. status' \in {"live", "over"} /\ buffer' \in Seq(1..MaxEmit)
      <3>1. status \in {"live", "over"} /\ buffer \in Seq(1..MaxEmit)
        BY DEF LogInv, TypeOK
      <3>2. status' \in {status, "over"} /\ buffer' \in {buffer, <<>>}
        BY DEF Commit
      <3>3. <<>> \in Seq(1..MaxEmit)
        OBVIOUS
      <3>. QED BY <3>1, <3>2, <3>3
    <2>5. /\ emitted' = emitted /\ lost' = lost /\ conn' = conn /\ flight' = flight
          /\ got' = got /\ wait' = wait /\ req' = req /\ faults' = faults /\ errors' = errors
      BY DEF Commit, connVars, waitVars, boundVars
    <2>. QED BY <1>1, <2>1, <2>2, <2>3, <2>4, <2>5 DEF LogInv, TypeOK, Tx
  <1>4. ASSUME NEW v \in Writers PROVE WriterOK(v)'
    <2>1. rows' \cup own'[v] = rows' /\ holder' # v /\ own'[v] = {}
      BY <1>1, Committed
    <2>2. CASE v = w
      BY <1>1, <2>1, <2>2, Committed DEF WriterOK, Gapless, Top, Seqs
    <2>3. CASE v # w
      <3>1. tx'[v] = tx[v] /\ own[v] = {} /\ tx[v].at # "wrote" /\ holder # v
            /\ rows \cup own[v] = rows
        BY <1>1, <2>3, Committed
      <3>2. /\ tx[v].at # "failed" /\ tx[v].tries = 0
            /\ rowLocks => tx[v].at \notin {"open", "read"}
            /\ tx[v].at \in {"open", "read"} => tx[v].todo \in 1..Appends(v)
            /\ tx[v].at = "read" => tx[v].next \in 1..(Top(rows) + 1)
        BY <3>1 DEF LogInv, WriterOK
      <3>3. tx[v].at = "read" => tx[v].next \in 1..(Top(rows') + 1)
        BY <1>1, <1>2, <3>2
      <3>. QED BY <1>1, <2>1, <3>1, <3>2, <3>3 DEF WriterOK, Gapless, Top, Seqs
    <2>. QED BY <2>2, <2>3
  <1>5. EnderOK'
    BY <1>1, Committed DEF EnderOK
  <1>6. EngineOK' /\ EmittedOnce'
    BY CommitEmitted
  <1>7. conn' = conn /\ flight' = flight /\ got' = got
    BY DEF Commit, connVars
  <1>8. StreamOK'
    <2>1. CASE Connected
      <3>0. Len(got) \in Nat
        BY DEF LogInv, TypeOK
      <3>1. Seqs(flight) = (Len(got) + 1)..conn.cursor /\ conn.cursor \in Len(got)..Top(rows)
            /\ Len(got) \in Nat
        BY <2>1, <3>0 DEF LogInv, StreamOK
      <3>2. conn.cursor \in Len(got)..Top(rows')
        BY <3>1, <1>1, <1>2
      <3>. QED BY <1>7, <2>1, <3>1, <3>2 DEF LogInv, StreamOK, Connected, SeenInOrder, Seqs, Top
    <2>2. CASE ~Connected
      <3>0. Len(got) \in Nat
        BY DEF LogInv, TypeOK
      <3>1. flight = {} /\ Len(got) <= Top(rows) /\ Len(got) \in Nat
        BY <2>2, <3>0 DEF LogInv, StreamOK
      <3>2. Len(got) <= Top(rows')
        BY <3>1, <1>1, <1>2
      <3>. QED BY <1>7, <2>2, <3>1, <3>2 DEF LogInv, StreamOK, Connected, SeenInOrder, Seqs, Top
    <2>. QED BY <2>1, <2>2
  <1>9. EndOK'
    <2>1. status' = "over" => \E r \in rows' : IsTerminal(r)
      <3>1. CASE w = Ender
        <4>1. tx[Ender].at = "wrote"
          BY <3>1 DEF Commit
        <4>2. PICK r \in own[Ender] : r.n = EnderEvents
          BY <4>1 DEF LogInv, EnderOK
        <4>3. r \in rows' /\ r.by = Ender
          BY <1>1, <3>1 DEF LogInv, TypeOK
        <4>. QED BY <4>2, <4>3 DEF IsTerminal
      <3>2. CASE w # Ender
        BY <1>1, <3>2 DEF LogInv, EndOK, Commit
      <3>. QED BY <3>1, <3>2
    <2>2. status = "over" => status' = "over"
      BY DEF Commit
    <2>3. EndsComplete'
      BY <1>1, <1>7 DEF LogInv, EndOK, EndsComplete, IsTerminal
    <2>. QED BY <1>7, <2>1, <2>2, <2>3 DEF LogInv, EndOK, IsTerminal
  <1>. QED BY <1>1, <1>3, <1>4, <1>5, <1>6, <1>8, <1>9 DEF LogInv

LEMMA CrashInv == LogInv /\ Crash => LogInv'
  <1>. SUFFICES ASSUME LogInv, Crash PROVE LogInv'
    OBVIOUS
  <1>. USE WritersAre
  <1>1. /\ rows' = rows /\ rowLocks' = rowLocks /\ status' = status /\ emitted' = emitted
        /\ conn' = conn /\ flight' = flight /\ got' = got
        /\ wait' = wait /\ req' = req /\ errors' = errors
        /\ buffer' = <<>> /\ lost' = lost \cup {buffer[i] : i \in DOMAIN buffer}
        /\ holder' = IF holder \in {Engine, Ender} THEN NoOne ELSE holder
    BY DEF Crash, logVars, connVars, waitVars
  <1>2. /\ \A w \in Writers :
              tx'[w] = IF w \in {Engine, Ender} /\ tx[w].at # "done" THEN NoTx ELSE tx[w]
        /\ \A w \in Writers : own'[w] = IF w \in {Engine, Ender} THEN {} ELSE own[w]
        /\ DOMAIN own' = Writers
    BY DEF Crash
  <1>3. NoTx.at = "idle" /\ NoTx.tries = 0 /\ NoTx \in Tx
    BY DEF NoTx, Tx, Retries
  <1>4. TypeOK'
    <2>1. tx' \in [Writers -> Tx]
      <3>1. tx' = [w \in Writers |-> IF w \in {Engine, Ender} /\ tx[w].at # "done"
                                     THEN NoTx ELSE tx[w]]
        BY DEF Crash
      <3>. QED BY <3>1, <1>3, TxType
    <2>2. \A w \in Writers : OwnTyped(w)'
      BY <1>2 DEF LogInv, TypeOK, OwnTyped
    <2>3. faults' \in 0..MaxFaults
      BY Bounded DEF Crash
    <2>4. lost' \subseteq 1..MaxEmit
      <3>1. buffer \in Seq(1..MaxEmit) /\ lost \subseteq 1..MaxEmit
        BY DEF LogInv, TypeOK
      <3>2. \A i \in DOMAIN buffer : buffer[i] \in 1..MaxEmit
        <4>1. DOMAIN buffer = 1..Len(buffer) /\ MaxEmit \in Nat
          BY <3>1, Bounded, StreamAssumption
        <4>. QED BY <3>1, <4>1
      <3>3. {buffer[i] : i \in DOMAIN buffer} \subseteq 1..MaxEmit
        BY <3>2
      <3>. QED BY <1>1, <3>1, <3>3
    <2>5. holder' \in Writers \cup {NoOne} /\ buffer' \in Seq(1..MaxEmit)
      BY <1>1 DEF LogInv, TypeOK
    <2>. QED BY <1>1, <1>2, <2>1, <2>2, <2>3, <2>4, <2>5 DEF LogInv, TypeOK, Tx, OwnTyped
  <1>5. ASSUME NEW w \in Writers PROVE WriterOK(w)'
    <2>1. CASE w \in {Engine, Ender}
      <3>1. holder' # w /\ own'[w] = {} /\ rows' \cup own'[w] = rows
        BY <1>1, <1>2, <2>1
      <3>2. tx'[w].at \in {"idle", "done"} /\ tx'[w].tries = 0
        BY <1>2, <1>3, <2>1 DEF LogInv, WriterOK
      <3>3. Gapless(rows' \cup own'[w])
        BY <3>1 DEF LogInv
      <3>. QED BY <3>1, <3>2, <3>3 DEF WriterOK, Gapless, Top, Seqs
    <2>2. CASE w \notin {Engine, Ender}
      BY <1>1, <1>2, <2>2, OtherWriter DEF LogInv
    <2>. QED BY <2>1, <2>2
  <1>6. EnderOK'
    BY <1>2, <1>3 DEF LogInv, EnderOK
  <1>7. EngineOK'
    BY <1>1, <1>2, <1>3 DEF EngineOK
  <1>8. EmittedOnce'
    <2>. DEFINE logged == {r \in rows : r.by = Engine}
                held == {buffer[i] : i \in DOMAIN buffer}
                ns == {r.n : r \in logged}
    <2>1. /\ ns \cup held \cup lost = 1..emitted /\ ns \cap held = {}
          /\ \A r, s \in logged : r.n < s.n <=> r.seq < s.seq
      BY DEF LogInv, EmittedOnce
    <2>2. {buffer'[i] : i \in DOMAIN buffer'} = {}
      BY <1>1
    <2>3. ns \cup {} \cup (lost \cup held) = 1..emitted
      BY <2>1
    <2>. QED BY <1>1, <2>1, <2>2, <2>3 DEF EmittedOnce
  <1>9. StreamOK' /\ EndOK'
    BY <1>1, StreamFrame DEF connVars
  <1>10. Gapless(rows)'
    BY <1>1 DEF LogInv
  <1>. QED BY <1>4, <1>5, <1>6, <1>7, <1>8, <1>9, <1>10 DEF LogInv

-----------------------------------------------------------------------------
(* The stream and the browser.                                             *)

(* What they leave alone is the whole of the log.                          *)
LEMMA ReaderInv ==
    ASSUME LogInv, UNCHANGED LogVars, conn' \in [at : {"down", "status", "events", "ended", "gone", "shut"},
                                                 cursor : Nat, seen : {"live", "over"}],
           flight' \subseteq rows, got' \in Seq(Nat),
           wait' \in {"open", "told", "rejected", "cancelled"},
           req' \in {"none", "sent", "live", "over", "error"},
           faults' \in 0..MaxFaults, errors' \in 0..MaxErrors,
           StreamOK', conn'.seen = "over" => status = "over",
           conn'.at = "ended" => \E r \in rows : IsTerminal(r) /\ r.seq <= conn'.cursor
    PROVE  LogInv'
  <1>1. /\ rows' = rows /\ status' = status /\ rowLocks' = rowLocks /\ holder' = holder
        /\ tx' = tx /\ own' = own /\ buffer' = buffer /\ emitted' = emitted /\ lost' = lost
    BY DEF LogVars, logVars, txVars, bufferVars
  <1>2. TypeOK'
    BY <1>1 DEF LogInv, TypeOK
  <1>3. EndOK'
    BY <1>1 DEF LogInv, EndOK, EndsComplete, IsTerminal
  <1>. QED BY <1>2, <1>3, LogFrame DEF LogInv

LEMMA ReaderTypes ==
    LogInv => /\ conn \in [at : {"down", "status", "events", "ended", "gone", "shut"},
                            cursor : Nat, seen : {"live", "over"}]
              /\ flight \subseteq rows /\ got \in Seq(Nat)
              /\ wait \in {"open", "told", "rejected", "cancelled"}
              /\ req \in {"none", "sent", "live", "over", "error"}
              /\ status \in {"live", "over"}
              /\ conn.seen = "over" => status = "over"
              /\ conn.at = "ended" => \E r \in rows : IsTerminal(r) /\ r.seq <= conn.cursor
              /\ Len(got) \in Nat /\ Len(got) <= Top(rows) /\ Top(rows) \in Nat
  <1>. SUFFICES ASSUME LogInv
       PROVE /\ conn \in [at : {"down", "status", "events", "ended", "gone", "shut"},
                           cursor : Nat, seen : {"live", "over"}]
             /\ flight \subseteq rows /\ got \in Seq(Nat)
             /\ wait \in {"open", "told", "rejected", "cancelled"}
             /\ req \in {"none", "sent", "live", "over", "error"}
             /\ status \in {"live", "over"}
             /\ conn.seen = "over" => status = "over"
             /\ conn.at = "ended" => \E r \in rows : IsTerminal(r) /\ r.seq <= conn.cursor
             /\ Len(got) \in Nat /\ Len(got) <= Top(rows) /\ Top(rows) \in Nat
    OBVIOUS
  <1>1. Top(rows) \in Nat
    BY GaplessTop DEF LogInv
  <1>2. got \in Seq(Nat)
    BY DEF LogInv, TypeOK
  <1>3. Len(got) \in Nat
    BY <1>2
  <1>4. Len(got) <= Top(rows)
    BY <1>1, <1>3 DEF LogInv, StreamOK
  <1>. QED BY <1>1, <1>2, <1>3, <1>4 DEF LogInv, TypeOK, EndOK, EndsComplete

(* Nothing is on the way on a stream that is not connected.                *)
LEMMA Disconnected ==
    ASSUME LogInv, rows' = rows, got' = got, flight' = {}, ~Connected'
    PROVE  StreamOK'
  <1>1. Len(got') <= Top(rows')
    BY ReaderTypes DEF Top, Seqs
  <1>. QED BY <1>1 DEF LogInv, StreamOK, SeenInOrder, Top, Seqs

LEMMA ConnectInv == LogInv /\ Connect => LogInv'
  <1>. SUFFICES ASSUME LogInv, Connect PROVE LogInv'
    OBVIOUS
  <1>1. /\ conn' = [at |-> "status", cursor |-> LastId, seen |-> "live"]
        /\ flight' = flight /\ got' = got /\ wait' = wait /\ req' = req
        /\ faults' = faults /\ errors' = errors /\ UNCHANGED LogVars /\ rows' = rows
    BY DEF Connect, waitVars, boundVars, LogVars, logVars
  <1>2. flight = {} /\ SeenInOrder /\ Connected'
    BY <1>1 DEF LogInv, StreamOK, Connected, Connect
  <1>3. LastId = Len(got)
    <2>1. CASE got = <<>>
      BY <2>1 DEF LastId
    <2>2. CASE got # <<>>
      BY <2>2, <1>2, ReaderTypes DEF LastId, SeenInOrder
    <2>. QED BY <2>1, <2>2
  <1>4. Seqs(flight) = (Len(got) + 1)..Len(got)
    BY <1>2, ReaderTypes DEF Seqs
  <1>5. StreamOK'
    BY <1>1, <1>2, <1>3, <1>4, ReaderTypes DEF StreamOK, SeenInOrder, Top, Seqs
  <1>. QED BY <1>1, <1>3, <1>5, ReaderTypes, ReaderInv, Bounded

LEMMA ReadStatusInv == LogInv /\ ReadStatus => LogInv'
  <1>. SUFFICES ASSUME LogInv, ReadStatus PROVE LogInv'
    OBVIOUS
  <1>1. /\ conn' = [conn EXCEPT !.at = "events", !.seen = status] /\ conn.at = "status"
        /\ flight' = flight /\ got' = got /\ wait' = wait /\ req' = req
        /\ faults' = faults /\ errors' = errors /\ UNCHANGED LogVars /\ rows' = rows
    BY DEF ReadStatus, waitVars, boundVars, LogVars, logVars
  <1>2. conn'.at = "events" /\ conn'.cursor = conn.cursor /\ conn'.seen = status
    BY <1>1, ReaderTypes
  <1>3. StreamOK'
    BY <1>1, <1>2 DEF LogInv, StreamOK, Connected, SeenInOrder, Top, Seqs
  <1>. QED BY <1>1, <1>2, <1>3, ReaderTypes, ReaderInv, Bounded

LEMMA ReadEventsInv == LogInv /\ ReadEvents => LogInv'
  <1>. SUFFICES ASSUME LogInv, ReadEvents PROVE LogInv'
    OBVIOUS
  <1>. DEFINE new == {r \in rows : r.seq > conn.cursor}
              top == Max(Seqs(new) \cup {conn.cursor})
  <1>1. /\ conn.at = "events" /\ flight' = flight \cup new /\ got' = got
        /\ conn' = [conn EXCEPT !.at = IF conn.seen = "over" THEN "ended" ELSE "status",
                                !.cursor = top]
        /\ wait' = wait /\ req' = req /\ faults' = faults /\ errors' = errors
        /\ UNCHANGED LogVars /\ rows' = rows
    BY DEF ReadEvents, waitVars, boundVars, LogVars, logVars
  <1>2. /\ Seqs(rows) = 1..Top(rows) /\ Top(rows) \in Nat
        /\ Seqs(flight) = (Len(got) + 1)..conn.cursor
        /\ conn.cursor \in Len(got)..Top(rows) /\ conn.cursor \in Nat /\ Len(got) \in Nat
    BY <1>1, GaplessTop, ReaderTypes DEF LogInv, StreamOK, Connected
  <1>3. Seqs(new) = (conn.cursor + 1)..Top(rows)
    <2>1. \A x : x \in Seqs(new) <=> x \in Seqs(rows) /\ x > conn.cursor
      BY DEF Seqs
    <2>. HIDE DEF new
    <2>. QED BY <1>2, <2>1, CutBelow
  <1>4. top = Top(rows)
    <2>. DEFINE S == Seqs(new) \cup {conn.cursor}
    <2>1. S \in SUBSET Int /\ Top(rows) \in S /\ \A x \in S : x <= Top(rows)
      <3>1. S = ((conn.cursor + 1)..Top(rows)) \cup {conn.cursor}
        BY <1>3
      <3>. HIDE DEF S
      <3>. QED BY <1>2, <3>1
    <2>. HIDE DEF S
    <2>2. Max(S) = Top(rows)
      BY <2>1, MaxIs
    <2>. QED BY <2>2 DEF S
  <1>5. Seqs(flight \cup new) = (Len(got) + 1)..Top(rows)
    <2>1. \A x : x \in Seqs(flight \cup new) <=> x \in Seqs(flight) \/ x \in Seqs(new)
      BY DEF Seqs
    <2>. HIDE DEF new
    <2>2. \A x : x \in Seqs(flight \cup new)
               <=> x \in (Len(got) + 1)..conn.cursor \/ x \in (conn.cursor + 1)..Top(rows)
      BY <1>2, <1>3, <2>1
    <2>3. Len(got) + 1 \in Nat /\ Len(got) + 1 <= conn.cursor + 1 /\ conn.cursor <= Top(rows)
      BY <1>2
    <2>. QED BY <1>2, <2>2, <2>3, Joined
  <1>. HIDE DEF top
  <1>6. /\ conn' \in [at : {"down", "status", "events", "ended", "gone", "shut"},
                      cursor : Nat, seen : {"live", "over"}]
        /\ conn'.cursor = Top(rows) /\ conn'.seen = conn.seen
        /\ conn'.at = IF conn.seen = "over" THEN "ended" ELSE "status"
    BY <1>1, <1>2, <1>4, ReaderTypes
  <1>7. StreamOK'
    <2>1. Connected'
      BY <1>6 DEF Connected
    <2>2. Seqs(flight') = (Len(got') + 1)..conn'.cursor
      BY <1>1, <1>5, <1>6
    <2>3. conn'.cursor \in Len(got')..Top(rows')
      BY <1>1, <1>2, <1>6
    <2>. QED BY <1>1, <2>1, <2>2, <2>3 DEF LogInv, StreamOK, SeenInOrder, Seqs, Top
  <1>8. conn'.at = "ended" => \E r \in rows : IsTerminal(r) /\ r.seq <= conn'.cursor
    <2>. SUFFICES ASSUME conn.seen = "over"
                  PROVE  \E r \in rows : IsTerminal(r) /\ r.seq <= Top(rows)
      BY <1>6
    <2>1. PICK r \in rows : IsTerminal(r)
      BY DEF LogInv, EndOK
    <2>2. r.seq \in Seqs(rows)
      BY DEF Seqs
    <2>. QED BY <1>2, <2>1, <2>2
  <1>9. flight' \subseteq rows
    BY <1>1, ReaderTypes
  <1>. QED BY <1>1, <1>6, <1>7, <1>8, <1>9, ReaderTypes, ReaderInv, Bounded

LEMMA ReceiveInv == LogInv /\ Receive => LogInv'
  <1>. SUFFICES ASSUME LogInv, Receive PROVE LogInv'
    OBVIOUS
  <1>1. PICK r \in flight :
           /\ \A s \in flight : r.seq <= s.seq
           /\ flight' = flight \ {r} /\ got' = Append(got, r.seq)
           /\ req' = IF IsTerminal(r) /\ req = "none" THEN "sent" ELSE req
    BY DEF Receive
  <1>2. /\ conn' = conn /\ wait' = wait /\ faults' = faults /\ errors' = errors
        /\ UNCHANGED LogVars /\ rows' = rows
    BY DEF Receive, boundVars, LogVars, logVars
  <1>3. Connected /\ got \in Seq(Nat) /\ Len(got) \in Nat
    BY <1>1, ReaderTypes DEF LogInv, StreamOK
  <1>4. /\ Seqs(flight) = (Len(got) + 1)..conn.cursor
        /\ conn.cursor \in Len(got)..Top(rows) /\ conn.cursor \in Nat
    BY <1>3, ReaderTypes DEF LogInv, StreamOK
  <1>5. r.seq = Len(got) + 1
    <2>1. r.seq \in Seqs(flight) /\ \A x \in Seqs(flight) : r.seq <= x
      BY <1>1 DEF Seqs
    <2>2. Len(got) + 1 \in Nat /\ r.seq \in (Len(got) + 1)..conn.cursor
      BY <1>3, <1>4, <2>1
    <2>. QED BY <1>4, <2>1, <2>2, Least
  <1>6. Seqs(flight') = (Len(got) + 1 + 1)..conn.cursor
    <2>1. \A s \in flight : s.seq = r.seq => s = r
      BY <1>1, ReaderTypes DEF LogInv, Gapless
    <2>2. \A x : x \in Seqs(flight') <=> x \in Seqs(flight) /\ x # r.seq
      BY <1>1, <2>1 DEF Seqs
    <2>3. \A x : x \in Seqs(flight') <=> x \in (Len(got) + 1)..conn.cursor /\ x # Len(got) + 1
      BY <1>4, <1>5, <2>2
    <2>4. Len(got) + 1 \in Nat
      BY <1>3
    <2>. QED BY <1>4, <2>3, <2>4, CutLeast
  <1>7. /\ Len(got') = Len(got) + 1 /\ got' \in Seq(Nat) /\ DOMAIN got' = 1..(Len(got) + 1)
        /\ \A i \in 1..Len(got) : got'[i] = got[i]
        /\ got'[Len(got) + 1] = Len(got) + 1
    <2>1. got' = Append(got, Len(got) + 1)
      BY <1>1, <1>5
    <2>. QED BY <1>3, <2>1
  <1>8. SeenInOrder'
    <2>1. \A i \in 1..Len(got) : got[i] = i
      BY <1>3 DEF LogInv, StreamOK, SeenInOrder
    <2>2. \A i \in 1..(Len(got) + 1) : i \in 1..Len(got) \/ i = Len(got) + 1
      BY <1>3
    <2>3. ASSUME NEW i \in 1..(Len(got) + 1) PROVE got'[i] = i
      <3>1. CASE i \in 1..Len(got)
        BY <3>1, <1>7, <2>1
      <3>2. CASE i = Len(got) + 1
        BY <3>2, <1>7
      <3>. QED BY <2>2, <3>1, <3>2
    <2>4. DOMAIN got' = 1..(Len(got) + 1)
      BY <1>7
    <2>. QED BY <2>3, <2>4 DEF SeenInOrder
  <1>9. Connected'
    BY <1>2, <1>3 DEF Connected
  <1>10. conn.cursor \in (Len(got) + 1)..Top(rows)
    <2>1. r.seq \in Seqs(flight)
      BY <1>1 DEF Seqs
    <2>. QED BY <1>3, <1>4, <1>5, <2>1, ReaderTypes
  <1>11. StreamOK'
    <2>1. Seqs(flight') = (Len(got') + 1)..conn'.cursor
      BY <1>2, <1>3, <1>6, <1>7
    <2>2. conn'.cursor \in Len(got')..Top(rows')
      BY <1>2, <1>7, <1>10
    <2>. QED BY <1>8, <1>9, <2>1, <2>2 DEF StreamOK, Seqs, Top
  <1>12. req' \in {"none", "sent", "live", "over", "error"} /\ flight' \subseteq rows
    BY <1>1, ReaderTypes
  <1>. QED BY <1>2, <1>7, <1>11, <1>12, ReaderTypes, ReaderInv, Bounded

(* A stream that is not connected holds nothing, whatever the wait becomes.*)
LEMMA ShutInv ==
    ASSUME LogInv, UNCHANGED <<LogVars, got>>, flight' = {},
           NEW at \in {"down", "gone", "shut"}, conn' = [conn EXCEPT !.at = at],
           wait' \in {"open", "told", "rejected", "cancelled"},
           req' \in {"none", "sent", "live", "over", "error"},
           faults' \in 0..MaxFaults, errors' \in 0..MaxErrors
    PROVE  LogInv'
  <1>1. rows' = rows /\ got' = got /\ UNCHANGED LogVars
    BY DEF LogVars, logVars
  <1>2. /\ conn'.at = at /\ conn'.seen = conn.seen
        /\ conn' \in [at : {"down", "status", "events", "ended", "gone", "shut"},
                      cursor : Nat, seen : {"live", "over"}]
    BY ReaderTypes
  <1>3. StreamOK'
    BY <1>1, <1>2, Disconnected DEF Connected
  <1>. QED BY <1>1, <1>2, <1>3, ReaderTypes, ReaderInv

LEMMA EndInv == LogInv /\ End => LogInv'
  <1>. SUFFICES ASSUME LogInv, End PROVE LogInv'
    OBVIOUS
  <1>1. /\ conn' = [conn EXCEPT !.at = "down"] /\ flight' = {} /\ wait' = wait /\ req' = req
        /\ faults' = faults /\ errors' = errors /\ UNCHANGED <<LogVars, got>>
    BY DEF End, Disconnect, waitVars, boundVars, LogVars
  <1>. QED BY <1>1, ShutInv, ReaderTypes, Bounded

LEMMA DropInv == LogInv /\ Drop => LogInv'
  <1>. SUFFICES ASSUME LogInv, Drop PROVE LogInv'
    OBVIOUS
  <1>1. PICK at \in {"down", "gone"} : conn' = [conn EXCEPT !.at = at] /\ flight' = {}
    BY DEF Drop, Disconnect
  <1>2. wait' = wait /\ req' = req /\ errors' = errors /\ UNCHANGED <<LogVars, got>>
    BY DEF Drop, waitVars, LogVars
  <1>3. faults' \in 0..MaxFaults
    BY Bounded DEF Drop
  <1>. QED BY <1>1, <1>2, <1>3, ShutInv, ReaderTypes, Bounded

(* A request of the browser that settles nothing.                          *)
LEMMA AskInv ==
    ASSUME LogInv, UNCHANGED <<LogVars, connVars, wait>>,
           req' \in {"none", "sent", "live", "over", "error"},
           faults' \in 0..MaxFaults, errors' \in 0..MaxErrors
    PROVE  LogInv'
  <1>1. /\ conn' = conn /\ flight' = flight /\ got' = got /\ wait' = wait
        /\ rows' = rows /\ status' = status /\ UNCHANGED LogVars
    BY DEF LogVars, logVars, connVars
  <1>2. StreamOK'
    BY <1>1, StreamFrame DEF connVars
  <1>. QED BY <1>1, <1>2, ReaderTypes, ReaderInv

LEMMA BrowserInv == LogInv /\ Browser => LogInv'
  <1>. SUFFICES ASSUME LogInv, Browser PROVE LogInv'
    OBVIOUS
  <1>1. CASE Tick
    <2>1. UNCHANGED <<LogVars, connVars, wait>> /\ req' = "sent"
          /\ faults' = faults /\ errors' = errors
      BY <1>1 DEF Tick, LogVars, boundVars
    <2>. QED BY <2>1, AskInv, Bounded
  <1>2. CASE Serve
    <2>1. UNCHANGED <<LogVars, connVars, wait>> /\ req' = status
          /\ faults' = faults /\ errors' = errors
      BY <1>2 DEF Serve, LogVars, boundVars
    <2>. QED BY <2>1, AskInv, Bounded, ReaderTypes
  <1>3. CASE ServeError
    <2>1. UNCHANGED <<LogVars, connVars, wait>> /\ req' = "error" /\ faults' = faults
      BY <1>3 DEF ServeError, LogVars
    <2>2. errors' \in 0..MaxErrors
      BY <1>3, Bounded DEF ServeError
    <2>. QED BY <2>1, <2>2, AskInv, Bounded
  <1>4. CASE Answer
    <2>1. UNCHANGED <<LogVars, got>> /\ req' = "none" /\ faults' = faults /\ errors' = errors
      BY <1>4 DEF Answer, LogVars, boundVars
    <2>2. CASE UNCHANGED <<wait, conn, flight>>
      <3>1. UNCHANGED <<LogVars, connVars, wait>>
        BY <2>1, <2>2 DEF connVars
      <3>. QED BY <2>1, <3>1, AskInv, Bounded
    <2>3. CASE \E outcome \in {"told", "rejected"} : Settle(outcome)
      <3>1. /\ conn' = [conn EXCEPT !.at = "shut"] /\ flight' = {}
            /\ wait' \in {"open", "told", "rejected", "cancelled"}
        BY <2>3, ReaderTypes DEF Settle
      <3>. QED BY <2>1, <3>1, ShutInv, Bounded
    <2>. QED BY <1>4, <2>2, <2>3 DEF Answer
  <1>5. CASE Cancel
    <2>1. UNCHANGED <<LogVars, got>> /\ req' = req /\ faults' = faults /\ errors' = errors
      BY <1>5 DEF Cancel, LogVars, boundVars
    <2>2. /\ conn' = [conn EXCEPT !.at = "shut"] /\ flight' = {}
          /\ wait' \in {"open", "told", "rejected", "cancelled"}
      BY <1>5, ReaderTypes DEF Cancel, Settle
    <2>. QED BY <2>1, <2>2, ShutInv, ReaderTypes, Bounded
  <1>. QED BY <1>1, <1>2, <1>3, <1>4, <1>5 DEF Browser

-----------------------------------------------------------------------------
LEMMA StepInv == LogInv /\ [Next]_vars => LogInv'
  <1>. SUFFICES ASSUME LogInv, [Next]_vars PROVE LogInv'
    OBVIOUS
  <1>1. CASE Emit
    BY <1>1, EmitInv
  <1>2. ASSUME NEW w \in Writers, Write(w) PROVE LogInv'
    BY <1>2, BeginInv, ReadNextInv, InsertInv, CollideInv, CommitInv, AbortInv DEF Write
  <1>3. CASE Crash
    BY <1>3, CrashInv
  <1>4. CASE Stream
    BY <1>4, ConnectInv, ReadStatusInv, ReadEventsInv, ReceiveInv, EndInv, DropInv DEF Stream
  <1>5. CASE Browser
    BY <1>5, BrowserInv
  <1>6. CASE UNCHANGED vars
    <2>1. UNCHANGED <<LogVars, connVars, wait>> /\ req' = req /\ faults' = faults
          /\ errors' = errors
      BY <1>6 DEF vars, LogVars, waitVars, boundVars
    <2>. QED BY <2>1, AskInv, ReaderTypes, Bounded
  <1>. QED BY <1>1, <1>2, <1>3, <1>4, <1>5, <1>6 DEF Next

LEMMA Inductive == Spec => []LogInv
  BY InitInv, StepInv, PTL DEF Spec

(* Every variable keeps its type.                                          *)
THEOREM TypeCorrect == Spec => []TypeOK
  <1>1. LogInv => TypeOK
    BY DEF LogInv
  <1>. QED BY <1>1, Inductive, PTL

(* The log has no gap and no duplicate, with row locks and without: of the *)
(* writers of event_service.py that read the same candidate, only the one  *)
(* that is first inserts it.                                               *)
THEOREM LogNumbered == Spec => []Numbered
  <1>1. LogInv => Numbered
    BY GaplessTop DEF LogInv, Numbered, Gapless
  <1>. QED BY <1>1, Inductive, PTL

(* The browser sees the events of a task in order, each once, however often*)
(* the stream of tasks.py breaks and is taken up again.                    *)
THEOREM EventsInOrder == Spec => []SeenInOrder
  <1>1. LogInv => SeenInOrder
    BY DEF LogInv, StreamOK
  <1>. QED BY <1>1, Inductive, PTL

(* A stream that ends by itself has sent the terminal event (event_stream).*)
THEOREM EndIsComplete == Spec => []EndsComplete
  <1>1. LogInv => EndsComplete
    BY DEF LogInv, EndOK
  <1>. QED BY <1>1, Inductive, PTL

(* Three attempts are enough for any number of concurrent appends, because *)
(* a collision leaves the writer in possession of the database.            *)
THEOREM AppendsSucceed == Spec => []AppendSucceeds
  <1>1. LogInv => AppendSucceeds
    <2>. SUFFICES ASSUME LogInv, NEW w \in Writers
                  PROVE  /\ tx[w].at # "failed"
                         /\ rowLocks /\ tx[w].at = "read" => ~Conflict(w)
      BY DEF AppendSucceeds
    <2>1. tx[w].at # "failed" /\ (rowLocks /\ tx[w].at = "read" => holder = w)
      BY DEF LogInv, WriterOK
    <2>. QED BY <2>1, HolderFree
  <1>. QED BY <1>1, Inductive, PTL

(* Buffered events of a run are logged once and in their order, or go with *)
(* the process that held them (checkpoint).                                *)
THEOREM EventsLoggedOnce == Spec => []EmittedOnce
  <1>1. LogInv => EmittedOnce
    BY DEF LogInv
  <1>. QED BY <1>1, Inductive, PTL

-----------------------------------------------------------------------------
(* The stream implements EventFeed.                                        *)

(* What the completing transaction has written is the end of the log, and  *)
(* the API answers that the task is over only when it is.                  *)
EnderLast ==
    /\ status = "over" => tx[Ender].at = "done"
    /\ tx[Ender].at = "wrote" =>
          [seq |-> Top(rows \cup own[Ender]), by |-> Ender, n |-> EnderEvents] \in own[Ender]
    /\ req = "over" => status = "over"

FeedInv == LogInv /\ EnderLast

LEMMA InsertedLast ==
    ASSUME LogInv, Insert(Ender), tx[Ender].todo = 1
    PROVE  [seq |-> Top(rows \cup own'[Ender]), by |-> Ender, n |-> EnderEvents]
              \in own'[Ender]
  <1>. USE WritersAre
  <1>. DEFINE S == rows \cup own[Ender]
              C == Candidate(Ender)
              next == tx[Ender].next
              last == [seq |-> next, by |-> Ender, n |-> EnderEvents]
  <1>1. next = Top(S) + 1 /\ next \in Nat
    BY InsertedNext DEF LogInv, TypeOK
  <1>2. C = {last}
    <2>1. Batch(Ender) = <<EnderEvents>>
      BY DEF Batch, Appends, EnderEvents
    <2>2. DOMAIN Batch(Ender) = {1} /\ Batch(Ender)[1] = EnderEvents
      BY <2>1
    <2>3. next + 1 - 1 = next
      BY <1>1
    <2>. QED BY <2>2, <2>3 DEF Candidate
  <1>3. Seqs(C) = {next}
    BY <1>2 DEF Seqs
  <1>4. Gapless(S) /\ Top(S) \in Nat
    BY GaplessTop DEF LogInv, WriterOK
  <1>5. Seqs(C) = (Top(S) + 1)..(Top(S) + 1)
    BY <1>1, <1>3, <1>4
  <1>6. \A r, s \in C : r.seq = s.seq => r = s
    BY <1>2
  <1>. HIDE DEF S, C, next
  <1>7. Top(S \cup C) = Top(S) + 1
    BY <1>4, <1>5, <1>6, GaplessUnion
  <1>8. own'[Ender] = own[Ender] \cup C
    BY DEF Insert, LogInv, TypeOK, C
  <1>9. rows \cup own'[Ender] = S \cup C /\ last \in own'[Ender]
    BY <1>2, <1>8 DEF S
  <1>. QED BY <1>1, <1>7, <1>9

(* Until it commits, nobody else does.                                     *)
LEMMA EnderAlone ==
    ASSUME LogInv, NEW w \in Writers \ {Ender}, Commit(w)
    PROVE  tx[Ender].at # "wrote" /\ tx'[Ender] = tx[Ender]
  BY Committed, WritersAre

LEMMA WriteLast ==
    ASSUME FeedInv, NEW w \in Writers, Write(w)
    PROVE  EnderLast'
  <1>. USE WritersAre
  <1>1. LogInv /\ EnderLast /\ tx \in [Writers -> Tx] /\ DOMAIN own = Writers
    BY TxType DEF FeedInv, LogInv, TypeOK
  <1>2. req' = req
    BY DEF Write, Begin, ReadNext, Insert, Collide, Commit, Abort, waitVars
  <1>3. CASE w # Ender /\ ~Commit(w)
    <2>1. rows' = rows /\ status' = status
      BY <1>3 DEF Write, Begin, ReadNext, Insert, Collide, Abort, logVars
    <2>2. tx'[Ender] = tx[Ender] /\ own'[Ender] = own[Ender]
      BY <1>1, <1>3 DEF Write, Begin, ReadNext, Insert, Collide, Abort
    <2>. QED BY <1>1, <1>2, <2>1, <2>2 DEF EnderLast
  <1>4. CASE w # Ender /\ Commit(w)
    <2>1. tx[Ender].at # "wrote" /\ tx'[Ender] = tx[Ender]
      BY <1>1, <1>4, EnderAlone
    <2>2. status' = status
      BY <1>4 DEF Commit
    <2>. QED BY <1>1, <1>2, <2>1, <2>2 DEF EnderLast
  <1>5. CASE w = Ender /\ (Begin(w) \/ ReadNext(w) \/ Collide(w) \/ Abort(w))
    <2>1. rows' = rows /\ status' = status
      BY <1>5 DEF Begin, ReadNext, Collide, Abort, logVars
    <2>2. tx[Ender].at # "done"
      BY <1>5 DEF Begin, ReadNext, Collide, Abort
    <2>3. tx'[Ender].at # "wrote"
      BY <1>1, <1>5 DEF Begin, ReadNext, Collide, Abort, NoTx, Tx
    <2>. QED BY <1>1, <1>2, <2>1, <2>2, <2>3 DEF EnderLast
  <1>6. CASE w = Ender /\ Insert(w)
    <2>1. rows' = rows /\ status' = status /\ tx[Ender].at = "read"
      BY <1>6 DEF Insert, logVars
    <2>2. tx[Ender].todo # 1 => tx'[Ender].at = "open"
      BY <1>1, <1>6 DEF Insert, Tx
    <2>3. tx[Ender].todo = 1 =>
             [seq |-> Top(rows' \cup own'[Ender]), by |-> Ender, n |-> EnderEvents] \in own'[Ender]
      BY <1>1, <1>6, <2>1, InsertedLast
    <2>. QED BY <1>1, <1>2, <2>1, <2>2, <2>3 DEF EnderLast
  <1>7. CASE w = Ender /\ Commit(w)
    <2>1. status' = "over" /\ tx'[Ender].at = "done"
      BY <1>1, <1>7 DEF Commit, NoTx
    <2>. QED BY <1>1, <1>2, <2>1 DEF EnderLast
  <1>. QED BY <1>3, <1>4, <1>5, <1>6, <1>7 DEF Write

LEMMA FeedStep == FeedInv /\ [Next]_vars => FeedInv'
  <1>. SUFFICES ASSUME FeedInv, [Next]_vars PROVE EnderLast'
    BY StepInv DEF FeedInv
  <1>. USE WritersAre
  <1>1. LogInv /\ EnderLast /\ tx \in [Writers -> Tx]
    BY TxType DEF FeedInv
  <1>2. ASSUME NEW w \in Writers, Write(w) PROVE EnderLast'
    BY <1>2, WriteLast
  <1>3. CASE Crash
    <2>1. rows' = rows /\ status' = status /\ req' = req
      BY <1>3 DEF Crash, logVars, waitVars
    <2>2. tx[Ender].at = "done" => tx'[Ender].at = "done"
      BY <1>3 DEF Crash
    <2>3. tx'[Ender].at # "wrote"
      BY <1>3 DEF Crash, NoTx
    <2>. QED BY <1>1, <2>1, <2>2, <2>3 DEF EnderLast
  <1>4. CASE UNCHANGED LogVars
    <2>1. rows' = rows /\ status' = status /\ tx' = tx /\ own' = own
      BY <1>4 DEF LogVars, logVars, txVars
    <2>2. CASE req' \in {req, "sent", "error", "none"}
      BY <1>1, <2>1, <2>2 DEF EnderLast
    <2>3. CASE req' = status
      BY <1>1, <2>1, <2>3 DEF EnderLast
    <2>4. req' \in {req, "sent", "error", "none"} \/ req' = status
      <3>1. CASE Stream
        BY <3>1 DEF Stream, Connect, ReadStatus, ReadEvents, Receive, End, Drop, waitVars
      <3>2. CASE Browser
        BY <3>2 DEF Browser, Tick, Serve, ServeError, Answer, Cancel
      <3>3. CASE UNCHANGED vars
        BY <3>3 DEF vars, waitVars
      <3>4. CASE Emit
        BY <3>4 DEF Emit, waitVars
      <3>5. CASE \E w \in Writers : Write(w)
        BY <3>5 DEF Write, Begin, ReadNext, Insert, Collide, Commit, Abort, waitVars
      <3>6. CASE Crash
        BY <3>6 DEF Crash, waitVars
      <3>. QED BY <3>1, <3>2, <3>3, <3>4, <3>5, <3>6 DEF Next
    <2>. QED BY <2>2, <2>3, <2>4
  <1>5. CASE Emit
    BY <1>1, <1>5 DEF Emit, EnderLast, logVars, txVars, waitVars
  <1>6. Stream \/ Browser \/ UNCHANGED vars => UNCHANGED LogVars
    BY DEF Stream, Connect, ReadStatus, ReadEvents, Receive, End, Drop,
           Browser, Tick, Serve, ServeError, Answer, Cancel, vars, LogVars
  <1>. QED BY <1>2, <1>3, <1>4, <1>5, <1>6 DEF Next

LEMMA FeedInductive == Spec => []FeedInv
  <1>1. Init => FeedInv
    BY InitInv, WritersAre DEF Init, FeedInv, EnderLast, NoTx
  <1>. QED BY <1>1, FeedStep, PTL DEF Spec

(* Gapless rows, in the order of their numbers.                            *)
InOrder(S) == [i \in 1..Top(S) |-> CHOOSE r \in S : r.seq = i]

LEMMA InOrderIs ==
    ASSUME NEW S, Gapless(S)
    PROVE  /\ InOrder(S) \in Seq(S) /\ Len(InOrder(S)) = Top(S) /\ Top(S) \in Nat
           /\ \A r \in S : r.seq \in 1..Top(S) /\ InOrder(S)[r.seq] = r
           /\ \A i \in 1..Top(S) : InOrder(S)[i] \in S /\ InOrder(S)[i].seq = i
  <1>1. Top(S) \in Nat /\ Seqs(S) = 1..Top(S)
    BY GaplessTop
  <1>2. \A r \in S : r.seq \in 1..Top(S)
    BY <1>1 DEF Seqs
  <1>3. ASSUME NEW r \in S PROVE (CHOOSE s \in S : s.seq = r.seq) = r
    <2>1. \A s \in S : s.seq = r.seq <=> s = r
      BY DEF Gapless
    <2>2. (CHOOSE s \in S : s.seq = r.seq) \in S /\ (CHOOSE s \in S : s.seq = r.seq).seq = r.seq
      OBVIOUS
    <2>. QED BY <2>1, <2>2
  <1>4. ASSUME NEW i \in 1..Top(S)
        PROVE  InOrder(S)[i] \in S /\ InOrder(S)[i].seq = i
    <2>1. PICK r \in S : r.seq = i
      BY <1>1 DEF Seqs
    <2>. QED BY <2>1, <1>3 DEF InOrder
  <1>5. \A r \in S : InOrder(S)[r.seq] = r
    BY <1>2, <1>3 DEF InOrder
  <1>6. InOrder(S) \in [1..Top(S) -> S]
    BY <1>4 DEF InOrder
  <1>7. InOrder(S) \in Seq(S)
    BY <1>1, <1>6
  <1>8. Len(InOrder(S)) = Top(S)
    BY <1>1, <1>6, <1>7
  <1>. QED BY <1>1, <1>2, <1>4, <1>5, <1>7, <1>8

LEMMA LogInOrder == Log = InOrder(rows) /\ Log' = InOrder(rows')
  BY DEF Log, EventAt, InOrder, Top, Seqs

(* The rows of a commit are appended to the log, in the order of theirs.   *)
LEMMA Appended ==
    ASSUME NEW S, Gapless(S), NEW T, Gapless(S \cup T), \A r \in T : r.seq > Top(S),
           Top(S \cup T) >= Top(S)
    PROVE  /\ \A i \in 1..Top(S) : InOrder(S \cup T)[i] = InOrder(S)[i]
           /\ \A i \in Top(S) + 1..Top(S \cup T) : InOrder(S \cup T)[i] \in T
           /\ T # {} => Top(S \cup T) > Top(S)
  <1>1. Top(S) \in Nat /\ Top(S \cup T) \in Nat
    BY GaplessTop
  <1>2. ASSUME NEW i \in 1..Top(S) PROVE InOrder(S \cup T)[i] = InOrder(S)[i]
    <2>1. InOrder(S)[i] \in S \cup T /\ InOrder(S)[i].seq = i
      BY InOrderIs
    <2>. QED BY <2>1, InOrderIs
  <1>3. ASSUME NEW i \in Top(S) + 1..Top(S \cup T) PROVE InOrder(S \cup T)[i] \in T
    <2>1. i \in 1..Top(S \cup T) /\ i \notin 1..Top(S)
      BY <1>1
    <2>2. InOrder(S \cup T)[i] \in S \cup T /\ InOrder(S \cup T)[i].seq = i
      BY <2>1, InOrderIs
    <2>3. InOrder(S \cup T)[i] \notin S
      BY <2>1, <2>2, InOrderIs
    <2>. QED BY <2>2, <2>3
  <1>4. ASSUME NEW r \in T PROVE Top(S \cup T) > Top(S)
    <2>1. r.seq \in 1..Top(S \cup T) /\ r.seq > Top(S)
      BY InOrderIs
    <2>. QED BY <1>1, <2>1
  <1>. QED BY <1>2, <1>3, <1>4

(* A step that commits nothing and shows nothing is a stutter, or settles. *)
LEMMA QuietMaps ==
    ASSUME FeedInv, UNCHANGED <<rows, status, got>>,
           wait' = wait \/ (wait = "open" /\ wait' \in {"told", "rejected", "cancelled"}
                            /\ (wait' = "told" => status = "over"))
    PROVE  [Feed!Next]_<<Log, status = "over", Shown, wait>>
  <1>1. Log' = Log
    BY LogInOrder
  <1>2. Shown' = Shown
    BY DEF Shown, EventAt
  <1>3. (status = "over")' = (status = "over")
    OBVIOUS
  <1>4. CASE wait' = wait
    BY <1>1, <1>2, <1>3, <1>4
  <1>5. CASE wait' # wait
    <2>1. Feed!Settle
      BY <1>1, <1>2, <1>3, <1>5 DEF Feed!Settle, Feed!Outcomes
    <2>. QED BY <2>1 DEF Feed!Next
  <1>. QED BY <1>4, <1>5

LEMMA CommitMaps ==
    ASSUME FeedInv, NEW w \in Writers, Commit(w)
    PROVE  [Feed!Next]_<<Log, status = "over", Shown, wait>>
  <1>. USE WritersAre
  <1>1. LogInv /\ EnderLast
    BY DEF FeedInv
  <1>2. rows' = rows \cup own[w] /\ got' = got /\ wait' = wait /\ tx[w].at = "wrote"
        /\ status' = (IF w = Ender THEN "over" ELSE status)
    BY DEF Commit, connVars, waitVars
  <1>3. Gapless(rows) /\ Gapless(rows') /\ \A r \in own[w] : r.seq > Top(rows)
    BY <1>1, <1>2 DEF LogInv, WriterOK
  <1>4. Top(rows') >= Top(rows) /\ Top(rows) \in Nat /\ Top(rows') \in Nat
    BY <1>1, <1>3, Committed, GaplessTop
  <1>5. /\ Len(Log) = Top(rows) /\ Len(Log') = Top(rows')
        /\ \A i \in 1..Len(Log) : Log'[i] = Log[i]
        /\ \A i \in Len(Log) + 1..Len(Log') : Log'[i] \in own[w]
        /\ own[w] # {} => Len(Log') > Len(Log)
    <2>1. /\ \A i \in 1..Top(rows) : Log'[i] = Log[i]
          /\ \A i \in Top(rows) + 1..Top(rows') : Log'[i] \in own[w]
          /\ own[w] # {} => Top(rows') > Top(rows)
      <3>. DEFINE S == rows
                  T == own[w]
      <3>1. Gapless(S) /\ Gapless(S \cup T) /\ (\A r \in T : r.seq > Top(S))
            /\ Top(S \cup T) >= Top(S) /\ rows' = S \cup T
        BY <1>2, <1>3, <1>4
      <3>2. Log = InOrder(S) /\ Log' = InOrder(S \cup T)
        BY <3>1, LogInOrder
      <3>. HIDE DEF S, T
      <3>3. /\ \A i \in 1..Top(S) : InOrder(S \cup T)[i] = InOrder(S)[i]
            /\ \A i \in Top(S) + 1..Top(S \cup T) : InOrder(S \cup T)[i] \in T
            /\ T # {} => Top(S \cup T) > Top(S)
        BY <3>1, Appended
      <3>. QED BY <3>1, <3>2, <3>3 DEF S, T
    <2>2. Len(Log) = Top(rows) /\ Len(Log') = Top(rows')
      BY <1>3, InOrderIs, LogInOrder
    <2>. QED BY <2>1, <2>2
  <1>6. Shown' = Shown
    <2>1. DOMAIN got = 1..Len(got) /\ \A i \in DOMAIN got : got[i] = i
      BY <1>1, ReaderTypes DEF LogInv, StreamOK, SeenInOrder
    <2>2. \A i \in DOMAIN got : i \in 1..Top(rows) /\ i \in 1..Top(rows')
      BY <1>1, <1>4, <2>1, ReaderTypes
    <2>3. \A i \in DOMAIN got : Log[i] = EventAt(i) /\ Log'[i] = (CHOOSE r \in rows' : r.seq = i)
      BY <2>2 DEF Log, EventAt, Top, Seqs
    <2>4. \A i \in DOMAIN got : Log'[i] = Log[i]
      BY <1>5, <2>2
    <2>5. Shown = [i \in DOMAIN got |-> EventAt(i)]
      BY <2>1 DEF Shown
    <2>6. Shown' = [i \in DOMAIN got |-> CHOOSE r \in rows' : r.seq = i]
      <3>1. Shown' = [i \in DOMAIN got |-> CHOOSE r \in rows' : r.seq = got[i]]
        BY <1>2 DEF Shown, EventAt
      <3>. QED BY <2>1, <3>1
    <2>. QED BY <2>3, <2>4, <2>5, <2>6
  <1>7. own[w] # {} => Feed!Extend
    BY <1>2, <1>5, <1>6 DEF Feed!Extend
  <1>8. CASE w = Ender
    <2>. DEFINE r == [seq |-> Top(rows'), by |-> Ender, n |-> EnderEvents]
    <2>1. r \in own[w]
      BY <1>1, <1>2, <1>8 DEF EnderLast
    <2>2. Log'[Len(Log')] = r
      <3>1. r \in rows' /\ r.seq = Top(rows')
        BY <1>2, <2>1
      <3>2. InOrder(rows')[r.seq] = r
        BY <1>3, <3>1, InOrderIs
      <3>. QED BY <1>5, <3>1, <3>2, LogInOrder
    <2>3. r \in Terminal
      BY <1>4 DEF Terminal
    <2>4. status # "over" /\ status' = "over"
      BY <1>1, <1>2, <1>8 DEF EnderLast
    <2>5. Feed!Complete
      BY <1>7, <2>1, <2>2, <2>3, <2>4 DEF Feed!Complete
    <2>. QED BY <2>5 DEF Feed!Next
  <1>9. CASE w # Ender /\ own[w] # {}
    <2>1. \A r \in own[w] : r \notin Terminal
      BY <1>1, <1>9 DEF Terminal, LogInv, TypeOK
    <2>2. Feed!Appended \cap Terminal = {}
      BY <1>5, <2>1 DEF Feed!Appended
    <2>3. Feed!Publish
      BY <1>2, <1>7, <1>9, <2>2 DEF Feed!Publish
    <2>. QED BY <2>3 DEF Feed!Next
  <1>10. CASE w # Ender /\ own[w] = {}
    <2>1. UNCHANGED <<rows, status, got>>
      BY <1>2, <1>10
    <2>. QED BY <1>2, <2>1, QuietMaps
  <1>. QED BY <1>8, <1>9, <1>10

LEMMA ReceiveMaps ==
    ASSUME FeedInv, Receive
    PROVE  [Feed!Next]_<<Log, status = "over", Shown, wait>>
  <1>1. LogInv
    BY DEF FeedInv
  <1>2. PICK r \in flight : (\A s \in flight : r.seq <= s.seq) /\ got' = Append(got, r.seq)
    BY DEF Receive
  <1>3. rows' = rows /\ status' = status /\ wait' = wait
    BY DEF Receive, logVars
  <1>4. Connected /\ got \in Seq(Nat) /\ Len(got) \in Nat
    BY <1>1, <1>2, ReaderTypes DEF LogInv, StreamOK
  <1>5. /\ Seqs(flight) = (Len(got) + 1)..conn.cursor
        /\ conn.cursor \in Len(got)..Top(rows) /\ conn.cursor \in Nat
    BY <1>1, <1>4, ReaderTypes DEF LogInv, StreamOK
  <1>6. r.seq \in Seqs(flight) /\ \A x \in Seqs(flight) : r.seq <= x
    BY <1>2 DEF Seqs
  <1>7. r.seq = Len(got) + 1 /\ Len(got) + 1 <= Top(rows)
    <2>1. Len(got) + 1 \in Nat /\ r.seq \in (Len(got) + 1)..conn.cursor
      BY <1>4, <1>5, <1>6
    <2>2. r.seq = Len(got) + 1
      BY <1>5, <1>6, <2>1, Least
    <2>. QED BY <1>1, <1>4, <1>5, <2>1, <2>2, ReaderTypes
  <1>8. got' = Append(got, Len(got) + 1)
    BY <1>2, <1>7
  <1>9. Log' = Log /\ Len(Log) = Top(rows) /\ Log[Len(got) + 1] = EventAt(Len(got) + 1)
    <2>1. Log' = Log
      BY <1>3, LogInOrder
    <2>2. Len(Log) = Top(rows)
      BY <1>1, InOrderIs, LogInOrder DEF LogInv
    <2>3. Len(got) + 1 \in 1..Top(rows)
      BY <1>1, <1>4, <1>7, ReaderTypes
    <2>. QED BY <2>1, <2>2, <2>3 DEF Log
  <1>10. Len(Shown) = Len(got) /\ Shown' = Append(Shown, EventAt(Len(got) + 1))
    <2>. DEFINE n == Len(got)
    <2>1. DOMAIN got = 1..n /\ DOMAIN got' = 1..(n + 1)
          /\ (\A i \in 1..n : got'[i] = got[i]) /\ got'[n + 1] = n + 1
      BY <1>4, <1>8
    <2>2. Shown = [i \in 1..n |-> EventAt(got[i])]
      BY <2>1 DEF Shown
    <2>3. Shown' = [i \in 1..(n + 1) |-> EventAt(got'[i])]
      BY <1>3, <2>1 DEF Shown, EventAt
    <2>4. Shown \in Seq({EventAt(got[i]) : i \in 1..n}) /\ Len(Shown) = n
      <3>. DEFINE seen == {EventAt(got[i]) : i \in 1..n}
      <3>1. Shown \in [1..n -> seen]
        BY <2>2
      <3>2. n \in Nat
        BY <1>4
      <3>. HIDE DEF n, seen
      <3>3. Shown \in Seq(seen)
        BY <3>1, <3>2
      <3>4. Len(Shown) = n
        BY <3>1, <3>2, <3>3
      <3>. QED BY <3>3, <3>4 DEF seen
    <2>5. Append(Shown, EventAt(n + 1)) =
             [i \in 1..(n + 1) |-> IF i = n + 1 THEN EventAt(n + 1) ELSE Shown[i]]
      <3>1. n \in Nat
        BY <1>4
      <3>. HIDE DEF n
      <3>. QED BY <2>4, <3>1
    <2>6. ASSUME NEW i \in 1..(n + 1)
          PROVE  EventAt(got'[i]) = IF i = n + 1 THEN EventAt(n + 1) ELSE Shown[i]
      <3>1. CASE i = n + 1
        BY <2>1, <3>1
      <3>2. CASE i # n + 1
        <4>1. i \in 1..n
          BY <1>4, <3>2
        <4>. QED BY <2>1, <2>2, <3>2, <4>1
      <3>. QED BY <3>1, <3>2
    <2>. QED BY <2>3, <2>4, <2>5, <2>6
  <1>11. Len(Shown) < Len(Log)
    BY <1>1, <1>4, <1>7, <1>9, <1>10, ReaderTypes
  <1>12. Feed!Show
    BY <1>3, <1>9, <1>10, <1>11 DEF Feed!Show
  <1>. QED BY <1>12 DEF Feed!Next

LEMMA StepMaps ==
    FeedInv /\ [Next]_vars => [Feed!Next]_<<Log, status = "over", Shown, wait>>
  <1>. SUFFICES ASSUME FeedInv, [Next]_vars
                PROVE  [Feed!Next]_<<Log, status = "over", Shown, wait>>
    OBVIOUS
  <1>1. CASE Emit
    BY <1>1, QuietMaps DEF Emit, logVars, connVars, waitVars
  <1>2. ASSUME NEW w \in Writers, Write(w), ~Commit(w)
        PROVE  [Feed!Next]_<<Log, status = "over", Shown, wait>>
    <2>1. UNCHANGED <<rows, status, got>> /\ wait' = wait
      BY <1>2 DEF Write, Begin, ReadNext, Insert, Collide, Abort, logVars, connVars, waitVars
    <2>. QED BY <2>1, QuietMaps
  <1>3. CASE Crash
    BY <1>3, QuietMaps DEF Crash, logVars, connVars, waitVars
  <1>4. CASE Stream /\ ~Receive
    <2>1. UNCHANGED <<rows, status, got>> /\ wait' = wait
      BY <1>4 DEF Stream, Connect, ReadStatus, ReadEvents, End, Drop, logVars, waitVars
    <2>. QED BY <2>1, QuietMaps
  <1>5. CASE Browser
    <2>1. UNCHANGED <<rows, status, got>>
      BY <1>5 DEF Browser, Tick, Serve, ServeError, Answer, Cancel, logVars, connVars
    <2>2. CASE Tick \/ Serve \/ ServeError
      BY <2>1, <2>2, QuietMaps DEF Tick, Serve, ServeError
    <2>3. CASE Answer
      <3>1. req = "over" => status = "over"
        BY DEF FeedInv, EnderLast
      <3>2. CASE req = "over"
        BY <2>1, <2>3, <3>1, <3>2, QuietMaps DEF Answer, Settle
      <3>3. CASE req = "error"
        BY <2>1, <2>3, <3>3, QuietMaps DEF Answer, Settle
      <3>4. CASE req = "live"
        BY <2>1, <2>3, <3>4, QuietMaps DEF Answer
      <3>. QED BY <2>3, <3>2, <3>3, <3>4 DEF Answer
    <2>4. CASE Cancel
      BY <2>1, <2>4, QuietMaps DEF Cancel, Settle
    <2>. QED BY <1>5, <2>2, <2>3, <2>4 DEF Browser
  <1>6. CASE UNCHANGED vars
    BY <1>6, QuietMaps DEF vars, logVars, connVars, waitVars
  <1>. QED BY <1>1, <1>2, <1>3, <1>4, <1>5, <1>6, CommitMaps, ReceiveMaps DEF Next, Stream

(* Every behaviour of the writers, the stream and the wait is one of       *)
(* EventFeed: the log only grows and ends with the terminal event exactly  *)
(* when the task is over, the browser is shown it event by event, and the  *)
(* promise of waitForTask is told of an end that has come.                 *)
THEOREM StreamRefines == Spec => Refines
  <1>1. Init => Feed!Init
    <2>. SUFFICES ASSUME Init PROVE Feed!Init
      OBVIOUS
    <2>1. Seqs(rows) = 1..0
      BY DEF Init, Seqs
    <2>2. Top(rows) = 0
      BY <2>1, TopIs
    <2>3. Log = <<>>
      BY <2>2 DEF Log
    <2>4. Shown = <<>>
      BY DEF Init, Shown
    <2>. QED BY <2>3, <2>4 DEF Init, Feed!Init
  <1>. QED BY <1>1, StepMaps, FeedInductive, PTL DEF Spec, Refines, Feed!Spec
=============================================================================
