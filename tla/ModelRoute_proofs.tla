--------------------------- MODULE ModelRoute_proofs ---------------------------
(***************************************************************************)
(* Theorems about ModelRoute, for any number of concurrent calls, any set  *)
(* of routes and any threshold.                                            *)
(***************************************************************************)
EXTENDS ModelRoute, TLAPS

(* What every breaker satisfies, with the probes let through since it last *)
(* cooled down: the strengthening of ThresholdKept and OneProbe.  A cooled *)
(* breaker that would let a probe through has let none through so far.     *)
Sound(b, count) ==
    /\ b.opened = "no" <=> b.failures < Threshold
    /\ count <= 1
    /\ b.opened = "cooled" => count = 0 \/ b.probe

AllSound == \A a \in Alias : Sound(breaker[a], probes[a])

RouteInv == TypeOK /\ AllSound

(* Recording keeps a breaker sound, because a failure of an open breaker   *)
(* starts a new cooldown.                                                  *)
LEMMA RecordedSound ==
    ASSUME NEW b \in Breaker, NEW count \in Nat, NEW ending \in Endings, Sound(b, count)
    PROVE  Recorded(b, ending) \in Breaker /\ Sound(Recorded(b, ending), count)
  <1>1. Threshold \in Nat \ {0}
    BY RouteValid DEF RouteAssumption
  <1>2. CASE ending = "success"
    BY <1>1, <1>2 DEF Recorded, Closed, Breaker, Sound
  <1>3. CASE ending \in Trips
    <2>1. Recorded(b, ending) = Failed(b)
      BY <1>3 DEF Recorded, Trips
    <2>2. Failed(b) \in Breaker
      BY <1>1 DEF Failed, Breaker
    <2>3. Sound(Failed(b), count)
      BY <1>1 DEF Failed, Breaker, Sound
    <2>. QED BY <2>1, <2>2, <2>3
  <1>4. CASE ending # "success" /\ ending \notin Trips
    BY <1>4 DEF Recorded
  <1>. QED BY <1>2, <1>3, <1>4

(* Whatever a call does next, started from sound breakers it leaves sound  *)
(* ones: only a cooled breaker without a probe counts a new one.           *)
LEMMA TrySound ==
    ASSUME TypeOK, NEW c \in Caller, NEW order \in Orders, NEW k \in Nat \ {0},
           NEW stops \in BOOLEAN, NEW bs \in [Alias -> Breaker],
           \A a \in Alias : Sound(bs[a], probes[a]),
           TryFrom(c, order, k, stops, bs)
    PROVE  RouteInv'
  <1>1. order \in Seq(Alias)
    BY RouteValid DEF RouteAssumption
  <1>2. CASE Return(c, bs)
    <2>1. Idle \in Walk /\ Idle.at = 0
      BY DEF Idle, Walk
    <2>2. TypeOK'
      BY <1>2, <2>1 DEF Return, TypeOK, Busy
    <2>3. AllSound'
      BY <1>2 DEF Return, AllSound
    <2>. QED BY <2>2, <2>3 DEF RouteInv
  <1>3. ASSUME NEW j \in Admitted(order, k, bs), Attempt(c, order, j, stops, bs)
        PROVE  RouteInv'
    <2> DEFINE a == order[j]
               probing == bs[a].opened = "cooled"
               walk == [order |-> order, at |-> j, stops |-> stops, probing |-> probing]
    <2>1. j \in 1 .. Len(order) /\ a \in Alias /\ Allows(bs[a])
      BY <1>1 DEF Admitted
    <2>2. /\ breaker' = [bs EXCEPT ![a].probe = @ \/ probing]
          /\ call' = [call EXCEPT ![c] = walk]
          /\ probes' = IF probing THEN [probes EXCEPT ![a] = probes[a] + 1] ELSE probes
      BY <1>3 DEF Attempt
    <2>3. walk \in Walk /\ walk.at \in 1 .. Len(walk.order)
      BY <2>1 DEF Walk
    <2>4. probes' \in [Alias -> Nat]
      BY <2>1, <2>2 DEF TypeOK
    <2>5. breaker' \in [Alias -> Breaker]
      BY <2>1, <2>2 DEF Breaker
    <2>6. call' \in [Caller -> Walk]
      BY <2>2, <2>3 DEF TypeOK
    <2>7. \A d \in Caller : Busy(d)' => call'[d].at \in 1 .. Len(call'[d].order)
      BY <2>2, <2>3 DEF TypeOK, Busy
    <2>8. ASSUME NEW x \in Alias PROVE Sound(breaker'[x], probes'[x])
      <3>1. CASE x # a
        <4>1. breaker'[x] = bs[x] /\ probes'[x] = probes[x]
          BY <2>2, <3>1 DEF TypeOK
        <4>. QED BY <4>1
      <3>2. CASE x = a /\ probing
        <4>1. /\ breaker'[x].opened = bs[x].opened
              /\ breaker'[x].failures = bs[x].failures
              /\ breaker'[x].probe = TRUE /\ probes'[x] = probes[x] + 1
          BY <2>1, <2>2, <3>2 DEF TypeOK, Breaker
        <4>2. probes[x] = 0
          BY <2>1, <3>2 DEF Allows, Sound
        <4>. QED BY <4>1, <4>2 DEF Sound
      <3>3. CASE x = a /\ ~probing
        <4>1. /\ breaker'[x].opened = bs[x].opened
              /\ breaker'[x].failures = bs[x].failures
              /\ probes'[x] = probes[x]
          BY <2>1, <2>2, <3>3 DEF TypeOK, Breaker
        <4>. QED BY <3>3, <4>1 DEF Sound
      <3>. QED BY <3>1, <3>2, <3>3
    <2>. QED BY <2>4, <2>5, <2>6, <2>7, <2>8 DEF RouteInv, TypeOK, AllSound
  <1>. QED BY <1>2, <1>3 DEF TryFrom

LEMMA RouteInit == Init => RouteInv
  <1> SUFFICES ASSUME Init PROVE RouteInv
    OBVIOUS
  <1>1. Threshold \in Nat \ {0}
    BY RouteValid DEF RouteAssumption
  <1>2. TypeOK
    BY <1>1 DEF Init, TypeOK, Closed, Idle, Breaker, Walk, Busy
  <1>3. AllSound
    BY <1>1 DEF Init, AllSound, Sound, Closed
  <1>. QED BY <1>2, <1>3 DEF RouteInv

LEMMA RouteStep == RouteInv /\ [Next]_vars => RouteInv'
  <1> SUFFICES ASSUME RouteInv, [Next]_vars PROVE RouteInv'
    OBVIOUS
  <1> USE DEF RouteInv
  <1>1. ASSUME NEW c \in Caller, Begin(c) PROVE RouteInv'
    <2>1. PICK order \in Orders, stops \in BOOLEAN : TryFrom(c, order, 1, stops, breaker)
      BY <1>1 DEF Begin
    <2>. QED BY <2>1, TrySound DEF TypeOK, AllSound
  <1>2. ASSUME NEW c \in Caller, NEW ending \in Endings, End(c, ending) PROVE RouteInv'
    <2> DEFINE a == At(c)
               bs == [breaker EXCEPT ![a] = Recorded(breaker[a], ending)]
    <2>1. /\ call[c] \in Walk /\ call[c].at \in 1 .. Len(call[c].order)
      BY <1>2 DEF End, TypeOK
    <2>2. call[c].order \in Orders /\ call[c].stops \in BOOLEAN
      BY <2>1 DEF Walk
    <2>3. call[c].order \in Seq(Alias)
      BY <2>2, RouteValid DEF RouteAssumption
    <2>4. a \in Alias
      BY <2>1, <2>3 DEF At
    <2>5. Recorded(breaker[a], ending) \in Breaker
          /\ Sound(Recorded(breaker[a], ending), probes[a])
      BY <2>4, RecordedSound DEF TypeOK, AllSound
    <2>6. bs \in [Alias -> Breaker] /\ \A x \in Alias : Sound(bs[x], probes[x])
      BY <2>4, <2>5 DEF TypeOK, AllSound
    <2>7. \/ Return(c, bs)
          \/ TryFrom(c, call[c].order, call[c].at + 1, call[c].stops, bs)
      BY <1>2 DEF End
    <2> HIDE DEF bs
    <2>8. CASE Return(c, bs)
      <3>1. Idle \in Walk /\ Idle.at = 0
        BY DEF Idle, Walk
      <3>2. TypeOK'
        BY <2>6, <2>8, <3>1 DEF Return, TypeOK, Busy
      <3>3. AllSound'
        BY <2>6, <2>8 DEF Return, AllSound
      <3>. QED BY <3>2, <3>3
    <2>9. CASE TryFrom(c, call[c].order, call[c].at + 1, call[c].stops, bs)
      <3>1. call[c].at + 1 \in Nat \ {0}
        BY <2>1
      <3>. QED BY <2>2, <2>6, <2>9, <3>1, TrySound
    <2>. QED BY <2>7, <2>8, <2>9
  <1>3. ASSUME NEW a \in Alias, CoolDown(a) PROVE RouteInv'
    <2>1. TypeOK'
      BY <1>3 DEF CoolDown, TypeOK, Breaker, Busy
    <2>2. AllSound'
      BY <1>3 DEF CoolDown, TypeOK, AllSound, Sound, Breaker
    <2>. QED BY <2>1, <2>2
  <1>4. CASE UNCHANGED vars
    BY <1>4 DEF vars, TypeOK, AllSound, Busy
  <1>. QED BY <1>1, <1>2, <1>3, <1>4 DEF Next

(* Every reachable state of callers and breakers has the types of TypeOK. *)
THEOREM TypeCorrect == Spec => []TypeOK
  <1>1. RouteInv => TypeOK
    BY DEF RouteInv
  <1>. QED BY <1>1, RouteInit, RouteStep, PTL DEF Spec

(* A breaker is open exactly while it counts Threshold failures, whatever  *)
(* the calls that were under way when it opened report (record_failure).   *)
THEOREM OpensAtThreshold == Spec => []ThresholdKept
  <1>1. RouteInv => ThresholdKept
    BY DEF RouteInv, AllSound, Sound, ThresholdKept
  <1>. QED BY <1>1, RouteInit, RouteStep, PTL DEF Spec

(* One probe follows a cooldown, even if calls admitted before the breaker *)
(* opened end meanwhile and reset its flag (allow_request).                *)
THEOREM BreakerSound == Spec => []OneProbe
  <1>1. RouteInv => OneProbe
    BY DEF RouteInv, AllSound, Sound, OneProbe
  <1>. QED BY <1>1, RouteInit, RouteStep, PTL DEF Spec
=============================================================================
