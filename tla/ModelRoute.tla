------------------------------ MODULE ModelRoute ------------------------------
(***************************************************************************)
(* The model gateway of one process: concurrent calls of ModelService      *)
(* ._execute_route (services/model_service.py) over the aliases of a       *)
(* route, with one ProviderCircuitBreaker (services/agent_runtime.py) per  *)
(* model alias, shared by all calls.                                       *)
(*                                                                         *)
(* The event loop runs a call from one await to the next without           *)
(* interruption: recording how an attempt ended, asking the breakers of    *)
(* the aliases that follow and starting the next attempt are one step.     *)
(***************************************************************************)
EXTENDS Naturals, Sequences

CONSTANTS
    Caller,       \* concurrent calls
    Alias,        \* model aliases
    Orders,       \* alias sequences a call may try: primary, fallback
    Threshold,    \* model_circuit_failure_threshold
    Endings       \* how an attempt may end

(***************************************************************************)
(*   success          the model answered                                   *)
(*   unavailable      not configured, authentication, unavailable          *)
(*   stream_timeout   the total budget of a streamed answer ran out        *)
(*   timeout          any other timeout                                    *)
(*   declined         rate limit, or a malformed answer that may fall back *)
(*   invalid          an error that is raised without trying a fallback    *)
(*   cancelled        the call is cancelled, or fails outside the model    *)
(*                    errors: nothing of it is recorded                    *)
(***************************************************************************)
Ending == {"success", "unavailable", "stream_timeout", "timeout", "declined",
           "invalid", "cancelled"}

RouteAssumption ==
    /\ Orders \subseteq Seq(Alias)
    /\ Threshold \in Nat \ {0}
    /\ Endings \subseteq Ending

ASSUME RouteValid == RouteAssumption

VARIABLES
    breaker,   \* alias -> its breaker; opened_at is seen through the clock:
               \* "no", "cooling", or "cooled" once reset_seconds have passed
    call,      \* caller -> the route it walks and where it is
    probes     \* history: recovery probes since the alias last cooled down

vars == <<breaker, call, probes>>

Closed == [failures |-> 0, opened |-> "no", probe |-> FALSE]
Idle == [order |-> <<>>, at |-> 0, stops |-> FALSE, probing |-> FALSE]

Init ==
    /\ breaker = [a \in Alias |-> Closed]
    /\ call = [c \in Caller |-> Idle]
    /\ probes = [a \in Alias |-> 0]

Busy(c) == call[c].at # 0
At(c) == call[c].order[call[c].at]

-----------------------------------------------------------------------------
AllowsClosed(b) == b.opened = "no"   \* variant: no recovery probe

(* ProviderCircuitBreaker.allow_request. *)
Allows(b) == \/ b.opened = "no"
             \/ b.opened = "cooled" /\ ~b.probe

(* record_failure.  Failures past the threshold count as one above it. *)
FailedOnce(b) ==       \* variant: only the failure that reaches the threshold opens
    [failures |-> IF b.failures > Threshold THEN b.failures ELSE b.failures + 1,
     probe |-> FALSE,
     opened |-> IF b.failures + 1 = Threshold THEN "cooling" ELSE b.opened]
FailedLate(b) ==       \* variant: opens one failure too late
    [failures |-> IF b.failures > Threshold THEN b.failures ELSE b.failures + 1,
     probe |-> FALSE,
     opened |-> IF b.failures > Threshold THEN "cooling" ELSE b.opened]
Failed(b) ==
    [failures |-> IF b.failures > Threshold THEN b.failures ELSE b.failures + 1,
     probe |-> FALSE,
     opened |-> IF b.failures + 1 >= Threshold THEN "cooling" ELSE b.opened]

(* What the breaker of the alias learns from the end of an attempt. *)
Trips == {"unavailable", "stream_timeout"}
Recorded(b, ending) == IF ending = "success" THEN Closed
                       ELSE IF ending \in Trips THEN Failed(b) ELSE b

(* The next alias from position k on whose breaker lets the call through.  *)
Admitted(order, k, b) ==
    {j \in k .. Len(order) : /\ Allows(b[order[j]])
                             /\ \A i \in k .. j - 1 : ~Allows(b[order[i]])}

(* The call tries that alias, or it ends because none is left. *)
Attempt(c, order, j, stops, b) ==
    LET a == order[j]
        probing == b[a].opened = "cooled" IN
    /\ breaker' = [b EXCEPT ![a].probe = @ \/ probing]
    /\ call' = [call EXCEPT ![c] = [order |-> order, at |-> j, stops |-> stops,
                                    probing |-> probing]]
    /\ probes' = IF probing THEN [probes EXCEPT ![a] = @ + 1] ELSE probes

Return(c, b) ==
    /\ breaker' = b
    /\ call' = [call EXCEPT ![c] = Idle]
    /\ UNCHANGED probes

TryFrom(c, order, k, stops, b) ==
    \/ \E j \in Admitted(order, k, b) : Attempt(c, order, j, stops, b)
    \/ Admitted(order, k, b) = {} /\ Return(c, b)

-----------------------------------------------------------------------------
(* A call begins; stops: its route does not fall back after a timeout. *)
Begin(c) ==
    /\ ~Busy(c)
    /\ \E order \in Orders, stops \in BOOLEAN : TryFrom(c, order, 1, stops, breaker)

(* The attempt in flight ends. *)
Final(c, ending) ==
    \/ ending \in {"success", "invalid", "cancelled"}
    \/ ending \in {"timeout", "stream_timeout"} /\ call[c].stops

End(c, ending) ==
    /\ Busy(c)
    /\ LET b == [breaker EXCEPT ![At(c)] = Recorded(@, ending)] IN
       IF Final(c, ending) THEN Return(c, b)
       ELSE TryFrom(c, call[c].order, call[c].at + 1, call[c].stops, b)

(* reset_seconds have passed since the breaker opened. *)
CoolDown(a) ==
    /\ breaker[a].opened = "cooling"
    /\ breaker' = [breaker EXCEPT ![a].opened = "cooled"]
    /\ probes' = [probes EXCEPT ![a] = 0]
    /\ UNCHANGED call

Next ==
    \/ \E c \in Caller : Begin(c) \/ \E ending \in Endings : End(c, ending)
    \/ \E a \in Alias : CoolDown(a)

Spec == Init /\ [][Next]_vars

(* Calls keep coming, from one caller or another, and attempts end. *)
Fairness ==
    /\ WF_vars(\E c \in Caller : Begin(c))
    /\ \A c \in Caller : WF_vars(\E ending \in Endings : End(c, ending))

FairSpec == Spec /\ Fairness

-----------------------------------------------------------------------------
Breaker == [failures : 0 .. Threshold + 1, opened : {"no", "cooling", "cooled"},
            probe : BOOLEAN]
Walk == [order : Orders \cup {<<>>}, at : Nat, stops : BOOLEAN, probing : BOOLEAN]

(* Every variable keeps its type, and a call in flight is at one of its    *)
(* aliases.                                                                *)
TypeOK ==
    /\ breaker \in [Alias -> Breaker]
    /\ call \in [Caller -> Walk]
    /\ probes \in [Alias -> Nat]
    /\ \A c \in Caller : Busy(c) => call[c].at \in 1 .. Len(call[c].order)

(* A breaker is open exactly while the failures since the last success     *)
(* reach the threshold, however the ends of concurrent calls interleave    *)
(* (record_success, record_failure).                                       *)
ThresholdKept ==
    \A a \in Alias : breaker[a].opened = "no" <=> breaker[a].failures < Threshold

(* After a cooldown one recovery probe is let through, not a second one,   *)
(* even if calls from before the breaker opened end meanwhile              *)
(* (allow_request, record_failure).                                        *)
OneProbe == \A a \in Alias : probes[a] <= 1

(* A breaker that refuses calls because a probe is in flight has that      *)
(* probe: otherwise nothing will ever reset the flag but a late call       *)
(* (allow_request, _execute_route).                                        *)
ProbeOwned ==
    \A a \in Alias : breaker[a].probe =>
        \E c \in Caller : Busy(c) /\ At(c) = a /\ call[c].probing

(* The alias that every route tries first does not stay cooled, unless a   *)
(* probe has left its flag behind: it is probed, and closes or starts a    *)
(* new cooldown.                                                           *)
Resolves ==
    []ProbeOwned =>
        \A a \in Alias : (\A order \in Orders : order[1] = a) =>
            (breaker[a].opened = "cooled" ~> breaker[a].opened # "cooled")
=============================================================================
