--------------------------- MODULE CircuitBreaker ---------------------------
(***************************************************************************)
(* The three-state circuit breaker of resilience.py, as operators on the   *)
(* record of its fields.  Every method of the class runs without an await, *)
(* so each operator below is one atomic step of the event loop.            *)
(*                                                                         *)
(*   state      _state            "closed", "open" or "half_open"          *)
(*   failures   _failure_count                                             *)
(*   successes  _success_count                                             *)
(*   probes     _half_open_calls                                           *)
(*   age        time.monotonic() - _opened_at, in ticks, cut off at        *)
(*              RecoveryTimeout: the code only compares it with that       *)
(*              value.  _opened_at = None reads as the cut-off value.      *)
(*                                                                         *)
(* A definition named X_Y is X with the slip Y in it; nothing uses it, and *)
(* the project description pairs it with a property that it breaks.        *)
(***************************************************************************)
EXTENDS Integers

CONSTANTS
  FailureThreshold,  \* CircuitBreakerConfig.failure_threshold
  RecoveryTimeout,   \* CircuitBreakerConfig.recovery_timeout, in ticks
  HalfOpenMaxCalls,  \* CircuitBreakerConfig.half_open_max_calls
  SuccessThreshold   \* CircuitBreakerConfig.success_threshold

ASSUME BreakerConfigAssumption ==
  /\ FailureThreshold \in Nat \ {0}
  /\ RecoveryTimeout  \in Nat
  /\ HalfOpenMaxCalls \in Nat \ {0}
  /\ SuccessThreshold \in Nat \ {0}

CircuitState == {"closed", "open", "half_open"}

Breaker ==
  [ state     : CircuitState,
    failures  : 0..FailureThreshold,
    successes : 0..SuccessThreshold,
    probes    : 0..HalfOpenMaxCalls,
    age       : 0..RecoveryTimeout ]

NewBreaker ==
  [ state |-> "closed", failures |-> 0, successes |-> 0, probes |-> 0,
    age |-> RecoveryTimeout ]

\* The clock advances by one tick.
Aged(b) == [b EXCEPT !.age = IF @ < RecoveryTimeout THEN @ + 1 ELSE @]

RecoveryDue(b) == b.state = "open" /\ b.age = RecoveryTimeout

\* OPEN ends at once, whatever the clock says.
MaybeRecover_NoTimeout(b) ==
  IF b.state = "open"
  THEN [b EXCEPT !.state = "half_open", !.probes = 0, !.successes = 0]
  ELSE b

\* OPEN turns HALF_OPEN once the timeout has passed.
MaybeRecover(b) ==
  IF RecoveryDue(b)
  THEN [b EXCEPT !.state = "half_open", !.probes = 0, !.successes = 0]
  ELSE b

\* The last slot of HALF_OPEN is never given out.
Permits_SlotShort(b) ==
  \/ b.state = "closed"
  \/ b.state = "half_open" /\ b.probes + 1 < HalfOpenMaxCalls

\* can_execute() of a breaker on which _maybe_recover() has just run.
Permits(b) ==
  \/ b.state = "closed"
  \/ b.state = "half_open" /\ b.probes < HalfOpenMaxCalls

\* can_execute() as a whole: the answer, and the state it leaves behind.
CanExecute(b) == Permits(MaybeRecover(b))
AfterCanExecute(b) == MaybeRecover(b)

\* The probe is admitted but takes no slot.
PreCall_Uncounted(b) == MaybeRecover(b)

\* The breaker after a pre_call() that did not raise.
PreCall(b) ==
  LET r == MaybeRecover(b)
  IN IF r.state = "half_open" THEN [r EXCEPT !.probes = @ + 1] ELSE r

TripOpen(b) ==
  [b EXCEPT !.state = "open", !.age = 0, !.failures = FailureThreshold,
            !.successes = 0]

TripClosed(b) == NewBreaker

\* A success leaves the count of consecutive failures alone.
RecordSuccess_StreakKept(b) ==
  IF b.state = "half_open"
  THEN IF b.successes + 1 >= SuccessThreshold
       THEN TripClosed(b)
       ELSE [b EXCEPT !.successes = @ + 1]
  ELSE b

\* Every state but HALF_OPEN clears the failure count, OPEN included.
RecordSuccess(b) ==
  IF b.state = "half_open"
  THEN IF b.successes + 1 >= SuccessThreshold
       THEN TripClosed(b)
       ELSE [b EXCEPT !.successes = @ + 1]
  ELSE [b EXCEPT !.failures = 0]

\* The count runs past the threshold instead of saturating.
RecordFailure_Unsaturated(b) ==
  IF b.state = "half_open" \/ b.failures + 1 >= FailureThreshold
  THEN [TripOpen(b) EXCEPT !.failures = b.failures + 1]
  ELSE [b EXCEPT !.failures = @ + 1]

\* Every state but HALF_OPEN counts the failure, OPEN included, where
\* reaching the threshold restarts the timeout.
RecordFailure(b) ==
  IF b.state = "half_open" \/ b.failures + 1 >= FailureThreshold
  THEN TripOpen(b)
  ELSE [b EXCEPT !.failures = @ + 1]

Reset(b) == TripClosed(b)

=============================================================================
