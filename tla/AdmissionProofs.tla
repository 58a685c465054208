--------------------------- MODULE AdmissionProofs ---------------------------
(***************************************************************************)
(* What TLAPS proves, for every value of the constants, of what decides    *)
(* whether a call reaches the API: the circuit breaker with the callers that *)
(* share it (ProtectedCalls), the token bucket with its clients            *)
(* (TokenBucket), and the result cache (ResultCache).  The three do not know *)
(* of each other, and are proved one after another.                        *)
(***************************************************************************)
EXTENDS ProtectedCalls, TokenBucket, ResultCache, LoopLemmas,
        FiniteSetTheorems, SequenceTheorems

----------------------------------------------------------------------------
(***************************************************************************)
(* The circuit breaker                                                     *)
(***************************************************************************)

\* What each breaker state says of the counters and of the history.  The
\* bound on probes in flight needs the slot counter, and the two counts of
\* outcomes need each state's relation between counter and history.
ClosedInv ==
  breaker.state = "closed" =>
    /\ breaker.age = RecoveryTimeout
    /\ breaker.failures = lost
    /\ lost < FailureThreshold
    /\ probing = {}

HalfOpenInv ==
  breaker.state = "half_open" =>
    /\ breaker.age = RecoveryTimeout
    /\ breaker.successes = won
    /\ won < SuccessThreshold
    /\ Cardinality(probing) <= breaker.probes

OpenInv == breaker.state = "open" => probing = {}

IInv == TypeOK /\ ClosedInv /\ HalfOpenInv /\ OpenInv

----------------------------------------------------------------------------
(***************************************************************************)
(* Lemmas on counting                                                      *)
(***************************************************************************)

\* Letting in one more probe raises the count of probes by at most one.
LEMMA OneMoreProbe ==
  ASSUME NEW S, IsFiniteSet(S), NEW c
  PROVE  /\ Cardinality(S) \in Nat
         /\ Cardinality(S \cup {c}) \in Nat
         /\ Cardinality(S \cup {c}) <= Cardinality(S) + 1
  <1>1. Cardinality(S) \in Nat
    BY FS_CardinalityType
  <1>2. Cardinality(S \cup {c}) = IF c \in S THEN Cardinality(S) ELSE Cardinality(S) + 1
    BY FS_AddElement
  <1> QED BY <1>1, <1>2

\* A probe that ends does not raise the count.
LEMMA OneProbeFewer ==
  ASSUME NEW S, IsFiniteSet(S), NEW c
  PROVE  /\ Cardinality(S) \in Nat
         /\ Cardinality(S \ {c}) \in Nat
         /\ Cardinality(S \ {c}) <= Cardinality(S)
  <1>1. Cardinality(S) \in Nat
    BY FS_CardinalityType
  <1>2. IsFiniteSet(S \ {c})
    BY FS_RemoveElement
  <1>3. Cardinality(S \ {c}) \in Nat
    BY <1>2, FS_CardinalityType
  <1>4. (S \ {c}) \in SUBSET S
    OBVIOUS
  <1>5. Cardinality(S \ {c}) <= Cardinality(S)
    BY <1>4, FS_Subset
  <1> QED BY <1>1, <1>3, <1>5

\* Any set of callers is finite.
LEMMA ProbingFinite ==
  ASSUME TypeOK
  PROVE  IsFiniteSet(probing)
  BY FS_Subset, CallsAssumption DEF TypeOK

----------------------------------------------------------------------------
(***************************************************************************)
(* Lemmas on the breaker's methods: what each does in each state           *)
(***************************************************************************)

\* pre_call() that does not raise, from each of the three states.
LEMMA PreCallCases ==
  ASSUME NEW b \in Breaker, CanExecute(b)
  PROVE  /\ PreCall(b) \in Breaker
         /\ b.state = "closed" => PreCall(b) = b
         /\ b.state = "half_open" => PreCall(b) = [b EXCEPT !.probes = b.probes + 1]
         /\ b.state = "open" =>
              /\ b.age = RecoveryTimeout
              /\ PreCall(b) = [b EXCEPT !.state = "half_open", !.probes = 1, !.successes = 0]
  <1> USE BreakerConfigAssumption DEF Breaker, CircuitState
  <1>1. CASE b.state = "closed"
    BY <1>1 DEF CanExecute, Permits, PreCall, MaybeRecover, RecoveryDue
  <1>2. CASE b.state = "half_open"
    <2>1. b.probes + 1 \in 0..HalfOpenMaxCalls
      BY <1>2 DEF CanExecute, Permits, MaybeRecover, RecoveryDue
    <2>2. PreCall(b) = [b EXCEPT !.probes = b.probes + 1]
      BY <1>2 DEF PreCall, MaybeRecover, RecoveryDue
    <2>3. [b EXCEPT !.probes = b.probes + 1] \in Breaker
      BY <2>1
    <2> QED BY <1>2, <2>2, <2>3
  <1>3. CASE b.state = "open"
    <2>1. b.age = RecoveryTimeout
      BY <1>3 DEF CanExecute, Permits, MaybeRecover, RecoveryDue
    <2>2. MaybeRecover(b) = [b EXCEPT !.state = "half_open", !.probes = 0, !.successes = 0]
      BY <1>3, <2>1 DEF MaybeRecover, RecoveryDue
    <2> DEFINE r == [b EXCEPT !.state = "half_open", !.probes = 0, !.successes = 0]
    <2>3. r.state = "half_open" /\ r.probes = 0
      OBVIOUS
    <2>4. PreCall(b) = [r EXCEPT !.probes = 1]
      BY <2>2, <2>3 DEF PreCall
    <2>5. [r EXCEPT !.probes = 1] = [b EXCEPT !.state = "half_open", !.probes = 1, !.successes = 0]
      OBVIOUS
    <2>6. 1 \in 0..HalfOpenMaxCalls /\ 0 \in 0..SuccessThreshold
      OBVIOUS
    <2>7. [b EXCEPT !.state = "half_open", !.probes = 1, !.successes = 0] \in Breaker
      BY <2>6
    <2> QED BY <1>3, <2>1, <2>4, <2>5, <2>7
  <1> QED BY <1>1, <1>2, <1>3

\* A refused pre_call() has nothing to recover: it changes nothing.
LEMMA RefusalChangesNothing ==
  ASSUME NEW b \in Breaker, ~CanExecute(b)
  PROVE  AfterCanExecute(b) = b
  BY BreakerConfigAssumption
  DEF Breaker, CanExecute, Permits, AfterCanExecute, MaybeRecover, RecoveryDue

\* record_success() in HALF_OPEN below and at the threshold, and elsewhere.
LEMMA RecordSuccessCases ==
  ASSUME NEW b \in Breaker
  PROVE  /\ RecordSuccess(b) \in Breaker
         /\ b.state = "half_open" /\ b.successes + 1 >= SuccessThreshold
              => RecordSuccess(b) = NewBreaker
         /\ b.state = "half_open" /\ ~(b.successes + 1 >= SuccessThreshold)
              => RecordSuccess(b) = [b EXCEPT !.successes = b.successes + 1]
         /\ b.state # "half_open" => RecordSuccess(b) = [b EXCEPT !.failures = 0]
  <1> USE BreakerConfigAssumption DEF Breaker, CircuitState, NewBreaker
  <1>1. CASE b.state = "half_open" /\ b.successes + 1 >= SuccessThreshold
    BY <1>1 DEF RecordSuccess, TripClosed
  <1>2. CASE b.state = "half_open" /\ ~(b.successes + 1 >= SuccessThreshold)
    <2>1. b.successes + 1 \in 0..SuccessThreshold
      BY <1>2
    <2>2. RecordSuccess(b) = [b EXCEPT !.successes = b.successes + 1]
      BY <1>2 DEF RecordSuccess
    <2>3. [b EXCEPT !.successes = b.successes + 1] \in Breaker
      BY <2>1
    <2> QED BY <1>2, <2>2, <2>3
  <1>3. CASE b.state # "half_open"
    BY <1>3 DEF RecordSuccess
  <1> QED BY <1>1, <1>2, <1>3

\* record_failure() trips, or counts one more failure.
LEMMA RecordFailureCases ==
  ASSUME NEW b \in Breaker
  PROVE  /\ RecordFailure(b) \in Breaker
         /\ b.state = "half_open" \/ b.failures + 1 >= FailureThreshold
              => RecordFailure(b).state = "open"
         /\ ~(b.state = "half_open" \/ b.failures + 1 >= FailureThreshold)
              => RecordFailure(b) = [b EXCEPT !.failures = b.failures + 1]
  <1> USE BreakerConfigAssumption DEF Breaker, CircuitState
  <1>1. CASE b.state = "half_open" \/ b.failures + 1 >= FailureThreshold
    <2>1. RecordFailure(b) = TripOpen(b)
      BY <1>1 DEF RecordFailure
    <2>2. /\ 0 \in 0..RecoveryTimeout
          /\ FailureThreshold \in 0..FailureThreshold
          /\ 0 \in 0..SuccessThreshold
      OBVIOUS
    <2>3. TripOpen(b) \in Breaker
      BY <2>2 DEF TripOpen
    <2>4. TripOpen(b).state = "open"
      BY DEF TripOpen
    <2> QED BY <1>1, <2>1, <2>3, <2>4
  <1>2. CASE ~(b.state = "half_open" \/ b.failures + 1 >= FailureThreshold)
    <2>1. RecordFailure(b) = [b EXCEPT !.failures = b.failures + 1]
      BY <1>2 DEF RecordFailure
    <2>2. b.failures + 1 \in 0..FailureThreshold
      BY <1>2
    <2>3. [b EXCEPT !.failures = b.failures + 1] \in Breaker
      BY <2>2
    <2> QED BY <1>2, <2>1, <2>3
  <1> QED BY <1>1, <1>2

----------------------------------------------------------------------------
(***************************************************************************)
(* The inductive invariant, action by action                               *)
(***************************************************************************)

LEMMA InitHolds == Init => IInv
  <1> SUFFICES ASSUME Init PROVE IInv
    OBVIOUS
  <1>1. TypeOK
    BY BreakerConfigAssumption, CallsAssumption
    DEF Init, TypeOK, NewBreaker, Breaker, CircuitState, Phase
  <1>2. ClosedInv /\ HalfOpenInv /\ OpenInv
    BY BreakerConfigAssumption DEF Init, NewBreaker, ClosedInv, HalfOpenInv, OpenInv
  <1> QED BY <1>1, <1>2 DEF IInv

LEMMA StartKeeps ==
  ASSUME IInv, NEW c \in Caller, Start(c)
  PROVE  IInv'
  <1> USE BreakerConfigAssumption, CallsAssumption
  <1>1. TypeOK /\ ClosedInv /\ HalfOpenInv /\ OpenInv
    BY DEF IInv
  <1>2. breaker \in Breaker /\ CanExecute(breaker) /\ breaker' = PreCall(breaker)
    BY <1>1 DEF TypeOK, Start
  <1>3. breaker' \in Breaker
    BY <1>2, PreCallCases
  <1>4. TypeOK'
    <2>1. probing' \in SUBSET Caller /\ won' \in 0..SuccessThreshold
      BY <1>1 DEF Start, TypeOK, ProbingAfter, WonAfterRecovery
    <2> QED BY <1>1, <1>3, <2>1 DEF Start, TypeOK, Phase
  <1>5. CASE breaker.state = "closed"
    <2>1. breaker' = breaker
      BY <1>2, <1>5, PreCallCases
    <2>2. probing' = {} /\ UNCHANGED <<won, lost>>
      BY <1>5, <2>1 DEF Start, ProbingAfter, WonAfterRecovery
    <2>3. ClosedInv' /\ HalfOpenInv' /\ OpenInv'
      BY <1>1, <1>5, <2>1, <2>2 DEF ClosedInv, HalfOpenInv, OpenInv
    <2> QED BY <1>4, <2>3 DEF IInv
  <1>6. CASE breaker.state = "half_open"
    <2>1. breaker' = [breaker EXCEPT !.probes = breaker.probes + 1]
      BY <1>2, <1>6, PreCallCases
    <2>2. /\ breaker'.state = "half_open"
          /\ breaker'.probes = breaker.probes + 1
          /\ breaker'.successes = breaker.successes
          /\ breaker'.age = breaker.age
      BY <1>2, <1>6, <2>1 DEF Breaker
    <2>3. probing' = probing \cup {c} /\ UNCHANGED <<won, lost>>
      BY <1>6, <2>2 DEF Start, ProbingAfter, WonAfterRecovery
    <2>4. Cardinality(probing') <= breaker'.probes
      <3>1. IsFiniteSet(probing)
        BY <1>1, ProbingFinite
      <3>2. /\ Cardinality(probing) \in Nat
            /\ Cardinality(probing') \in Nat
            /\ Cardinality(probing') <= Cardinality(probing) + 1
        BY <2>3, <3>1, OneMoreProbe
      <3>3. breaker.probes \in Nat /\ Cardinality(probing) <= breaker.probes
        BY <1>1, <1>2, <1>6 DEF HalfOpenInv, Breaker
      <3> QED BY <2>2, <3>2, <3>3
    <2>5. ClosedInv' /\ HalfOpenInv' /\ OpenInv'
      BY <1>1, <1>6, <2>2, <2>3, <2>4 DEF ClosedInv, HalfOpenInv, OpenInv
    <2> QED BY <1>4, <2>5 DEF IInv
  <1>7. CASE breaker.state = "open"
    <2>1. /\ breaker.age = RecoveryTimeout
          /\ breaker' = [breaker EXCEPT !.state = "half_open", !.probes = 1, !.successes = 0]
      BY <1>2, <1>7, PreCallCases
    <2>2. /\ breaker'.state = "half_open"
          /\ breaker'.probes = 1
          /\ breaker'.successes = 0
          /\ breaker'.age = RecoveryTimeout
      BY <1>2, <2>1 DEF Breaker
    <2>3. probing' = {c} /\ won' = 0
      BY <1>7, <2>2 DEF Start, ProbingAfter, WonAfterRecovery
    <2>4. Cardinality(probing') = 1
      BY <2>3, FS_Singleton
    <2>5. ClosedInv' /\ HalfOpenInv' /\ OpenInv'
      BY <2>2, <2>3, <2>4 DEF ClosedInv, HalfOpenInv, OpenInv
    <2> QED BY <1>4, <2>5 DEF IInv
  <1> QED
    BY <1>2, <1>5, <1>6, <1>7 DEF Breaker, CircuitState

LEMMA RefusedKeeps ==
  ASSUME IInv, NEW c \in Caller, Refused(c)
  PROVE  IInv'
  <1> USE BreakerConfigAssumption, CallsAssumption
  <1>1. TypeOK /\ ClosedInv /\ HalfOpenInv /\ OpenInv
    BY DEF IInv
  <1>2. breaker' = breaker
    BY <1>1, RefusalChangesNothing DEF Refused, TypeOK
  <1>3. TypeOK'
    BY <1>1, <1>2 DEF Refused, Leave, TypeOK, Phase, history
  <1>4. ClosedInv' /\ HalfOpenInv' /\ OpenInv'
    BY <1>1, <1>2 DEF Refused, history, ClosedInv, HalfOpenInv, OpenInv
  <1> QED BY <1>3, <1>4 DEF IInv

LEMMA SucceedKeeps ==
  ASSUME IInv, NEW c \in Caller, Succeed(c)
  PROVE  IInv'
  <1> USE BreakerConfigAssumption, CallsAssumption
  <1>1. TypeOK /\ ClosedInv /\ HalfOpenInv /\ OpenInv
    BY DEF IInv
  <1>2. breaker \in Breaker /\ breaker' = RecordSuccess(breaker)
    BY <1>1 DEF TypeOK, Succeed
  <1>3. breaker' \in Breaker
    BY <1>2, RecordSuccessCases
  <1>4. TypeOK'
    <2>1. probing' \in SUBSET Caller
      BY <1>1 DEF Succeed, TypeOK, ProbingAfter
    <2>2. won' \in 0..SuccessThreshold /\ lost' = 0
      BY <1>1 DEF Succeed, TypeOK, CountTo
    <2> QED BY <1>1, <1>3, <2>1, <2>2 DEF Succeed, Leave, TypeOK, Phase
  <1>5. CASE breaker.state = "half_open" /\ breaker.successes + 1 >= SuccessThreshold
    <2>1. breaker' = NewBreaker
      BY <1>2, <1>5, RecordSuccessCases
    <2>2. probing' = {} /\ lost' = 0
      BY <2>1 DEF Succeed, ProbingAfter, NewBreaker
    <2>3. ClosedInv' /\ HalfOpenInv' /\ OpenInv'
      BY <2>1, <2>2 DEF NewBreaker, ClosedInv, HalfOpenInv, OpenInv
    <2> QED BY <1>4, <2>3 DEF IInv
  <1>6. CASE breaker.state = "half_open" /\ ~(breaker.successes + 1 >= SuccessThreshold)
    <2>1. breaker' = [breaker EXCEPT !.successes = breaker.successes + 1]
      BY <1>2, <1>6, RecordSuccessCases
    <2>2. /\ breaker'.state = "half_open"
          /\ breaker'.probes = breaker.probes
          /\ breaker'.successes = breaker.successes + 1
          /\ breaker'.age = breaker.age
      BY <1>2, <1>6, <2>1 DEF Breaker
    <2>3. probing' = probing \ {c}
      BY <1>6, <2>2 DEF Succeed, ProbingAfter
    <2>4. won' = won + 1 /\ won + 1 < SuccessThreshold /\ breaker.successes = won
      BY <1>1, <1>2, <1>6 DEF Succeed, CountTo, HalfOpenInv, TypeOK, Breaker
    <2>5. Cardinality(probing') <= breaker'.probes
      <3>1. IsFiniteSet(probing)
        BY <1>1, ProbingFinite
      <3>2. /\ Cardinality(probing) \in Nat
            /\ Cardinality(probing') \in Nat
            /\ Cardinality(probing') <= Cardinality(probing)
        BY <2>3, <3>1, OneProbeFewer
      <3>3. breaker.probes \in Nat /\ Cardinality(probing) <= breaker.probes
        BY <1>1, <1>2, <1>6 DEF HalfOpenInv, Breaker
      <3> QED BY <2>2, <3>2, <3>3
    <2>6. ClosedInv' /\ HalfOpenInv' /\ OpenInv'
      BY <1>1, <1>6, <2>2, <2>4, <2>5 DEF ClosedInv, HalfOpenInv, OpenInv
    <2> QED BY <1>4, <2>6 DEF IInv
  <1>7. CASE breaker.state # "half_open"
    <2>1. breaker' = [breaker EXCEPT !.failures = 0]
      BY <1>2, <1>7, RecordSuccessCases
    <2>2. /\ breaker'.state = breaker.state
          /\ breaker'.failures = 0
          /\ breaker'.age = breaker.age
      BY <1>2, <2>1 DEF Breaker
    <2>3. probing' = {} /\ lost' = 0
      BY <1>7, <2>2 DEF Succeed, ProbingAfter
    <2>4. ClosedInv' /\ HalfOpenInv' /\ OpenInv'
      BY <1>1, <1>7, <2>2, <2>3 DEF ClosedInv, HalfOpenInv, OpenInv
    <2> QED BY <1>4, <2>4 DEF IInv
  <1> QED BY <1>5, <1>6, <1>7

LEMMA FailKeeps ==
  ASSUME IInv, NEW c \in Caller, Fail(c)
  PROVE  IInv'
  <1> USE BreakerConfigAssumption, CallsAssumption
  <1>1. TypeOK /\ ClosedInv /\ HalfOpenInv /\ OpenInv
    BY DEF IInv
  <1>2. breaker \in Breaker /\ breaker' = RecordFailure(breaker)
    BY <1>1 DEF TypeOK, Fail
  <1>3. breaker' \in Breaker
    BY <1>2, RecordFailureCases
  <1>4. TypeOK'
    <2>1. probing' \in SUBSET Caller
      BY <1>1 DEF Fail, TypeOK, ProbingAfter
    <2>2. lost' \in 0..FailureThreshold
      BY <1>1 DEF Fail, TypeOK, CountTo
    <2>4. won' \in 0..SuccessThreshold
      <3>1. 0 \in 0..SuccessThreshold
        OBVIOUS
      <3> QED BY <3>1 DEF Fail
    <2>3. /\ phase' \in [Caller -> Phase]
          /\ attempt' \in [Caller -> 0..MaxRetries]
          /\ doomed' \in SUBSET Caller
      <3>1. CASE attempt[c] >= MaxRetries
        BY <1>1, <3>1 DEF Fail, Leave, TypeOK, Phase
      <3>2. CASE ~(attempt[c] >= MaxRetries)
        <4>1. attempt[c] + 1 \in 0..MaxRetries
          BY <1>1, <3>2 DEF TypeOK
        <4>2. attempt' = [attempt EXCEPT ![c] = attempt[c] + 1]
          BY <3>2 DEF Fail
        <4>3. attempt' \in [Caller -> 0..MaxRetries]
          BY <1>1, <4>1, <4>2 DEF TypeOK
        <4>4. phase' \in [Caller -> Phase] /\ doomed' \in SUBSET Caller
          BY <1>1, <3>2 DEF Fail, TypeOK, Phase
        <4> QED BY <4>3, <4>4
      <3> QED BY <3>1, <3>2
    <2> QED BY <1>1, <1>3, <2>1, <2>2, <2>3, <2>4 DEF Fail, TypeOK
  <1>5. CASE breaker.state = "half_open" \/ breaker.failures + 1 >= FailureThreshold
    <2>1. breaker'.state = "open"
      BY <1>2, <1>5, RecordFailureCases
    <2>2. probing' = {}
      BY <2>1 DEF Fail, ProbingAfter
    <2>3. ClosedInv' /\ HalfOpenInv' /\ OpenInv'
      BY <2>1, <2>2 DEF ClosedInv, HalfOpenInv, OpenInv
    <2> QED BY <1>4, <2>3 DEF IInv
  <1>6. CASE ~(breaker.state = "half_open" \/ breaker.failures + 1 >= FailureThreshold)
    <2>1. breaker' = [breaker EXCEPT !.failures = breaker.failures + 1]
      BY <1>2, <1>6, RecordFailureCases
    <2>2. /\ breaker'.state = breaker.state
          /\ breaker'.failures = breaker.failures + 1
          /\ breaker'.age = breaker.age
      BY <1>2, <2>1 DEF Breaker
    <2>3. probing' = {}
      BY <1>6, <2>2 DEF Fail, ProbingAfter
    <2>4. breaker.state = "closed" => lost' = breaker'.failures /\ lost' < FailureThreshold
      <3> SUFFICES ASSUME breaker.state = "closed"
                   PROVE  lost' = breaker'.failures /\ lost' < FailureThreshold
        OBVIOUS
      <3>1. breaker.failures = lost /\ lost < FailureThreshold
        BY <1>1 DEF ClosedInv
      <3>2. lost' = lost + 1
        BY <3>1 DEF Fail, CountTo
      <3>3. breaker.failures \in Nat
        BY <1>2 DEF Breaker
      <3> QED BY <1>6, <2>2, <3>1, <3>2, <3>3
    <2>5. ClosedInv' /\ HalfOpenInv' /\ OpenInv'
      BY <1>1, <1>6, <2>2, <2>3, <2>4 DEF ClosedInv, HalfOpenInv, OpenInv
    <2> QED BY <1>4, <2>5 DEF IInv
  <1> QED BY <1>5, <1>6

LEMMA AbandonKeeps ==
  ASSUME IInv, NEW c \in Caller, Abandon(c)
  PROVE  IInv'
  <1> USE BreakerConfigAssumption, CallsAssumption
  <1>1. TypeOK /\ ClosedInv /\ HalfOpenInv /\ OpenInv
    BY DEF IInv
  <1>2. UNCHANGED <<breaker, lost, won>> /\ probing' = probing \ {c}
    BY DEF Abandon
  <1>3. TypeOK'
    BY <1>1, <1>2 DEF Abandon, Leave, TypeOK, Phase
  <1>4. Cardinality(probing') <= Cardinality(probing)
        /\ Cardinality(probing) \in Nat /\ Cardinality(probing') \in Nat
    BY <1>1, <1>2, ProbingFinite, OneProbeFewer
  <1>5. breaker.probes \in Nat
    BY <1>1 DEF TypeOK, Breaker
  <1>6. ClosedInv' /\ HalfOpenInv' /\ OpenInv'
    BY <1>1, <1>2, <1>4, <1>5 DEF ClosedInv, HalfOpenInv, OpenInv
  <1> QED BY <1>3, <1>6 DEF IInv

LEMMA PollKeeps ==
  ASSUME IInv, Poll
  PROVE  IInv'
  <1> USE BreakerConfigAssumption, CallsAssumption
  <1>1. TypeOK /\ ClosedInv /\ HalfOpenInv /\ OpenInv
    BY DEF IInv
  <1>2. /\ breaker \in Breaker /\ breaker.state = "open" /\ breaker.age = RecoveryTimeout
        /\ breaker' = [breaker EXCEPT !.state = "half_open", !.probes = 0, !.successes = 0]
    BY <1>1 DEF Poll, AfterCanExecute, MaybeRecover, RecoveryDue, TypeOK
  <1>3. /\ breaker' \in Breaker
        /\ breaker'.state = "half_open" /\ breaker'.probes = 0
        /\ breaker'.successes = 0 /\ breaker'.age = RecoveryTimeout
    <2>1. 0 \in 0..HalfOpenMaxCalls /\ 0 \in 0..SuccessThreshold
      OBVIOUS
    <2> QED BY <1>2, <2>1 DEF Breaker, CircuitState
  <1>4. probing' = {} /\ won' = 0
    BY <1>2, <1>3 DEF Poll, ProbingAfter, WonAfterRecovery
  <1>5. TypeOK'
    BY <1>1, <1>3, <1>4 DEF Poll, TypeOK, callVars
  <1>6. Cardinality(probing') = 0
    BY <1>4, FS_EmptySet
  <1>7. ClosedInv' /\ HalfOpenInv' /\ OpenInv'
    BY <1>3, <1>4, <1>6 DEF ClosedInv, HalfOpenInv, OpenInv
  <1> QED BY <1>5, <1>7 DEF IInv

LEMMA ForceResetKeeps ==
  ASSUME IInv, ForceReset
  PROVE  IInv'
  <1> USE BreakerConfigAssumption, CallsAssumption
  <1>1. breaker' = NewBreaker /\ probing' = {} /\ lost' = 0
    BY DEF ForceReset, Reset, TripClosed
  <1>2. TypeOK'
    BY <1>1 DEF IInv, ForceReset, TypeOK, callVars, NewBreaker, Breaker, CircuitState
  <1>3. ClosedInv' /\ HalfOpenInv' /\ OpenInv'
    BY <1>1 DEF NewBreaker, ClosedInv, HalfOpenInv, OpenInv
  <1> QED BY <1>2, <1>3 DEF IInv

LEMMA TickKeeps ==
  ASSUME IInv, Tick
  PROVE  IInv'
  <1> USE BreakerConfigAssumption, CallsAssumption
  <1>1. TypeOK /\ ClosedInv /\ HalfOpenInv /\ OpenInv
    BY DEF IInv
  <1>2. breaker \in Breaker /\ breaker.age < RecoveryTimeout
    BY <1>1 DEF Tick, TypeOK
  <1>3. breaker.state = "open"
    BY <1>1, <1>2 DEF ClosedInv, HalfOpenInv, Breaker, CircuitState
  <1>4. breaker' = [breaker EXCEPT !.age = breaker.age + 1]
    BY <1>2 DEF Tick, Aged
  <1>5. breaker' \in Breaker /\ breaker'.state = "open"
    <2>1. breaker.age + 1 \in 0..RecoveryTimeout
      BY <1>2 DEF Breaker
    <2> QED BY <1>2, <1>3, <1>4, <2>1 DEF Breaker
  <1>6. TypeOK'
    BY <1>1, <1>5 DEF Tick, TypeOK, callVars, history
  <1>7. ClosedInv' /\ HalfOpenInv' /\ OpenInv'
    BY <1>1, <1>3, <1>5 DEF Tick, history, ClosedInv, HalfOpenInv, OpenInv
  <1> QED BY <1>6, <1>7 DEF IInv

\* Every step, and a stuttering step, preserves the inductive invariant.
LEMMA NextKeeps == IInv /\ [Next]_vars => IInv'
  <1> SUFFICES ASSUME IInv, [Next]_vars PROVE IInv'
    OBVIOUS
  <1>1. CASE Heal
    BY <1>1 DEF IInv, Heal, TypeOK, callVars, history, ClosedInv, HalfOpenInv, OpenInv
  <1>2. CASE UNCHANGED vars
    BY <1>2 DEF IInv, vars, TypeOK, callVars, history, ClosedInv, HalfOpenInv, OpenInv
  <1> QED
    BY <1>1, <1>2, StartKeeps, RefusedKeeps, SucceedKeeps, FailKeeps, AbandonKeeps,
       PollKeeps, ForceResetKeeps, TickKeeps DEF Next

----------------------------------------------------------------------------
(***************************************************************************)
(* The theorems                                                            *)
(***************************************************************************)

\* The invariant above holds throughout.
LEMMA Invariant == Spec => []IInv
  BY InitHolds, NextKeeps, PTL DEF Spec

\* The breaker's counters and the callers' states keep their ranges,
\* whatever the calls and the clock do.
THEOREM TypeCorrect == Spec => []TypeOK
  <1>1. IInv => TypeOK
    BY DEF IInv
  <1> QED BY <1>1, Invariant, PTL

\* pre_call() never has more than half_open_max_calls of a HALF_OPEN
\* period's own calls in flight at once.
THEOREM ProbesAreBounded == Spec => []ProbesBounded
  <1>1. IInv => ProbesBounded
    <2> SUFFICES ASSUME IInv PROVE Cardinality(probing) <= HalfOpenMaxCalls
      BY DEF ProbesBounded
    <2>1. breaker \in Breaker
      BY DEF IInv, TypeOK
    <2>2. CASE breaker.state = "half_open"
      <3>1. Cardinality(probing) <= breaker.probes /\ breaker.probes \in 0..HalfOpenMaxCalls
        BY <2>1, <2>2 DEF IInv, HalfOpenInv, Breaker
      <3>2. Cardinality(probing) \in Nat
        BY ProbingFinite, FS_CardinalityType DEF IInv
      <3> QED BY <3>1, <3>2, BreakerConfigAssumption
    <2>3. CASE breaker.state # "half_open"
      <3>1. probing = {}
        BY <2>1, <2>3 DEF IInv, ClosedInv, OpenInv, Breaker, CircuitState
      <3> QED BY <3>1, FS_EmptySet, BreakerConfigAssumption
    <2> QED BY <2>2, <2>3
  <1> QED BY <1>1, Invariant, PTL

\* A closed breaker's failure count is exactly the current run of recorded
\* failures, and is below the threshold.
THEOREM StreakIsExact == Spec => []StreakExact
  <1>1. IInv => StreakExact
    BY DEF IInv, ClosedInv, StreakExact
  <1> QED BY <1>1, Invariant, PTL

\* Both of the breaker's counts hold (CountsHold), for any callers and any
\* configuration.
THEOREM CountsAlwaysHold == Spec => []CountsHold
  <1>1. ProbesBounded /\ StreakExact => CountsHold
    BY DEF CountsHold
  <1> QED BY <1>1, ProbesAreBounded, StreakIsExact, PTL

\* After a trip, no attempt starts before recovery_timeout has passed
\* (unless reset() intervenes), retries and late outcomes included.
THEOREM QuietAfterTrip == Spec => QuietPeriod
  <1> DEFINE Quiet ==
        \A c \in Caller :
          phase[c] # "running" /\ phase'[c] = "running" => breaker.age = RecoveryTimeout
  <1>1. IInv /\ [Next]_vars => [Quiet]_vars
    <2> SUFFICES ASSUME IInv, Next, NEW c \in Caller,
                        phase[c] # "running", phase'[c] = "running"
                 PROVE  breaker.age = RecoveryTimeout
      OBVIOUS
    <2>1. breaker \in Breaker /\ phase \in [Caller -> Phase]
      BY DEF IInv, TypeOK
    <2>2. PICK d \in Caller : Start(d)
      BY <2>1 DEF Next, Refused, Succeed, Fail, Abandon, Leave, Poll, ForceReset,
                  Tick, Heal, callVars
    <2>3. CanExecute(breaker)
      BY <2>2 DEF Start
    <2>4. breaker.state = "open" => breaker.age = RecoveryTimeout
      BY <2>1, <2>3, PreCallCases
    <2> QED BY <2>1, <2>4 DEF IInv, ClosedInv, HalfOpenInv, Breaker, CircuitState
  <1> QED BY <1>1, Invariant, PTL DEF Spec, QuietPeriod

\* Without reset(), the breaker leaves OPEN or HALF_OPEN for CLOSED only on
\* success_threshold successes in a row in HALF_OPEN.
THEOREM ClosesOnlyOnSuccesses == Spec => ClosesOnSuccesses
  <1> DEFINE Earned ==
        breaker.state # "closed" /\ breaker'.state = "closed"
          => \/ ForceReset
             \/ breaker.state = "half_open" /\ won' >= SuccessThreshold
  <1>1. IInv /\ [Next]_vars => [Earned]_vars
    <2> SUFFICES ASSUME IInv, Next, ~ForceReset,
                        breaker.state # "closed", breaker'.state = "closed"
                 PROVE  breaker.state = "half_open" /\ won' >= SuccessThreshold
      OBVIOUS
    <2>1. breaker \in Breaker
      BY DEF IInv, TypeOK
    <2>2. ASSUME NEW c \in Caller, Start(c) PROVE FALSE
      <3>1. CanExecute(breaker) /\ breaker' = PreCall(breaker)
        BY <2>2 DEF Start
      <3> QED BY <2>1, <3>1, PreCallCases DEF Breaker, CircuitState
    <2>3. ASSUME NEW c \in Caller, Refused(c) PROVE FALSE
      BY <2>1, <2>3, RefusalChangesNothing DEF Refused
    <2>4. ASSUME NEW c \in Caller, Fail(c) PROVE FALSE
      <3>1. breaker' = RecordFailure(breaker)
        BY <2>4 DEF Fail
      <3> QED BY <2>1, <3>1, RecordFailureCases DEF Breaker, CircuitState
    <2>5. ~Poll /\ ~Tick
      BY <2>1 DEF Poll, AfterCanExecute, MaybeRecover, RecoveryDue, Tick, Aged, Breaker
    <2>6. PICK c \in Caller : Succeed(c)
      BY <2>2, <2>3, <2>4, <2>5 DEF Next, Abandon, Heal
    <2>7. breaker' = RecordSuccess(breaker)
      BY <2>6 DEF Succeed
    <2>8. breaker.state = "half_open" /\ breaker.successes + 1 >= SuccessThreshold
      BY <2>1, <2>7, RecordSuccessCases DEF Breaker, CircuitState
    <2>9. breaker.successes = won /\ won \in 0..SuccessThreshold
      BY <2>8 DEF IInv, HalfOpenInv, TypeOK
    <2> QED BY <2>6, <2>8, <2>9, BreakerConfigAssumption DEF Succeed, CountTo
  <1> QED BY <1>1, Invariant, PTL DEF Spec, ClosesOnSuccesses

----------------------------------------------------------------------------
(***************************************************************************)
(* The token bucket                                                        *)
(***************************************************************************)

\* What _refill() makes of t tokens after e ticks.
Accrued(t, e) == AtMost(Capacity, t + e * Rate)

\* It is between none and Capacity tokens.
LEMMA AccruedType ==
  ASSUME NEW t \in 0..Capacity, NEW e \in 0..Capacity
  PROVE  Accrued(t, e) \in 0..Capacity
  <1>1. Rate \in Nat /\ Capacity \in Nat
    BY BucketAssumption
  <1>2. e * Rate \in Nat
    BY <1>1
  <1> QED
    BY <1>1, <1>2 DEF Accrued, AtMost

\* It is what was there, if no time has passed.
LEMMA AccruedAtOnce ==
  ASSUME NEW t \in 0..Capacity
  PROVE  Accrued(t, 0) = t
  <1>1. Rate \in Nat /\ Capacity \in Nat
    BY BucketAssumption
  <1>2. 0 * Rate = 0
    BY <1>1
  <1> QED
    BY <1>1, <1>2 DEF Accrued, AtMost

LEMMA RefilledIsAccrued == Refilled = Accrued(tokens, elapsed)
  BY DEF Refilled, Accrued

LEMMA RefilledType ==
  ASSUME tokens \in 0..Capacity, elapsed \in 0..Capacity
  PROVE  Refilled \in 0..Capacity
  BY AccruedType, RefilledIsAccrued

\* A tick adds at most Rate to what a refill would find.
LEMMA AccruedGrowth ==
  ASSUME NEW t \in 0..Capacity, NEW e \in 0..Capacity
  PROVE  Accrued(t, AtMost(Capacity, e + 1)) <= Accrued(t, e) + Rate
  <1>1. Rate \in Nat /\ Rate >= 1 /\ Capacity \in Nat /\ Capacity >= 1
    BY BucketAssumption
  <1>2. e * Rate \in Nat /\ (e + 1) * Rate = e * Rate + Rate
    BY <1>1
  <1>3. CASE e + 1 < Capacity
    <2>1. AtMost(Capacity, e + 1) = e + 1
      BY <1>3 DEF AtMost
    <2> QED
      BY <1>1, <1>2, <2>1 DEF Accrued, AtMost
  <1>4. CASE ~(e + 1 < Capacity)
    <2>1. AtMost(Capacity, e + 1) = Capacity
      BY <1>4 DEF AtMost
    <2>2. Capacity * Rate \in Nat /\ Capacity * Rate <= (e + 1) * Rate
      BY <1>1, <1>4
    <2> QED
      BY <1>1, <1>2, <2>1, <2>2 DEF Accrued, AtMost
  <1> QED
    BY <1>3, <1>4

\* What taking n tokens does to the three variables it is about.
LEMMA TakeOrWaitEffect ==
  ASSUME BucketTypeOK, NEW n \in Amount, TakeOrWait(n)
  PROVE  /\ tokens' \in 0..Capacity
         /\ elapsed' = 0
         /\ spent' \in Nat
         /\ spent' + tokens' = spent + Refilled
  <1>1. Refilled \in 0..Capacity
    BY RefilledType DEF BucketTypeOK
  <1>2. spent \in Nat /\ n \in Nat /\ Capacity \in Nat
    BY BucketAssumption DEF BucketTypeOK, Amount
  <1> QED
    BY <1>1, <1>2 DEF TakeOrWait, Amount

\* How long a waiter sleeps: never more ticks than the bucket has room for.
LEMMA WaitForType ==
  ASSUME BucketTypeOK, NEW n \in Amount, ~(Refilled >= n)
  PROVE  WaitFor(n) \in 0..Capacity
  <1>1. Refilled \in 0..Capacity
    BY RefilledType DEF BucketTypeOK
  <1>2. Rate \in Nat /\ Rate >= 1 /\ Capacity \in Nat
    BY BucketAssumption
  <1> DEFINE missing == n - Refilled
  <1>3. missing \in Nat /\ missing >= 1 /\ missing <= Capacity
    BY <1>1, <1>2 DEF Amount
  <1>4. ASSUME NEW m \in Nat, m >= 1, m <= Capacity
        PROVE  (m + Rate - 1) \div Rate \in 0..Capacity
    <2>1. (m + Rate - 1) \div Rate \in Int
      BY <1>2, <1>4
    <2> DEFINE q == (m + Rate - 1) \div Rate
    <2>2. q * Rate <= m + Rate - 1 /\ m + Rate - 1 < (q + 1) * Rate
      BY <1>2, <1>4
    <2>3. q >= 0
      BY <1>2, <1>4, <2>2
    <2>4. q <= m
      <3>1. SUFFICES ASSUME q >= m + 1 PROVE FALSE
        BY <2>1, <1>4
      <3>2. q * Rate >= (m + 1) * Rate
        BY <1>2, <1>4, <2>1, <3>1
      <3>3. (m + 1) * Rate = m * Rate + Rate /\ m * Rate >= m
        BY <1>2, <1>4
      <3> QED
        BY <1>2, <1>4, <2>1, <2>2, <3>2, <3>3
    <2> QED
      BY <1>2, <1>4, <2>1, <2>3, <2>4
  <1> QED
    BY <1>3, <1>4 DEF WaitFor

----------------------------------------------------------------------------
LEMMA TypeInit == BucketInit => BucketTypeOK
  <1>1. Capacity \in Nat /\ 0 \in 0..Capacity /\ Capacity \in 0..Capacity
    BY BucketAssumption
  <1>2. 0 \in 0..MaxTries /\ 0 \in 0..Window
    BY BucketAssumption
  <1> QED
    BY <1>1, <1>2 DEF BucketInit, BucketTypeOK

LEMMA TypeNext == BucketTypeOK /\ [BucketNext]_bucketVars => BucketTypeOK'
  <1> SUFFICES ASSUME BucketTypeOK, [BucketNext]_bucketVars PROVE BucketTypeOK'
    OBVIOUS
  <1> USE BucketAssumption
  <1>0. Capacity \in Nat /\ 0 \in 0..Capacity /\ 0 \in 0..Window
    OBVIOUS
  <1>1. ASSUME NEW c \in Client, Cancel(c) PROVE BucketTypeOK'
    <2>1. lock' \in Seq(Client \X Amount)
      <3>1. PICK i \in DOMAIN lock :
              lock' = SubSeq(lock, 1, i - 1) \o SubSeq(lock, i + 1, Len(lock))
        BY <1>1 DEF Cancel
      <3>2. lock \in Seq(Client \X Amount) /\ i \in 1..Len(lock)
        BY DEF BucketTypeOK
      <3>3. SubSeq(lock, 1, i - 1) \in Seq(Client \X Amount)
        BY <3>2, SubSeqProperties
      <3>4. SubSeq(lock, i + 1, Len(lock)) \in Seq(Client \X Amount)
        BY <3>2, SubSeqProperties
      <3> QED
        BY <3>1, <3>3, <3>4
    <2> QED
      BY <1>0, <1>1, <2>1 DEF Cancel, BucketTypeOK
  <1>2. ASSUME NEW c \in Client, NEW n \in Amount, Arrive(c, n) PROVE BucketTypeOK'
    BY <1>2 DEF Arrive, BucketTypeOK
  <1>3. ASSUME NEW n \in Amount, TryAcquire(n) PROVE BucketTypeOK'
    <2>1. tokens' \in 0..Capacity /\ elapsed' = 0 /\ spent' \in Nat
      BY <1>3, TakeOrWaitEffect DEF TryAcquire
    <2>2. tries' \in 0..MaxTries
      BY <1>3 DEF TryAcquire, BucketTypeOK
    <2> QED
      BY <1>0, <1>3, <2>1, <2>2 DEF TryAcquire, BucketTypeOK
  <1>4. CASE Loop
    <2> DEFINE n == Head(lock)[2]
    <2>1. n \in Amount
      BY <1>4 DEF Loop, BucketTypeOK
    <2>2. TakeOrWait(n)
      BY <1>4 DEF Loop
    <2>3. tokens' \in 0..Capacity /\ elapsed' = 0 /\ spent' \in Nat
      BY <2>1, <2>2, TakeOrWaitEffect
    <2>4. CASE Refilled >= n
      <3>1. lock' = Tail(lock) /\ sleep' = sleep
        BY <1>4, <2>4 DEF Loop
      <3>2. lock' \in Seq(Client \X Amount)
        BY <1>4, <3>1 DEF Loop, BucketTypeOK
      <3> QED
        BY <1>0, <1>4, <2>3, <3>1, <3>2 DEF Loop, BucketTypeOK
    <2>5. CASE ~(Refilled >= n)
      <3>1. lock' = lock /\ sleep' = WaitFor(n)
        BY <1>4, <2>5 DEF Loop
      <3>2. sleep' \in 0..Capacity
        BY <2>1, <2>5, <3>1, WaitForType
      <3> QED
        BY <1>0, <1>4, <2>3, <3>1, <3>2 DEF Loop, BucketTypeOK
    <2> QED
      BY <2>4, <2>5
  <1>5. CASE BucketTick
    <2>1. elapsed' \in 0..Capacity /\ sleep' \in 0..Capacity
      BY <1>0, <1>5 DEF BucketTick, BucketTypeOK, AtMost
    <2>2. since' \in 0..Window /\ spent' \in Nat
      BY <1>0, <1>5 DEF BucketTick, BucketTypeOK
    <2> QED
      BY <1>5, <2>1, <2>2 DEF BucketTick, BucketTypeOK
  <1>6. CASE Observe
    BY <1>0, <1>6 DEF Observe, BucketTypeOK
  <1>7. CASE UNCHANGED bucketVars
    BY <1>7 DEF bucketVars, BucketTypeOK
  <1> QED
    BY <1>1, <1>2, <1>3, <1>4, <1>5, <1>6, <1>7 DEF BucketNext

\* Every variable of the bucket stays in its range: among others, there are
\* never less than no tokens, nor more than the capacity.
THEOREM BucketTypeCorrect == BucketSpec => []BucketTypeOK
  BY TypeInit, TypeNext, PTL DEF BucketSpec

----------------------------------------------------------------------------
\* What the bound rests on: even the tokens that a refill would find now
\* could be consumed without breaking it.
Reserve == spent + Refilled <= Capacity + Rate * since

LEMMA ReserveInit == BucketInit => Reserve
  <1> SUFFICES ASSUME BucketInit PROVE Reserve
    OBVIOUS
  <1>1. Rate \in Nat /\ Capacity \in Nat /\ Capacity \in 0..Capacity
    BY BucketAssumption
  <1>2. tokens = Capacity /\ elapsed = 0 /\ spent = 0 /\ since = 0
    BY DEF BucketInit
  <1>3. Refilled = Capacity
    BY <1>1, <1>2, AccruedAtOnce, RefilledIsAccrued
  <1>4. Rate * 0 = 0
    BY <1>1
  <1> QED
    BY <1>1, <1>2, <1>3, <1>4 DEF Reserve

\* A refill right after the tokens were taken finds what was left.
LEMMA ReserveKept ==
  ASSUME BucketTypeOK, Reserve, NEW n \in Amount, TakeOrWait(n), since' = since
  PROVE  Reserve'
  <1>1. /\ tokens' \in 0..Capacity
        /\ elapsed' = 0
        /\ spent' + tokens' = spent + Refilled
    BY TakeOrWaitEffect
  <1>5. Refilled' = tokens'
    <2>1. Refilled' = Accrued(tokens', elapsed')
      BY DEF Refilled, Accrued
    <2> QED
      BY <1>1, <2>1, AccruedAtOnce
  <1> DEFINE limit == Capacity + Rate * since
  <1>6. limit' = limit /\ spent + Refilled <= limit
    BY DEF Reserve
  <1> HIDE DEF limit
  <1>7. spent' + Refilled' <= limit'
    BY <1>1, <1>5, <1>6
  <1> QED
    BY <1>7 DEF Reserve, limit

LEMMA ReserveNext == BucketTypeOK /\ Reserve /\ [BucketNext]_bucketVars => Reserve'
  <1> SUFFICES ASSUME BucketTypeOK, Reserve, [BucketNext]_bucketVars PROVE Reserve'
    OBVIOUS
  <1>0. /\ Rate \in Nat /\ Capacity \in Nat /\ Window \in Nat
        /\ spent \in Nat /\ since \in 0..Window /\ Refilled \in 0..Capacity
    BY BucketAssumption, RefilledType DEF BucketTypeOK
  <1>1. ASSUME NEW c \in Client, Cancel(c) PROVE Reserve'
    BY <1>1 DEF Cancel, Reserve, Refilled
  <1>2. ASSUME NEW c \in Client, NEW n \in Amount, Arrive(c, n) PROVE Reserve'
    BY <1>2 DEF Arrive, Reserve, Refilled
  <1>3. ASSUME NEW n \in Amount, TryAcquire(n) PROVE Reserve'
    BY <1>3, ReserveKept DEF TryAcquire
  <1>4. CASE Loop
    <2>1. Head(lock)[2] \in Amount
      BY <1>4 DEF Loop, BucketTypeOK
    <2> QED
      BY <1>4, <2>1, ReserveKept DEF Loop
  <1>5. CASE BucketTick
    <2>1. Refilled' <= Refilled + Rate /\ Refilled' \in 0..Capacity
      <3>1. Refilled' = Accrued(tokens', elapsed')
        BY DEF Refilled, Accrued
      <3>2. tokens' = tokens /\ elapsed' = AtMost(Capacity, elapsed + 1)
        BY <1>5 DEF BucketTick
      <3>3. tokens' \in 0..Capacity /\ elapsed' \in 0..Capacity
        BY <1>5, TypeNext DEF BucketTypeOK
      <3>4. Refilled' <= Refilled + Rate
        BY <3>1, <3>2, AccruedGrowth, RefilledIsAccrued DEF BucketTypeOK
      <3> QED
        BY <3>1, <3>3, <3>4, AccruedType
    <2>2. CASE since < Window
      <3>1. since' = since + 1 /\ spent' = spent
        BY <1>5, <2>2 DEF BucketTick
      <3>2. Rate * (since + 1) = Rate * since + Rate /\ Rate * since \in Nat
        BY <1>0
      <3>3. spent + Refilled <= Capacity + Rate * since
        BY DEF Reserve
      <3> DEFINE p == Rate * since
                 f == Refilled'
      <3>4. spent + f <= Capacity + (p + Rate)
        <4>1. p \in Nat /\ f \in Nat /\ f <= Refilled + Rate
          BY <1>0, <2>1, <3>2
        <4>2. spent + Refilled <= Capacity + p
          BY <3>3
        <4> HIDE DEF p, f
        <4> QED
          BY <1>0, <4>1, <4>2
      <3>5. Rate * since' = p + Rate
        BY <3>1, <3>2
      <3> QED
        BY <3>1, <3>4, <3>5 DEF Reserve
    <2>3. CASE ~(since < Window)
      <3>1. since' = 0 /\ spent' = 0 /\ Rate * 0 = 0
        BY <1>0, <1>5, <2>3 DEF BucketTick
      <3>2. Refilled' <= Capacity /\ Refilled' \in Nat
        BY <1>0, <2>1
      <3>3. Rate * since' = 0
        BY <3>1
      <3> DEFINE f == Refilled'
      <3>4. 0 + f <= Capacity + 0
        <4>1. f \in Nat /\ f <= Capacity /\ Capacity \in Nat
          BY <1>0, <3>2
        <4> HIDE DEF f
        <4> QED
          BY <4>1
      <3> QED
        BY <3>1, <3>3, <3>4 DEF Reserve
    <2> QED
      BY <2>2, <2>3
  <1>6. CASE Observe
    <2>1. Refilled' = Refilled /\ since' = 0 /\ spent' = 0 /\ Rate * 0 = 0
      BY <1>0, <1>6 DEF Observe, Refilled
    <2> QED
      BY <1>0, <2>1 DEF Reserve
  <1>7. CASE UNCHANGED bucketVars
    BY <1>7 DEF bucketVars, Reserve, Refilled
  <1> QED
    BY <1>1, <1>2, <1>3, <1>4, <1>5, <1>6, <1>7 DEF BucketNext

\* Over any stretch of time at most Capacity and Rate per tick is consumed.
THEOREM RateIsBounded == BucketSpec => []RateBound
  <1>1. BucketTypeOK /\ Reserve => RateBound
    <2> SUFFICES ASSUME BucketTypeOK, Reserve PROVE RateBound
      OBVIOUS
    <2>1. Refilled \in 0..Capacity /\ Rate \in Nat /\ Capacity \in Nat
      BY BucketAssumption, RefilledType DEF BucketTypeOK
    <2>2. spent \in Nat /\ since \in Nat
      BY BucketAssumption DEF BucketTypeOK
    <2>3. Rate * since \in Nat
      BY <2>1, <2>2
    <2> QED
      BY <2>1, <2>2, <2>3 DEF Reserve, RateBound
  <1> QED
    BY <1>1, BucketTypeCorrect, ReserveInit, ReserveNext, PTL DEF BucketSpec

----------------------------------------------------------------------------
(***************************************************************************)
(* The result cache                                                        *)
(***************************************************************************)

----------------------------------------------------------------------------
\* What Without() has kept of s after each element, as its LET defines it.
Kept(s, K) ==
  CHOOSE kept : kept = [i \in 0..Len(s) |->
    IF i = 0 THEN <<>>
    ELSE IF s[i] \in K THEN kept[i - 1]
    ELSE Append(kept[i - 1], s[i])]

LEMMA WithoutIsKept == \A s, K : Without(s, K) = Kept(s, K)[Len(s)]
  BY DEF Without, Kept

\* That definition is one: there is such a function.
LEMMA KeptTurns ==
  ASSUME NEW s \in Seq(Key), NEW K
  PROVE  /\ Kept(s, K)[0] = <<>>
         /\ \A i \in 1..Len(s) : Kept(s, K)[i] =
              IF s[i] \in K THEN Kept(s, K)[i - 1] ELSE Append(Kept(s, K)[i - 1], s[i])
  <1> DEFINE N == Len(s)
             V == Seq(Key)
             first == <<>>
             turn == [x \in (1..N) \X V |->
                        IF s[x[1]] \in K THEN x[2] ELSE Append(x[2], s[x[1]])]
             Is(g) == g = [i \in 0..N |->
                            IF i = 0 THEN <<>>
                            ELSE IF s[i] \in K THEN g[i - 1] ELSE Append(g[i - 1], s[i])]
  <1>1. turn \in [(1..N) \X V -> V] /\ N \in Nat /\ first \in V
    OBVIOUS
  <1>2. Turns(N, V, first, turn) # {}
    <2> HIDE DEF N, V, first, turn
    <2> QED
      BY <1>1, TurnsExist
  <1>3. PICK g \in [0..N -> V] :
          g[0] = first /\ \A i \in 1..N : g[i] = turn[<<i, g[i - 1]>>]
    BY <1>2 DEF Turns
  <1>4. ASSUME NEW i \in 0..N
        PROVE  g[i] = IF i = 0 THEN <<>>
                      ELSE IF s[i] \in K THEN g[i - 1] ELSE Append(g[i - 1], s[i])
    <2>1. CASE i = 0
      BY <1>3, <2>1
    <2>2. CASE i # 0
      <3>1. i \in 1..N /\ i - 1 \in 0..N /\ g[i - 1] \in V
        BY <1>1, <1>3, <2>2
      <3> QED
        BY <1>3, <2>2, <3>1
    <2> QED
      BY <2>1, <2>2
  <1>5. Is(g)
    BY <1>3, <1>4
  <1> DEFINE kept == Kept(s, K)
  <1>6. Is(kept)
    BY <1>5 DEF Kept
  <1> HIDE DEF kept
  <1>7. 0 \in 0..N /\ \A i \in 1..N : i \in 0..N /\ i # 0
    BY <1>1
  <1>8. kept[0] = <<>> /\ \A i \in 1..N : kept[i] =
          IF s[i] \in K THEN kept[i - 1] ELSE Append(kept[i - 1], s[i])
    BY <1>6, <1>7
  <1> QED
    BY <1>8 DEF kept

\* A key put at the end of a sequence it is not in.
LEMMA AppendKeeps ==
  ASSUME NEW s \in Seq(Key), IsInjective(s), NEW k \in Key, k \notin ToSet(s)
  PROVE  /\ Append(s, k) \in Seq(Key)
         /\ IsInjective(Append(s, k))
         /\ ToSet(Append(s, k)) = ToSet(s) \cup {k}
  <1> DEFINE n == Len(s)
             t == Append(s, k)
  <1>1. n \in Nat /\ DOMAIN s = 1..n
    BY LenProperties
  <1>2. /\ t \in Seq(Key) /\ Len(t) = n + 1
        /\ \A j \in 1..n : t[j] = s[j]
        /\ t[n + 1] = k
    BY AppendProperties
  <1> HIDE DEF n, t
  <1>3. DOMAIN t = 1..(n + 1) /\ 1..(n + 1) = 1..n \cup {n + 1}
    BY <1>1, <1>2, LenProperties
  <1>4. ToSet(t) = ToSet(s) \cup {k}
    BY <1>1, <1>2, <1>3 DEF ToSet
  <1>5. IsInjective(t)
    BY <1>1, <1>2, <1>3 DEF IsInjective, ToSet
  <1> QED
    BY <1>2, <1>4, <1>5 DEF t

\* Of a sequence without duplicates Without() keeps what is not in K, once.
LEMMA WithoutKeeps ==
  ASSUME NEW s \in Seq(Key), NEW K, IsInjective(s)
  PROVE  /\ Without(s, K) \in Seq(Key)
         /\ IsInjective(Without(s, K))
         /\ ToSet(Without(s, K)) = ToSet(s) \ K
  <1> DEFINE kept == Kept(s, K)
             N == Len(s)
             Right(i) == /\ kept[i] \in Seq(Key)
                         /\ IsInjective(kept[i])
                         /\ ToSet(kept[i]) = {s[j] : j \in 1..i} \ K
             S == {i \in 0..N : Right(i)}
  <1>1. N \in Nat /\ DOMAIN s = 1..N /\ \A i \in 1..N : s[i] \in Key
    BY LenProperties
  <1>2. kept[0] = <<>> /\ \A i \in 1..N : kept[i] =
          IF s[i] \in K THEN kept[i - 1] ELSE Append(kept[i - 1], s[i])
    BY KeptTurns
  <1> HIDE DEF kept, N
  <1>3. 0 \in S
    <2>1. <<>> \in Seq(Key) /\ Len(<<>>) = 0 /\ DOMAIN <<>> = {}
      BY EmptySeq
    <2>2. 1..0 = {} /\ 0 \in 0..N
      BY <1>1
    <2>3. IsInjective(<<>>) /\ ToSet(<<>>) = {}
      BY <2>1 DEF IsInjective, ToSet
    <2>4. Right(0)
      BY <1>2, <2>1, <2>2, <2>3
    <2> QED
      BY <2>2, <2>4
  <1>4. ASSUME NEW i \in 1..N, i - 1 \in S PROVE i \in S
    <2> DEFINE t == kept[i - 1]
    <2>1. t \in Seq(Key) /\ IsInjective(t) /\ ToSet(t) = {s[j] : j \in 1..(i - 1)} \ K
      BY <1>4
    <2>2. i \in 0..N /\ 1..i = 1..(i - 1) \cup {i}
      BY <1>1
    <2>3. CASE s[i] \in K
      <3>1. kept[i] = t
        BY <1>2, <2>3
      <3>2. {s[j] : j \in 1..i} \ K = {s[j] : j \in 1..(i - 1)} \ K
        BY <2>2, <2>3
      <3> HIDE DEF t
      <3> QED
        BY <2>1, <2>2, <3>1, <3>2
    <2>4. CASE s[i] \notin K
      <3>1. kept[i] = Append(t, s[i]) /\ s[i] \in Key
        BY <1>1, <1>2, <2>4
      <3>2. {s[j] : j \in 1..i} \ K = ({s[j] : j \in 1..(i - 1)} \ K) \cup {s[i]}
        BY <2>2, <2>4
      <3>3. s[i] \notin ToSet(t)
        <4>1. ASSUME NEW j \in 1..(i - 1), s[j] = s[i] PROVE FALSE
          <5>1. i \in DOMAIN s /\ j \in DOMAIN s /\ i # j
            BY <1>1
          <5> QED
            BY <4>1, <5>1 DEF IsInjective
        <4> QED
          BY <2>1, <4>1
      <3> HIDE DEF t
      <3>4. /\ kept[i] \in Seq(Key) /\ IsInjective(kept[i])
            /\ ToSet(kept[i]) = ToSet(t) \cup {s[i]}
        BY <2>1, <3>1, <3>3, AppendKeeps
      <3> QED
        BY <2>1, <2>2, <3>2, <3>4
    <2> QED
      BY <2>3, <2>4
  <1> HIDE DEF S
  <1>5. N \in S
    BY <1>1, <1>3, <1>4, Throughout
  <1>6. Without(s, K) = kept[N]
    BY WithoutIsKept DEF kept, N
  <1>7. ToSet(s) = {s[j] : j \in 1..N}
    BY <1>1 DEF ToSet
  <1> QED
    BY <1>5, <1>6, <1>7 DEF S

\* Without duplicates a sequence is as long as the set of its elements.
LEMMA LengthCounts ==
  ASSUME NEW s \in Seq(Key), IsInjective(s)
  PROVE  IsFiniteSet(ToSet(s)) /\ Cardinality(ToSet(s)) = Len(s)
  <1>1. Len(s) \in Nat /\ DOMAIN s = 1..Len(s)
    BY LenProperties
  <1>2. s \in [1..Len(s) -> ToSet(s)]
    BY <1>1, LenProperties DEF ToSet
  <1>3. s \in Bijection(1..Len(s), ToSet(s))
    BY <1>1, <1>2 DEF Bijection, Injection, Surjection, IsInjective, ToSet
  <1>4. ExistsBijection(1..Len(s), ToSet(s))
    BY <1>3 DEF ExistsBijection
  <1> QED
    BY <1>1, <1>4, FS_NatBijection, FS_CountingElements

----------------------------------------------------------------------------
\* What the entries have of types, and more: one that is not past its time
\* holds what was last put, and its time and its age make up the TTL.
Timely ==
  /\ chunks \in [Key -> Value \cup {None}]
  /\ left \in [Key -> -1..TTL]
  /\ sweeping \in BOOLEAN
  /\ latest \in [Key -> Value \cup {None}]
  /\ age \in [Key -> 0..(TTL + 1)]
  /\ \A k \in Key : chunks[k] # None /\ left[k] >= 0 =>
       chunks[k] = latest[k] /\ age[k] + left[k] = TTL

LEMMA TimelyAtStart == CacheInit => Timely
  BY CacheAssumption DEF CacheInit, Timely

\* Entries go, and may be forgotten when they do.
LEMMA DeleteIsTimely ==
  ASSUME Timely, NEW K, Delete(K), UNCHANGED <<left, sweeping, age>>,
         \/ latest' = latest
         \/ latest' = [k \in Key |-> IF k \in K THEN None ELSE latest[k]]
  PROVE  Timely'
  <1>1. chunks' = [k \in Key |-> IF k \in K THEN None ELSE chunks[k]]
    BY DEF Delete
  <1>2. chunks' \in [Key -> Value \cup {None}] /\ latest' \in [Key -> Value \cup {None}]
    BY <1>1 DEF Timely
  <1>3. ASSUME NEW k \in Key, chunks'[k] # None
        PROVE  k \notin K /\ chunks'[k] = chunks[k] /\ latest'[k] = latest[k]
    BY <1>1, <1>3
  <1> QED
    BY <1>2, <1>3 DEF Timely

LEMMA StoreIsTimely ==
  ASSUME Timely, NEW k \in Key, NEW v \in Value, NEW E, Store(k, v, E), sweeping' = sweeping
  PROVE  Timely'
  <1>1. /\ chunks' = [m \in Key |-> IF m = k THEN v
                                    ELSE IF m \in E THEN None ELSE chunks[m]]
        /\ left' = [left EXCEPT ![k] = TTL]
        /\ latest' = [latest EXCEPT ![k] = v]
        /\ age' = [age EXCEPT ![k] = 0]
    BY DEF Store
  <1>2. TTL \in Nat /\ TTL \in -1..TTL /\ 0 \in 0..(TTL + 1) /\ 0 + TTL = TTL
    BY CacheAssumption
  <1>3. /\ chunks' \in [Key -> Value \cup {None}] /\ left' \in [Key -> -1..TTL]
        /\ latest' \in [Key -> Value \cup {None}] /\ age' \in [Key -> 0..(TTL + 1)]
    BY <1>1, <1>2 DEF Timely
  <1>4. chunks'[k] = v /\ latest'[k] = v /\ left'[k] = TTL /\ age'[k] = 0
    BY <1>1 DEF Timely
  <1>5. ASSUME NEW m \in Key, m # k, chunks'[m] # None
        PROVE  /\ chunks'[m] = chunks[m] /\ latest'[m] = latest[m]
               /\ left'[m] = left[m] /\ age'[m] = age[m]
    BY <1>1, <1>5 DEF Timely
  <1>6. ASSUME NEW m \in Key, chunks'[m] # None, left'[m] >= 0
        PROVE  chunks'[m] = latest'[m] /\ age'[m] + left'[m] = TTL
    BY <1>2, <1>4, <1>5, <1>6 DEF Timely
  <1> QED
    BY <1>3, <1>6 DEF Timely

LEMMA TickIsTimely ==
  ASSUME Timely, CacheTick
  PROVE  Timely'
  <1>1. /\ left' = [k \in Key |-> IF left[k] >= 0 THEN left[k] - 1 ELSE -1]
        /\ age' = [k \in Key |-> IF age[k] <= TTL THEN age[k] + 1 ELSE age[k]]
        /\ UNCHANGED <<chunks, sweeping, latest>>
    BY DEF CacheTick
  <1>2. TTL \in Nat
    BY CacheAssumption
  <1>3. \A k \in Key : left[k] \in -1..TTL /\ age[k] \in 0..(TTL + 1)
    BY DEF Timely
  <1>4. left' \in [Key -> -1..TTL] /\ age' \in [Key -> 0..(TTL + 1)]
    BY <1>1, <1>2, <1>3
  <1>5. ASSUME NEW k \in Key, chunks[k] # None, left'[k] >= 0
        PROVE  chunks[k] = latest[k] /\ age'[k] + left'[k] = TTL
    <2>1. left[k] >= 0 /\ left'[k] = left[k] - 1
      BY <1>1, <1>2, <1>3, <1>5
    <2>2. chunks[k] = latest[k] /\ age[k] + left[k] = TTL
      BY <1>5, <2>1 DEF Timely
    <2>3. age'[k] = age[k] + 1
      BY <1>1, <1>2, <1>3, <2>1, <2>2
    <2> QED
      BY <1>2, <1>3, <2>1, <2>2, <2>3
  <1> QED
    BY <1>1, <1>4, <1>5 DEF Timely

LEMMA TimelyStep ==
  ASSUME Timely, [CacheNext]_cacheVars
  PROVE  Timely'
  <1>1. ASSUME NEW k \in Key, Get(k) PROVE Timely'
    <2>1. CASE Delete({k}) /\ UNCHANGED <<policy, left, sweeping, latest, age>>
      BY <2>1, DeleteIsTimely
    <2>2. CASE UNCHANGED <<policy, chunks, left, sweeping, latest, age>>
      BY <2>2 DEF Timely
    <2> QED
      BY <1>1, <2>1, <2>2 DEF Get
  <1>2. ASSUME NEW K, Forget(K) PROVE Timely'
    BY <1>2, DeleteIsTimely DEF Forget
  <1>3. ASSUME NEW k \in Key, NEW v \in Value, PutNew(k, v) \/ PutAgain(k, v)
        PROVE  Timely'
    BY <1>3, StoreIsTimely DEF PutNew, PutAgain
  <1>4. CASE EvictExpired
    BY <1>4, DeleteIsTimely DEF EvictExpired
  <1>5. CASE StopBackgroundEviction
    BY <1>5 DEF StopBackgroundEviction, Timely, cacheHistory
  <1>6. CASE UNCHANGED cacheVars
    BY <1>6 DEF cacheVars, cacheHistory, Timely
  <1> QED
    BY <1>1, <1>2, <1>3, <1>4, <1>5, <1>6, TickIsTimely
       DEF CacheNext, Invalidate, Clear, BackgroundEviction

\* Whatever was put, put again, invalidated, evicted and swept before, and in
\* whatever order threads did it, a hit is what was put last, in time and not
\* removed since (HitIsFresh).
THEOREM HitsAreFresh == CacheSpec => []HitIsFresh
  <1>1. Timely => HitIsFresh
    <2> SUFFICES ASSUME Timely, NEW k \in Key, Lookup(k) # None
                 PROVE  Lookup(k) = latest[k] /\ age[k] <= TTL
      BY DEF HitIsFresh
    <2>1. left[k] >= 0 /\ Lookup(k) = chunks[k]
      BY DEF Lookup
    <2>2. left[k] \in Int /\ age[k] \in Int /\ TTL \in Int
      BY CacheAssumption DEF Timely
    <2> QED
      BY <2>1, <2>2 DEF Timely
  <1>2. Timely /\ [CacheNext]_cacheVars => Timely'
    BY TimelyStep
  <1> QED
    BY <1>1, <1>2, TimelyAtStart, PTL DEF CacheSpec

----------------------------------------------------------------------------
\* The dict's order is the order of eviction, whatever the policy, and has
\* each stored key once.
Ordered ==
  /\ policy \in Policies
  /\ order \in Seq(Key)
  /\ IsInjective(order)
  /\ ToSet(order) = {k \in Key : chunks[k] # None}
  /\ rank = order
  /\ policy # "ttl" => Len(order) <= MaxEntries

LEMMA OrderedAtStart == CacheInit => Ordered
  <1> SUFFICES ASSUME CacheInit PROVE Ordered
    OBVIOUS
  <1>1. /\ policy \in Policies /\ order = <<>> /\ rank = <<>>
        /\ chunks = [k \in Key |-> None]
    BY DEF CacheInit
  <1>2. <<>> \in Seq(Key) /\ Len(<<>>) = 0 /\ DOMAIN <<>> = {}
    BY EmptySeq
  <1>3. IsInjective(<<>>) /\ ToSet(<<>>) = {}
    BY <1>2 DEF IsInjective, ToSet
  <1> QED
    BY <1>1, <1>2, <1>3, CacheAssumption DEF Ordered

LEMMA DeleteIsOrdered ==
  ASSUME Ordered, NEW K, Delete(K), policy' = policy
  PROVE  Ordered' /\ ToSet(order') = Stored \ K
  <1>1. /\ order' = Without(order, K) /\ rank' = Without(rank, K)
        /\ chunks' = [k \in Key |-> IF k \in K THEN None ELSE chunks[k]]
    BY DEF Delete
  <1>2. /\ order' \in Seq(Key) /\ IsInjective(order')
        /\ ToSet(order') = ToSet(order) \ K
    BY <1>1, WithoutKeeps DEF Ordered
  <1>3. ToSet(order') = {k \in Key : chunks'[k] # None}
    BY <1>1, <1>2 DEF Ordered
  <1>4. Len(order') <= Len(order) /\ Len(order) \in Nat /\ Len(order') \in Nat
    <2>1. /\ IsFiniteSet(ToSet(order)) /\ Cardinality(ToSet(order)) = Len(order)
          /\ Cardinality(ToSet(order')) = Len(order')
      BY <1>2, LengthCounts DEF Ordered
    <2>2. Cardinality(ToSet(order')) <= Cardinality(ToSet(order))
      BY <1>2, <2>1, FS_Subset
    <2> QED
      BY <1>2, <2>1, <2>2, LenProperties DEF Ordered
  <1>5. policy' # "ttl" => Len(order') <= MaxEntries
    BY <1>4, CacheAssumption DEF Ordered
  <1> QED
    BY <1>1, <1>2, <1>3, <1>5 DEF Ordered, Stored

\* A use of a stored key moves it, and no more.
LEMMA MoveKeeps ==
  ASSUME NEW s \in Seq(Key), IsInjective(s), NEW k \in ToSet(s)
  PROVE  /\ MovedToEnd(s, k) \in Seq(Key)
         /\ IsInjective(MovedToEnd(s, k))
         /\ ToSet(MovedToEnd(s, k)) = ToSet(s)
         /\ Len(MovedToEnd(s, k)) = Len(s)
  <1>1. k \in Key
    BY LenProperties DEF ToSet
  <1>2. /\ Without(s, {k}) \in Seq(Key) /\ IsInjective(Without(s, {k}))
        /\ ToSet(Without(s, {k})) = ToSet(s) \ {k}
    BY WithoutKeeps
  <1>3. /\ MovedToEnd(s, k) \in Seq(Key) /\ IsInjective(MovedToEnd(s, k))
        /\ ToSet(MovedToEnd(s, k)) = (ToSet(s) \ {k}) \cup {k}
    BY <1>1, <1>2, AppendKeeps DEF MovedToEnd
  <1>4. ToSet(MovedToEnd(s, k)) = ToSet(s)
    BY <1>3
  <1> QED
    BY <1>3, <1>4, LengthCounts

LEMMA UseIsOrdered ==
  ASSUME Ordered, NEW k \in Stored,
         \/ order' = MovedToEnd(order, k) /\ rank' = MovedToEnd(rank, k)
         \/ UNCHANGED <<order, rank>>,
         policy' = policy,
         {m \in Key : chunks'[m] # None} = {m \in Key : chunks[m] # None}
  PROVE  Ordered' /\ ToSet(order') = Stored
  <1>1. order' = order \/ order' = MovedToEnd(order, k)
    OBVIOUS
  <1>2. rank' = order'
    BY DEF Ordered
  <1>3. k \in ToSet(order)
    BY DEF Stored
  <1>4. /\ order' \in Seq(Key) /\ IsInjective(order')
        /\ ToSet(order') = ToSet(order) /\ Len(order') = Len(order)
    BY <1>1, <1>3, MoveKeeps DEF Ordered
  <1> QED
    BY <1>2, <1>4 DEF Ordered, Stored

\* How many entries go, for a policy other than TTL.
LEMMA EvictionMakesRoom ==
  ASSUME Ordered, policy # "ttl", NEW t \in Seq(Key), IsInjective(t),
         ToSet(t) = Stored \ Evicted
  PROVE  Len(t) < MaxEntries
  <1>1. MaxEntries \in Nat /\ MaxEntries > 0 /\ Len(order) \in Nat /\ Len(t) \in Nat
    BY CacheAssumption, LenProperties DEF Ordered
  <1>2. /\ IsFiniteSet(Stored) /\ Cardinality(Stored) = Len(order)
        /\ Cardinality(Stored \ Evicted) = Len(t)
    BY LengthCounts DEF Ordered, Stored
  <1>3. CASE Len(order) < MaxEntries
    <2>1. Stored \ Evicted = Stored
      BY <1>3 DEF Evicted
    <2> QED
      BY <1>2, <1>3, <2>1
  <1>4. CASE ~(Len(order) < MaxEntries)
    <2> DEFINE m == Len(order) - MaxEntries + 1
               head == SubSeq(order, 1, m)
    <2>1. m \in 1..Len(order) /\ m \in Int
      BY <1>1, <1>4
    <2>2. Evicted = ToSet(head)
      BY <1>4 DEF Evicted
    <2>3. \A i \in 1..Len(order) : order[i] \in Key
      BY LenProperties DEF Ordered
    <2>4. \A i \in 1..m : order[i] \in Key
      BY <1>1, <2>1, <2>3
    <2> HIDE DEF m
    <2>5. /\ head \in Seq(Key) /\ Len(head) = m
          /\ \A i \in 1..m : head[i] = order[i]
      <3>1. /\ head \in Seq(Key)
            /\ Len(head) = IF 1 <= m THEN m - 1 + 1 ELSE 0
            /\ \A i \in 1..(m - 1 + 1) : head[i] = order[1 + i - 1]
        BY <2>1, <2>4, SubSeqProperties
      <3>2. m - 1 + 1 = m /\ 1 <= m /\ \A i \in 1..m : 1 + i - 1 = i
        BY <1>1, <2>1
      <3> QED
        BY <3>1, <3>2
    <2> HIDE DEF head
    <2>6. DOMAIN head = 1..m /\ DOMAIN order = 1..Len(order)
      BY <2>5, LenProperties DEF Ordered
    <2>7. \A i \in 1..m : i \in 1..Len(order)
      BY <1>1, <2>1
    <2>8. IsInjective(head)
      BY <2>5, <2>6, <2>7 DEF Ordered, IsInjective
    <2>9. Cardinality(Evicted) = m
      BY <2>2, <2>5, <2>8, LengthCounts
    <2>10. Evicted \subseteq Stored
      BY <2>2, <2>5, <2>6, <2>7 DEF ToSet, Stored
    <2>11. Stored \cap Evicted = Evicted
      BY <2>10
    <2>12. Cardinality(Stored \ Evicted) = Cardinality(Stored) - Cardinality(Stored \cap Evicted)
      BY <1>2, FS_Difference
    <2>13. Len(t) = Len(order) - m
      BY <1>2, <2>9, <2>11, <2>12
    <2> QED
      BY <1>1, <2>13 DEF m
  <1> QED
    BY <1>3, <1>4

LEMMA PutNewIsOrdered ==
  ASSUME Ordered, NEW k \in Key, NEW v \in Value, PutNew(k, v)
  PROVE  Ordered' /\ ToSet(order') = (Stored \ Evicted) \cup {k}
  <1> DEFINE t == Without(order, Evicted)
  <1>1. /\ k \notin Stored /\ order' = Append(t, k) /\ rank' = order' /\ policy' = policy
        /\ chunks' = [m \in Key |-> IF m = k THEN v
                                    ELSE IF m \in Evicted THEN None ELSE chunks[m]]
    BY DEF PutNew, Store, Ordered
  <1>2. t \in Seq(Key) /\ IsInjective(t) /\ ToSet(t) = Stored \ Evicted
    BY WithoutKeeps DEF Ordered, Stored
  <1> HIDE DEF t
  <1>3. /\ order' \in Seq(Key) /\ IsInjective(order')
        /\ ToSet(order') = (Stored \ Evicted) \cup {k}
    BY <1>1, <1>2, AppendKeeps
  <1>4. ToSet(order') = {m \in Key : chunks'[m] # None}
    <2>1. v # None
      BY CacheAssumption
    <2>2. Stored = {m \in Key : chunks[m] # None}
      BY DEF Ordered, Stored
    <2> QED
      BY <1>1, <1>3, <2>1, <2>2
  <1>5. policy' # "ttl" => Len(order') <= MaxEntries
    <2> SUFFICES ASSUME policy # "ttl" PROVE Len(order') <= MaxEntries
      BY <1>1
    <2>1. Len(t) < MaxEntries
      BY <1>2, EvictionMakesRoom
    <2>2. Len(order') = Len(t) + 1 /\ Len(t) \in Nat
      BY <1>1, <1>2, AppendProperties, LenProperties
    <2> QED
      BY <2>1, <2>2, CacheAssumption
  <1> QED
    BY <1>1, <1>3, <1>4, <1>5 DEF Ordered

\* CacheNext by what it does to the entries.
LEMMA Steps ==
  ASSUME Ordered, [CacheNext]_cacheVars
  PROVE  \/ \E K : \/ Delete(K) /\ K \subseteq Expired /\ policy' = policy
                   \/ Forget(K)
         \/ \E k \in Key, v \in Value : PutNew(k, v)
         \/ Ordered' /\ ToSet(order') = Stored
  <1>1. ASSUME NEW k \in Key, Get(k), ~(k \in Expired /\ Delete({k}) /\ policy' = policy)
        PROVE  Ordered' /\ ToSet(order') = Stored
    <2>1. /\ Lookup(k) # None /\ UNCHANGED <<policy, chunks>>
          /\ order' = MovedToEnd(order, k) /\ rank' = MovedToEnd(rank, k)
      BY <1>1 DEF Get
    <2>2. k \in Stored
      BY <2>1 DEF Lookup, Ordered, Stored
    <2> QED
      BY <2>1, <2>2, UseIsOrdered
  <1>2. ASSUME NEW k \in Key, NEW v \in Value, PutAgain(k, v)
        PROVE  Ordered' /\ ToSet(order') = Stored
    <2>1. /\ k \in Stored /\ policy' = policy
          /\ \/ order' = MovedToEnd(order, k) /\ rank' = MovedToEnd(rank, k)
             \/ UNCHANGED <<order, rank>>
      BY <1>2 DEF PutAgain
    <2>2. chunks' = [m \in Key |-> IF m = k THEN v ELSE chunks[m]]
      BY <1>2 DEF PutAgain, Store
    <2>3. v # None /\ chunks[k] # None
      BY <2>1, CacheAssumption DEF Ordered, Stored
    <2>4. {m \in Key : chunks'[m] # None} = {m \in Key : chunks[m] # None}
      BY <2>2, <2>3
    <2> QED
      BY <2>1, <2>4, UseIsOrdered
  <1>3. CASE StopBackgroundEviction \/ CacheTick \/ UNCHANGED cacheVars
    <2>1. UNCHANGED <<policy, order, chunks, rank>>
      BY <1>3 DEF StopBackgroundEviction, CacheTick, cacheVars, cacheHistory
    <2> QED
      BY <2>1 DEF Ordered, Stored
  <1>4. CASE EvictExpired
    BY <1>4 DEF EvictExpired
  <1>5. ASSUME NEW k \in Key, k \in Expired, Delete({k}), policy' = policy
        PROVE  \E K : Delete(K) /\ K \subseteq Expired /\ policy' = policy
    BY <1>5
  <1> QED
    BY <1>1, <1>2, <1>3, <1>4, <1>5 DEF CacheNext, Invalidate, Clear, BackgroundEviction

LEMMA OrderedStep ==
  ASSUME Ordered, [CacheNext]_cacheVars
  PROVE  Ordered'
  <1>1. ASSUME NEW K, Delete(K), policy' = policy PROVE Ordered'
    BY <1>1, DeleteIsOrdered
  <1>2. ASSUME NEW K, Forget(K) PROVE Ordered'
    BY <1>1, <1>2 DEF Forget
  <1>3. ASSUME NEW k \in Key, NEW v \in Value, PutNew(k, v) PROVE Ordered'
    BY <1>3, PutNewIsOrdered
  <1> QED
    BY <1>1, <1>2, <1>3, Steps

LEMMA OrderedAlways == CacheSpec => []Ordered
  <1>1. Ordered /\ [CacheNext]_cacheVars => Ordered'
    BY OrderedStep
  <1> QED
    BY <1>1, OrderedAtStart, PTL DEF CacheSpec

\* The dict has each stored key once, and but for the TTL policy never more
\* than max_entries of them (CacheTypeOK).
THEOREM CacheTypeCorrect == CacheSpec => []CacheTypeOK
  <1>1. Timely /\ Ordered => CacheTypeOK
    BY DEF Timely, Ordered, CacheTypeOK
  <1>2. Timely /\ [CacheNext]_cacheVars => Timely'
    BY TimelyStep
  <1>3. Ordered /\ [CacheNext]_cacheVars => Ordered'
    BY OrderedStep
  <1> QED
    BY <1>1, <1>2, <1>3, TimelyAtStart, OrderedAtStart, PTL DEF CacheSpec

\* What makes room goes before what stays.
LEMMA FirstOutIsBefore ==
  ASSUME Ordered, policy # "ttl", NEW k \in Evicted, NEW m \in Stored \ Evicted
  PROVE  Before(rank, k, m)
  <1> DEFINE n == Len(order) - MaxEntries + 1
  <1>1. /\ MaxEntries \in Nat /\ MaxEntries > 0 /\ Len(order) \in Nat
        /\ DOMAIN order = 1..Len(order) /\ \A i \in 1..Len(order) : order[i] \in Key
    BY CacheAssumption, LenProperties DEF Ordered
  <1>2. Len(order) >= MaxEntries /\ Evicted = ToSet(SubSeq(order, 1, n))
    <2>1. ~(Len(order) < MaxEntries)
      BY DEF Evicted
    <2> QED
      BY <1>1, <2>1 DEF Evicted
  <1>3. n \in 1..Len(order) /\ n \in Int /\ \A i \in 1..n : i \in 1..Len(order)
    BY <1>1, <1>2
  <1> HIDE DEF n
  <1>4. /\ DOMAIN SubSeq(order, 1, n) = 1..n
        /\ \A i \in 1..n : SubSeq(order, 1, n)[i] = order[i]
    <2>1. /\ SubSeq(order, 1, n) \in Seq(Key)
          /\ Len(SubSeq(order, 1, n)) = IF 1 <= n THEN n - 1 + 1 ELSE 0
          /\ \A i \in 1..(n - 1 + 1) : SubSeq(order, 1, n)[i] = order[1 + i - 1]
      BY <1>1, <1>3, SubSeqProperties
    <2>2. n - 1 + 1 = n /\ 1 <= n /\ \A i \in 1..n : 1 + i - 1 = i
      BY <1>1, <1>3
    <2> QED
      BY <2>1, <2>2, LenProperties
  <1>5. PICK i \in 1..n : order[i] = k
    BY <1>2, <1>4 DEF ToSet
  <1>6. PICK j \in DOMAIN order : order[j] = m
    BY DEF Stored, ToSet
  <1>7. j \notin 1..n
    <2> SUFFICES ASSUME j \in 1..n PROVE FALSE
      OBVIOUS
    <2>1. m = SubSeq(order, 1, n)[j] /\ j \in DOMAIN SubSeq(order, 1, n)
      BY <1>4, <1>6
    <2> QED
      BY <1>2, <2>1 DEF ToSet
  <1>8. i \in DOMAIN order /\ i < j
    BY <1>1, <1>3, <1>5, <1>6, <1>7
  <1> QED
    BY <1>5, <1>6, <1>8 DEF Before, Ordered

LEMMA EvictionStep ==
  ASSUME Ordered, [CacheNext]_cacheVars, NEW k \in Stored \ ToSet(order')
  PROVE  \/ k \in Expired \/ latest'[k] = None
         \/ /\ policy # "ttl"
            /\ ToSet(order') \ Stored # {}
            /\ \A m \in Stored \cap ToSet(order') : Before(rank, k, m)
  <1>0. k \in Key
    BY DEF Ordered, Stored
  <1>1. ASSUME NEW K, Delete(K), K \subseteq Expired, policy' = policy
        PROVE  k \in Expired
    <2>1. k \in K
      BY <1>1, DeleteIsOrdered
    <2> QED
      BY <1>1, <2>1
  <1>2. ASSUME NEW K, Forget(K) PROVE latest'[k] = None
    <2>1. Delete(K) /\ policy' = policy
      BY <1>2 DEF Forget
    <2>2. k \in K
      BY <2>1, DeleteIsOrdered
    <2> QED
      BY <1>0, <1>2, <2>2 DEF Forget
  <1>3. ASSUME NEW n \in Key, NEW v \in Value, PutNew(n, v), k \notin Expired
        PROVE  /\ policy # "ttl"
               /\ ToSet(order') \ Stored # {}
               /\ \A m \in Stored \cap ToSet(order') : Before(rank, k, m)
    <2>1. ToSet(order') = (Stored \ Evicted) \cup {n} /\ n \notin Stored
      BY <1>3, PutNewIsOrdered DEF PutNew
    <2>2. k \in Evicted
      BY <2>1
    <2>3. policy # "ttl"
      BY <1>3, <2>2 DEF Evicted
    <2> QED
      BY <2>1, <2>2, <2>3, FirstOutIsBefore
  <1> QED
    BY <1>1, <1>2, <1>3, Steps

\* Nothing goes that has neither expired nor been removed by a client, but to
\* make room for another, and then what its policy says is next; under the
\* TTL policy not even then (EvictsInOrder).
THEOREM EvictionIsInOrder == CacheSpec => EvictsInOrder
  <1>1. Ordered /\ [CacheNext]_cacheVars =>
          [ \A k \in Stored \ ToSet(order') :
              \/ k \in Expired \/ latest'[k] = None
              \/ /\ policy # "ttl"
                 /\ ToSet(order') \ Stored # {}
                 /\ \A m \in Stored \cap ToSet(order') : Before(rank, k, m) ]_cacheVars
    BY EvictionStep
  <1> QED
    BY <1>1, OrderedAlways, PTL DEF CacheSpec, EvictsInOrder

=============================================================================
