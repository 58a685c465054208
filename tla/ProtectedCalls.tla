--------------------------- MODULE ProtectedCalls ---------------------------
(***************************************************************************)
(* Coroutines that share one breaker and call the upstream service through *)
(* with_retry (resilience.py).  A step of this module is what one          *)
(* coroutine does between two awaits: the breaker can change while a call  *)
(* is in flight or while its caller sleeps before a retry.                 *)
(***************************************************************************)
EXTENDS CircuitBreaker, FiniteSets

CONSTANTS
  Caller,      \* the coroutines
  MaxRetries,  \* RetryConfig.max_retries
  MaxAbandons  \* bound: how many calls are cancelled, or see an error that
               \* retryable_exceptions does not list

ASSUME CallsAssumption ==
  /\ MaxRetries \in Nat
  /\ MaxAbandons \in Nat
  /\ IsFiniteSet(Caller)

VARIABLES
  breaker,   \* the shared CircuitBreaker
  phase,     \* phase[c]: where caller c stands in with_retry
  attempt,   \* attempt[c]: its loop counter
  upstream,  \* "up" or "down": down calls may fail, up calls do not
  doomed,    \* callers whose call in flight began while upstream was down
  abandons,  \* how many calls were abandoned, counted for the bound
  probing,   \* history: calls in flight let in by the present HALF_OPEN
  lost,      \* history: failures in a row recorded, up to the threshold
  won        \* history: successes in a row recorded since HALF_OPEN began

callVars == <<phase, attempt>>
history == <<probing, lost, won>>
vars == <<breaker, callVars, upstream, doomed, abandons, history>>

\* "idle" is outside with_retry, before a call or after one that returned or
\* raised; "running" awaits fn(); "sleeping" awaits the back-off.
Phase == {"idle", "running", "sleeping"}

TypeOK ==
  /\ breaker \in Breaker
  /\ phase \in [Caller -> Phase]
  /\ attempt \in [Caller -> 0..MaxRetries]
  /\ upstream \in {"up", "down"}
  /\ doomed \in SUBSET Caller
  /\ abandons \in 0..MaxAbandons
  /\ probing \in SUBSET Caller
  /\ lost \in 0..FailureThreshold
  /\ won \in 0..SuccessThreshold

Init ==
  /\ breaker = NewBreaker
  /\ phase = [c \in Caller |-> "idle"]
  /\ attempt = [c \in Caller |-> 0]
  /\ upstream = "down"
  /\ doomed = {}
  /\ abandons = 0
  /\ probing = {}
  /\ lost = 0
  /\ won = 0

----------------------------------------------------------------------------
\* The history that goes with a breaker step to nb.
CountTo(limit, n) == IF n < limit THEN n + 1 ELSE n

ProbingAfter(nb, newProbes, ended) ==
  IF nb.state = "half_open"
  THEN IF breaker.state = "half_open"
       THEN (probing \ ended) \cup newProbes
       ELSE newProbes
  ELSE {}

WonAfterRecovery(nb) ==
  IF nb.state = "half_open" /\ breaker.state # "half_open" THEN 0 ELSE won

\* with_retry ends for caller c.
Leave(c) ==
  /\ phase' = [phase EXCEPT ![c] = "idle"]
  /\ attempt' = [attempt EXCEPT ![c] = 0]
  /\ doomed' = doomed \ {c}

\* The top of the loop: pre_call() lets the attempt through and fn() starts.
Start(c) ==
  /\ phase[c] \in {"idle", "sleeping"}
  /\ CanExecute(breaker)
  /\ breaker' = PreCall(breaker)
  /\ phase' = [phase EXCEPT ![c] = "running"]
  /\ doomed' = IF upstream = "down" THEN doomed \cup {c} ELSE doomed
  /\ probing' = ProbingAfter(breaker', {c}, {})
  /\ won' = WonAfterRecovery(breaker')
  /\ UNCHANGED <<attempt, upstream, abandons, lost>>

\* pre_call() raises CircuitOpenError, which leaves with_retry.
Refused(c) ==
  /\ phase[c] \in {"idle", "sleeping"}
  /\ ~CanExecute(breaker)
  /\ breaker' = AfterCanExecute(breaker)
  /\ Leave(c)
  /\ UNCHANGED <<upstream, abandons, history>>

\* fn() returns.
Succeed(c) ==
  /\ phase[c] = "running"
  /\ breaker' = RecordSuccess(breaker)
  /\ Leave(c)
  /\ probing' = ProbingAfter(breaker', {}, {c})
  /\ lost' = 0
  /\ won' = CountTo(SuccessThreshold, won)
  /\ UNCHANGED <<upstream, abandons>>

\* fn() raises a retryable exception: sleep and go round, or give up.
Fail(c) ==
  /\ phase[c] = "running"
  /\ c \in doomed
  /\ breaker' = RecordFailure(breaker)
  /\ IF attempt[c] >= MaxRetries
     THEN Leave(c)
     ELSE /\ phase' = [phase EXCEPT ![c] = "sleeping"]
          /\ attempt' = [attempt EXCEPT ![c] = @ + 1]
          /\ doomed' = doomed \ {c}
  /\ probing' = ProbingAfter(breaker', {}, {c})
  /\ lost' = CountTo(FailureThreshold, lost)
  /\ won' = 0
  /\ UNCHANGED <<upstream, abandons>>

\* The await is cancelled, or fn() raises something retryable_exceptions
\* does not list: with_retry ends and tells the breaker nothing.
Abandon(c) ==
  /\ abandons < MaxAbandons
  /\ abandons' = abandons + 1
  /\ phase[c] \in {"running", "sleeping"}
  /\ Leave(c)
  /\ probing' = probing \ {c}
  /\ UNCHANGED <<breaker, upstream, lost, won>>

\* can_execute() called on its own, as the health snapshot does.
Poll ==
  /\ RecoveryDue(breaker)
  /\ breaker' = AfterCanExecute(breaker)
  /\ probing' = ProbingAfter(breaker', {}, {})
  /\ won' = WonAfterRecovery(breaker')
  /\ UNCHANGED <<callVars, upstream, doomed, abandons, lost>>

\* reset() called by an operator or a test.
ForceReset ==
  /\ breaker # NewBreaker
  /\ breaker' = Reset(breaker)
  /\ probing' = {}
  /\ lost' = 0
  /\ UNCHANGED <<callVars, upstream, doomed, abandons, won>>

Tick ==
  /\ breaker.age < RecoveryTimeout
  /\ breaker' = Aged(breaker)
  /\ UNCHANGED <<callVars, upstream, doomed, abandons, history>>

\* The upstream service comes back, for good.
Heal ==
  /\ upstream = "down"
  /\ upstream' = "up"
  /\ UNCHANGED <<breaker, callVars, doomed, abandons, history>>

Next ==
  \/ \E c \in Caller :
       Start(c) \/ Refused(c) \/ Succeed(c) \/ Fail(c) \/ Abandon(c)
  \/ Poll \/ ForceReset \/ Tick \/ Heal

Spec == Init /\ [][Next]_vars

\* Time passes, callers keep calling, and a call in flight ends some way.
\* Nobody is obliged to cancel, to poll, to reset or to repair the service.
Fairness ==
  /\ WF_vars(Tick)
  /\ \A c \in Caller :
       /\ WF_vars(Start(c) \/ Refused(c))
       /\ WF_vars(Succeed(c) \/ Fail(c) \/ Abandon(c))

FairSpec == Spec /\ Fairness

----------------------------------------------------------------------------
(***************************************************************************)
(* Properties                                                              *)
(***************************************************************************)

\* However calls, failures and recoveries interleave, at most
\* half_open_max_calls of the calls that the present HALF_OPEN period let
\* in are in flight (pre_call's counting).
ProbesBounded == Cardinality(probing) <= HalfOpenMaxCalls

\* No attempt starts, first or retry, within recovery_timeout of the
\* latest trip, unless someone called reset() (pre_call, _maybe_recover).
QuietPeriod ==
  [][ \A c \in Caller :
        phase[c] # "running" /\ phase'[c] = "running"
          => breaker.age = RecoveryTimeout ]_vars

\* Without reset() the breaker closes only from HALF_OPEN, and only after
\* success_threshold successes in a row since HALF_OPEN began.
ClosesOnSuccesses ==
  [][ breaker.state # "closed" /\ breaker'.state = "closed"
        => \/ ForceReset
           \/ breaker.state = "half_open" /\ won' >= SuccessThreshold ]_vars

\* While CLOSED, the failure count is the number of failures recorded in a
\* row and is below the threshold: no trip comes early, and none is missed,
\* whatever was recorded by calls that outlived an OPEN period.
StreakExact ==
  breaker.state = "closed" =>
    breaker.failures = lost /\ lost < FailureThreshold

\* The breaker's counts agree with what the callers did, in HALF_OPEN and in
\* CLOSED.
CountsHold == ProbesBounded /\ StreakExact

\* Once the service is up for good the breaker ends up closed, as long as
\* the abandoned calls leave HALF_OPEN the slots it needs to count
\* success_threshold successes (an abandoned probe keeps its slot).
RecoversWithSlotsLeft ==
  (upstream = "up") ~>
    \/ breaker.state = "closed"
    \/ abandons > HalfOpenMaxCalls - SuccessThreshold

\* Once the service is up for good, the breaker ends up closed.
AutoRecovers == (upstream = "up") ~> (breaker.state = "closed")

=============================================================================
