---------------------------- MODULE AgentExecutor ----------------------------
(***************************************************************************)
(* AgentExecutor.run of agents/execution.py: async generators, one per     *)
(* invocation, that share the breakers of the models, the semaphore, the   *)
(* cache and the audit log (utils/audit.py).  A step is what one generator *)
(* does between two suspensions: an await that waits, or a chunk handed to *)
(* the consumer.                                                           *)
(*                                                                         *)
(* replicate.run and its iterator are synchronous, so an attempt that      *)
(* buffers its chunks is one step, and one that does not is a step per     *)
(* chunk.                                                                  *)
(***************************************************************************)
EXTENDS CircuitBreaker, SequencesExt

CONSTANTS
  Run,             \* the calls of run()
  AgentOf,         \* AgentOf[r]: the agent_id of the call
  Model,           \* model identifiers, owner/name
  ModelMap,        \* model_map: the models of some agents
  Discovered,      \* the agents the discovery registry may hold a model for
  Payload,         \* the payloads, plugins having had their say
  NoKey,           \* the cache_key of a run without a cache, ""
  None,
  MaxConcurrency,  \* max_concurrency
  MaxRetries,      \* RetryConfig.max_retries
  MaxParts,        \* bound: the fragments of an answer
  MaxLeaves        \* bound: the consumers that leave before the end

ASSUME ExecutorAssumption ==
  /\ IsFiniteSet(Run)
  /\ MaxConcurrency \in Nat \ {0}
  /\ {MaxRetries, MaxParts, MaxLeaves} \subseteq Nat
  /\ \A f \in {ModelMap, Discovered} : \A a \in DOMAIN f : f[a] \in Model
  /\ NoKey \notin Model \X Payload /\ None \notin Model

\* make_key(): equal for equal models and payloads, whatever the agents.
Key == Model \X Payload
MakeKey(model, payload) == <<model, payload>>

\* resolve_model(a), with what discovery holds at the moment.
ResolveModel(a, discovered) ==
  IF a \in Model THEN a
  ELSE IF a \in DOMAIN ModelMap THEN ModelMap[a]
  ELSE IF a \in discovered THEN Discovered[a] ELSE None

\* The model r runs, if its agent is found.
ModelOf(r) == ResolveModel(AgentOf[r], DOMAIN Discovered)

VARIABLES
  buffered,  \* the executor has a cache (or plugins): chunks are collected
  phase,     \* phase[r]: where the generator stands
  attempt,   \* attempt[r]: the loop counter
  key,       \* key[r]: its cache_key
  pending,   \* pending[r]: collected or cached chunks not yet yielded
  got,       \* got[r]: the chunks its consumer has, unless it left
  breakers,  \* breakers[m]: the CircuitBreaker of model m
  free,      \* the semaphore's value
  queue,     \* the semaphore's waiters, first come first
  cache,     \* cache[k]: the chunks stored for k, <<>> for none
  audit,     \* audit[r]: the record of it in the audit log
  leaves     \* counted for the bound

shared == <<breakers, free, queue, cache>>
vars == <<buffered, phase, attempt, key, pending, got, shared, audit, leaves>>

\* "waiting" awaits the back-off or the rate limiter, before pre_call();
\* "queued" awaits the semaphore, "entering" has it; "streaming" is
\* suspended inside _invoke, "replaying" after the attempt, "hit" among
\* cached chunks.  "over" has returned, "raised" found no model, "left" was
\* closed or cancelled.
Phase == {"new", "waiting", "queued", "entering", "streaming", "replaying",
          "hit", "over", "raised", "left"}

\* A chunk by its origin; "output" and "error" are the ones that say done.
Chunk == [run : Run, attempt : 0..MaxRetries,
          kind : {"part", "output", "error"}]
ChunkOf(r, kind) == [run |-> r, attempt |-> attempt[r], kind |-> kind]

\* The chunks of an attempt of r that ends well, with n fragments.
Answer(r, n) ==
  [i \in 1..(n + 1) |-> ChunkOf(r, IF i <= n THEN "part" ELSE "output")]

Holders == {r \in Run : phase[r] \in {"entering", "streaming", "replaying"}}

TypeOK ==
  /\ buffered \in BOOLEAN
  /\ phase \in [Run -> Phase]
  /\ attempt \in [Run -> 0..MaxRetries]
  /\ key \in [Run -> Key \cup {NoKey}]
  /\ pending \in [Run -> Seq(Chunk)]
  /\ got \in [Run -> Seq(Chunk)]
  /\ breakers \in [Model -> Breaker]
  /\ free \in 0..MaxConcurrency
  /\ queue \in Seq(Run)
  /\ cache \in [Key -> Seq(Chunk)]
  /\ audit \in [Run -> {"none", "success", "failure"}]
  /\ leaves \in 0..MaxLeaves

Init ==
  /\ buffered \in BOOLEAN
  /\ phase = [r \in Run |-> "new"]
  /\ attempt = [r \in Run |-> 0]
  /\ key = [r \in Run |-> NoKey]
  /\ pending = [r \in Run |-> <<>>]
  /\ got = [r \in Run |-> <<>>]
  /\ breakers = [m \in Model |-> NewBreaker]
  /\ free = MaxConcurrency
  /\ queue = <<>>
  /\ cache = [k \in Key |-> <<>>]
  /\ audit = [r \in Run |-> "none"]
  /\ leaves = 0

----------------------------------------------------------------------------
\* The breaker of r's model becomes b; so do all.
SetBreaker_Shared(r, b) == breakers' = [m \in Model |-> b]

\* The breaker of r's model, and what it becomes.
BreakerOf(r) == breakers[ModelOf(r)]
SetBreaker(r, b) == breakers' = [breakers EXCEPT ![ModelOf(r)] = b]

\* record() appends to the audit log, or logs that it could not.
Record(r, outcome) ==
  \/ audit' = [audit EXCEPT ![r] = outcome]
  \/ UNCHANGED audit

Yield(r, chunk) == got' = [got EXCEPT ![r] = Append(@, chunk)]

\* r goes to phase p and keeps what it holds of the semaphore.
Goto(r, p) ==
  /\ phase' = [phase EXCEPT ![r] = p]
  /\ UNCHANGED <<free, queue>>

\* The value goes up although the semaphore passes to a waiter.
ReleaseAndGoto_Twice(r, p) ==
  /\ free' = free + 1
  /\ phase' = IF queue = <<>> THEN [phase EXCEPT ![r] = p]
              ELSE [phase EXCEPT ![r] = p, ![Head(queue)] = "entering"]
  /\ queue' = IF queue = <<>> THEN <<>> ELSE Tail(queue)

\* r goes to phase p and leaves the semaphore, which passes straight to the
\* first waiter.
ReleaseAndGoto(r, p) ==
  IF queue = <<>>
  THEN /\ free' = free + 1
       /\ phase' = [phase EXCEPT ![r] = p]
       /\ UNCHANGED queue
  ELSE /\ phase' = [phase EXCEPT ![r] = p, ![Head(queue)] = "entering"]
       /\ queue' = Tail(queue)
       /\ UNCHANGED free

\* run() up to the loop: no model for the agent raises ModelNotFoundError, a
\* hit yields the first cached chunk.
Begin(r) ==
  /\ phase[r] = "new"
  /\ \/ /\ \E discovered \in SUBSET DOMAIN Discovered :
               ResolveModel(AgentOf[r], discovered) = None
        /\ Goto(r, "raised")
        /\ UNCHANGED <<key, got, pending>>
     \/ /\ buffered /\ ModelOf(r) # None
        /\ \E p \in Payload :
             LET k == MakeKey(ModelOf(r), p)
             IN /\ key' = [key EXCEPT ![r] = k]
                /\ IF cache[k] # <<>>
                   THEN /\ Yield(r, Head(cache[k]))
                        /\ pending' = [pending EXCEPT ![r] = Tail(cache[k])]
                        /\ Goto(r, "hit")
                   ELSE /\ Goto(r, "waiting")
                        /\ UNCHANGED <<got, pending>>
     \/ /\ ~buffered /\ ModelOf(r) # None
        /\ Goto(r, "waiting")
        /\ UNCHANGED <<key, got, pending>>
  /\ UNCHANGED <<buffered, attempt, breakers, cache, audit, leaves>>

\* pre_call() lets the attempt through to the semaphore.
Admit(r) ==
  /\ phase[r] = "waiting"
  /\ CanExecute(BreakerOf(r))
  /\ SetBreaker(r, PreCall(BreakerOf(r)))
  /\ IF free > 0
     THEN /\ free' = free - 1
          /\ phase' = [phase EXCEPT ![r] = "entering"]
          /\ UNCHANGED queue
     ELSE /\ queue' = Append(queue, r)
          /\ phase' = [phase EXCEPT ![r] = "queued"]
          /\ UNCHANGED free
  /\ UNCHANGED <<buffered, attempt, key, pending, got, cache, audit, leaves>>

\* The record of a refusal leaves success at its default, True.
Refuse_DefaultSuccess(r) ==
  /\ phase[r] = "waiting"
  /\ ~CanExecute(BreakerOf(r))
  /\ SetBreaker(r, AfterCanExecute(BreakerOf(r)))
  /\ Record(r, "success")
  /\ Yield(r, ChunkOf(r, "error"))
  /\ Goto(r, "over")
  /\ UNCHANGED <<buffered, attempt, key, pending, cache, leaves>>

\* pre_call() raises CircuitOpenError: a record, an error chunk, the end.
Refuse(r) ==
  /\ phase[r] = "waiting"
  /\ ~CanExecute(BreakerOf(r))
  /\ SetBreaker(r, AfterCanExecute(BreakerOf(r)))
  /\ Record(r, "failure")
  /\ Yield(r, ChunkOf(r, "error"))
  /\ Goto(r, "over")
  /\ UNCHANGED <<buffered, attempt, key, pending, cache, leaves>>

\* The semaphore is still held through the back-off.
Retry_Unreleased(r) ==
  /\ SetBreaker(r, RecordFailure(BreakerOf(r)))
  /\ IF attempt[r] < MaxRetries
     THEN /\ attempt' = [attempt EXCEPT ![r] = @ + 1]
          /\ Goto(r, "waiting")
          /\ UNCHANGED got
     ELSE /\ Yield(r, ChunkOf(r, "error"))
          /\ ReleaseAndGoto(r, "over")
          /\ UNCHANGED attempt

\* The attempt raises: out of the semaphore, then back to the top of the
\* loop, or an error chunk and the end.
Retry(r) ==
  /\ SetBreaker(r, RecordFailure(BreakerOf(r)))
  /\ IF attempt[r] < MaxRetries
     THEN /\ attempt' = [attempt EXCEPT ![r] = @ + 1]
          /\ ReleaseAndGoto(r, "waiting")
          /\ UNCHANGED got
     ELSE /\ Yield(r, ChunkOf(r, "error"))
          /\ ReleaseAndGoto(r, "over")
          /\ UNCHANGED attempt

\* _invoke() raises, before any chunk or after some.
Fail(r) ==
  /\ phase[r] \in {"entering", "streaming"}
  /\ Retry(r)
  /\ UNCHANGED <<buffered, key, pending, cache, audit, leaves>>

\* The chunks are stored as they come, and what a failed attempt brought
\* is there as well.
Collect_Early(r) ==
  /\ buffered
  /\ phase[r] = "entering"
  /\ \E n \in 0..MaxParts :
       \/ /\ cache' = [cache EXCEPT ![key[r]] = Answer(r, n)]
          /\ Yield(r, Head(Answer(r, n)))
          /\ pending' = [pending EXCEPT ![r] = Tail(Answer(r, n))]
          /\ Goto(r, "replaying")
          /\ UNCHANGED <<attempt, breakers>>
       \/ /\ cache' = [cache EXCEPT ![key[r]] = Front(Answer(r, n))]
          /\ Retry(r)
          /\ UNCHANGED pending
  /\ UNCHANGED <<buffered, key, audit, leaves>>

\* A buffered attempt: all of _invoke, cache.put(), the first chunk.
Collect(r) ==
  /\ buffered
  /\ phase[r] = "entering"
  /\ \E n \in 0..MaxParts :
       /\ cache' = [cache EXCEPT ![key[r]] = Answer(r, n)]
       /\ Yield(r, Head(Answer(r, n)))
       /\ pending' = [pending EXCEPT ![r] = Tail(Answer(r, n))]
  /\ Goto(r, "replaying")
  /\ UNCHANGED <<buffered, attempt, key, breakers, audit, leaves>>

\* Without buffer, the next fragment or the output, as _invoke has it.
Parts(r) == {i \in DOMAIN got[r] : got[r][i] = ChunkOf(r, "part")}

Pass(r) ==
  /\ ~buffered
  /\ phase[r] \in {"entering", "streaming"}
  /\ \/ /\ Cardinality(Parts(r)) < MaxParts
        /\ Yield(r, ChunkOf(r, "part"))
        /\ Goto(r, "streaming")
     \/ /\ Yield(r, ChunkOf(r, "output"))
        /\ Goto(r, "replaying")
  /\ UNCHANGED <<buffered, attempt, key, pending, breakers, cache, audit, leaves>>

\* The consumer asks for the next collected or cached chunk.
Replay(r) ==
  /\ phase[r] \in {"replaying", "hit"}
  /\ pending[r] # <<>>
  /\ Yield(r, Head(pending[r]))
  /\ pending' = [pending EXCEPT ![r] = Tail(@)]
  /\ UNCHANGED <<buffered, phase, attempt, key, shared, audit, leaves>>

\* The return is missing: the loop goes on to another attempt.
Succeed_NoReturn(r) ==
  /\ phase[r] = "replaying"
  /\ pending[r] = <<>>
  /\ SetBreaker(r, RecordSuccess(BreakerOf(r)))
  /\ Record(r, "success")
  /\ IF attempt[r] < MaxRetries
     THEN /\ attempt' = [attempt EXCEPT ![r] = @ + 1]
          /\ ReleaseAndGoto(r, "waiting")
     ELSE /\ ReleaseAndGoto(r, "over")
          /\ UNCHANGED attempt
  /\ UNCHANGED <<buffered, key, pending, got, cache, leaves>>

\* The consumer asks on after the last chunk of an attempt: the breaker and
\* the audit log hear of the success.
Succeed(r) ==
  /\ phase[r] = "replaying"
  /\ pending[r] = <<>>
  /\ SetBreaker(r, RecordSuccess(BreakerOf(r)))
  /\ Record(r, "success")
  /\ ReleaseAndGoto(r, "over")
  /\ UNCHANGED <<buffered, attempt, key, pending, got, cache, leaves>>

\* The consumer asks on after the last cached chunk.
HitEnds(r) ==
  /\ phase[r] = "hit"
  /\ pending[r] = <<>>
  /\ Goto(r, "over")
  /\ UNCHANGED <<buffered, attempt, key, pending, got, breakers, cache, audit, leaves>>

\* The generator is closed or its task cancelled: the semaphore and its
\* queue are left, and neither breaker nor audit log hears of it.
Leave(r) ==
  /\ leaves < MaxLeaves
  /\ leaves' = leaves + 1
  /\ \/ /\ phase[r] \in {"waiting", "hit"}
        /\ Goto(r, "left")
     \/ /\ phase[r] = "queued"
        /\ \E i \in DOMAIN queue : queue[i] = r /\ queue' = RemoveAt(queue, i)
        /\ phase' = [phase EXCEPT ![r] = "left"]
        /\ UNCHANGED free
     \/ /\ r \in Holders
        /\ ReleaseAndGoto(r, "left")
  /\ pending' = [pending EXCEPT ![r] = <<>>]
  /\ got' = [got EXCEPT ![r] = <<>>]
  /\ UNCHANGED <<buffered, attempt, key, breakers, cache, audit>>

\* The cache drops an entry: expiry, eviction or invalidation.
Drop(k) ==
  /\ cache[k] # <<>>
  /\ cache' = [cache EXCEPT ![k] = <<>>]
  /\ UNCHANGED <<buffered, phase, attempt, key, pending, got, breakers, free, queue,
                 audit, leaves>>

\* clear(): the audit log is deleted.
ClearAudit ==
  /\ audit' = [r \in Run |-> "none"]
  /\ UNCHANGED <<buffered, phase, attempt, key, pending, got, shared, leaves>>

Tick ==
  /\ \E m \in Model : breakers[m].age < RecoveryTimeout
  /\ breakers' = [m \in Model |-> Aged(breakers[m])]
  /\ UNCHANGED <<buffered, phase, attempt, key, pending, got, free, queue, cache,
                 audit, leaves>>

\* What the generator of r does when the event loop or its consumer lets it.
Advance(r) ==
  \/ Admit(r) \/ Refuse(r) \/ Fail(r) \/ Collect(r) \/ Pass(r) \/ Replay(r)
  \/ Succeed(r) \/ HitEnds(r)

Next ==
  \/ \E r \in Run : Begin(r) \/ Advance(r) \/ Leave(r)
  \/ \E k \in Key : Drop(k)
  \/ ClearAudit \/ Tick

Spec == Init /\ [][Next]_vars

\* A consumer reads on (or leaves), waits end, and the loop runs what can
\* run.
FairSpec == Spec /\ \A r \in Run : WF_vars(Advance(r))

----------------------------------------------------------------------------
(***************************************************************************)
(* Properties                                                              *)
(***************************************************************************)

\* Whatever fails or leaves, the semaphore's value and its holders add up
\* to max_concurrency, the waiters are those that wait, each once, and none
\* waits while the value is above 0.
SlotsReturn ==
  /\ free + Cardinality(Holders) = MaxConcurrency
  /\ IsInjective(queue)
  /\ ToSet(queue) = {r \in Run : phase[r] = "queued"}
  /\ queue # <<>> => free = 0

\* c is the whole answer of one attempt, of a run with key k.
Complete(c, k) ==
  /\ c # <<>>
  /\ key[c[1].run] = k
  /\ \A i \in DOMAIN c :
       c[i] = [c[1] EXCEPT !.kind = IF i < Len(c) THEN "part" ELSE "output"]

Ending(chunk) == chunk.kind # "part"

\* A stream has one chunk that says done, and it is the last: run() does not
\* return without one.  With a buffer a consumer never sees anything of an
\* attempt that failed: what it got, with what is still to come, is the whole
\* answer of a single attempt, its own or one cached for the same model and
\* payload, or the error alone.
CleanStream ==
  /\ \A r \in Run :
       /\ \A i \in DOMAIN got[r] : Ending(got[r][i]) => i = Len(got[r])
       /\ phase[r] = "over" => got[r] # <<>> /\ Ending(Last(got[r]))
  /\ buffered =>
       /\ \A k \in Key : cache[k] # <<>> => Complete(cache[k], k)
       /\ \A r \in Run : got[r] # <<>> =>
            \/ Complete(got[r] \o pending[r], key[r])
            \/ Len(got[r]) = 1 /\ got[r][1].kind = "error"

\* How many attempts of r have failed, as far as it goes on record.
FailuresOf(r) == attempt[r]
  + (IF got[r] # <<>> /\ Last(got[r]).kind = "error" /\ attempt[r] = MaxRetries THEN 1 ELSE 0)

\* The failures of the runs of model m, each with its number.
FailuresAt(m) ==
  {f \in Run \X (1..(MaxRetries + 1)) : ModelOf(f[1]) = m /\ f[2] <= FailuresOf(f[1])}

\* What the audit log tells is true: a success was an output of the run's
\* own; a failure was refused, by a breaker that runs of that very model had
\* tripped with failures of theirs.
RecordsTrue ==
  \A r \in Run :
    /\ audit[r] = "success" =>
         /\ phase[r] = "over"
         /\ Last(got[r]).kind = "output"
         /\ Last(got[r]).run = r
    /\ audit[r] = "failure" =>
         /\ Last(got[r]).kind = "error"
         /\ Cardinality(FailuresAt(ModelOf(r))) >= FailureThreshold

\* Every stream that was begun ends: retries are finite, and no failure,
\* refusal or departure keeps the semaphore from the others.
StreamsEnd == \A r \in Run : phase[r] # "new" ~> phase[r] \in {"over", "raised", "left"}

=============================================================================
