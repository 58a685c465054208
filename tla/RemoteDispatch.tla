--------------------------- MODULE RemoteDispatch ---------------------------
(***************************************************************************)
(* The distributed half of distributed.py and worker_server.py: a          *)
(* coordinator (DistributedExecutor over RemoteWorkerNodes) sends tasks by *)
(* HTTP to workers (WorkerHttpApp), each behind a breaker of its own.      *)
(*                                                                         *)
(* A step is what one coroutine of one process does between two awaits.    *)
(* A request or an answer may be slow or lost; the client then times out,  *)
(* and what the worker does about the request goes on without it.          *)
(***************************************************************************)
EXTENDS CircuitBreaker, FiniteSets

CONSTANTS
  Submission,  \* the tasks submitted
  Malformed,   \* the tasks submitted with an empty agent_name
  Worker,      \* remote nodes
  None,        \* Python's None
  MaxUpsets    \* bound: calls of ping(), changes of the pool and crashes of
               \* a worker process

ASSUME DispatchAssumption ==
  /\ Malformed \subseteq Submission
  /\ IsFiniteSet(Submission)
  /\ MaxUpsets \in Nat

VARIABLES
  \* the coordinator
  phase,     \* phase[t]: where submit() and _dispatch() stand
  target,    \* target[t]: the node chosen by _least_loaded_all
  view,      \* view[t]: the answer to submit()'s GET /health
  pool,      \* the nodes in _remote_nodes
  circuit,   \* circuit[w]: RemoteWorkerNode._circuit_state
  healthy,   \* nodes whose _health is HEALTHY
  active,    \* active[w]: RemoteWorkerNode._active_tasks
  pong,      \* pong[w]: the answer on its way to a ping()
  \* the workers
  breaker,   \* breaker[w]: WorkerHttpApp._circuit_breaker
  request,   \* request[t]: the POST /execute of t, or the answer to it
  upsets,    \* counted for the bound
  leaked     \* history, leaked[w]: malformed requests let in by the present HALF_OPEN

coordinatorVars == <<phase, target, view, pool, circuit, healthy, active>>
workerVars == <<breaker, leaked>>
remoteVars == <<coordinatorVars, pong, workerVars, request, upsets>>

\* "checking" awaits GET /health; "checked" has its answer; "spawned" has
\* a handle and a scheduled _dispatch; "posted" awaits POST /execute.  A
\* task ends "raised" (submit() raised), "done" or "failed" (its handle).
Phase == {"new", "checking", "checked", "spawned", "posted",
          "raised", "done", "failed"}

\* "running" is in the worker's executor; "refused" is a 503, "invalid" a
\* 422, "done" and "failed" a 200 with that status, all on their way back.
Request == {"none", "sent", "running", "refused", "invalid", "done", "failed",
            "gone"}

\* A WorkerCircuitState, as far as the coordinator reads it.
Circuit == [state : CircuitState, full : BOOLEAN]
HealthAnswer == [code : {200, 503}, circuit : Circuit]

Executing(w) == {t \in Submission : target[t] = w /\ request[t] = "running"}
InFlight(w) == {t \in Submission : target[t] = w /\ phase[t] = "posted"}

RemoteTypeOK ==
  /\ phase \in [Submission -> Phase]
  /\ target \in [Submission -> Worker \cup {None}]
  /\ view \in [Submission -> HealthAnswer \cup {None}]
  /\ pool \subseteq Worker
  /\ circuit \in [Worker -> Circuit \cup {None}]
  /\ healthy \in SUBSET Worker
  /\ active \in [Worker -> 0..Cardinality(Submission)]
  /\ pong \in [Worker -> {"none", "ok", "bad"}]
  /\ breaker \in [Worker -> Breaker]
  /\ request \in [Submission -> Request]
  /\ upsets \in 0..MaxUpsets
  /\ leaked \in [Worker -> 0..Cardinality(Submission)]

RemoteInit ==
  /\ phase = [t \in Submission |-> "new"]
  /\ target = [t \in Submission |-> None]
  /\ view = [t \in Submission |-> None]
  /\ pool = Worker
  /\ circuit = [w \in Worker |-> None]
  /\ healthy = Worker
  /\ active = [w \in Worker |-> 0]
  /\ pong = [w \in Worker |-> "none"]
  /\ breaker = [w \in Worker |-> NewBreaker]
  /\ request = [t \in Submission |-> "none"]
  /\ upsets = 0
  /\ leaked = [w \in Worker |-> 0]

----------------------------------------------------------------------------
(***************************************************************************)
(* The worker's endpoints                                                  *)
(***************************************************************************)

\* The breaker of w becomes b, by a step that lets in `more` malformed
\* requests.
BreakerStep(w, b, more) ==
  /\ breaker' = [breaker EXCEPT ![w] = b]
  /\ leaked' = [leaked EXCEPT ![w] =
       IF b.state # "half_open" THEN 0
       ELSE IF breaker[w].state = "half_open" THEN @ + more ELSE more]

\* GET /health: from_circuit_breaker() reads the state, then calls
\* can_execute().  So the answer tells the state before any recovery, and an
\* OPEN breaker whose timeout has passed answers 503 once more.
Snapshot(b) == [state |-> b.state, full |-> b.probes >= HalfOpenMaxCalls]
Health(b) ==
  [code |-> IF b.state = "open" THEN 503 ELSE 200, circuit |-> Snapshot(b)]

\* get_circuit_state(): anything but a 200 reads as None.
GetCircuitState(answer) ==
  IF answer # None /\ answer.code = 200 THEN answer.circuit ELSE None

----------------------------------------------------------------------------
(***************************************************************************)
(* submit()                                                                *)
(***************************************************************************)

IsCircuitOpen(w) == circuit[w] # None /\ circuit[w].state = "open"
IsCircuitHalfOpen(w) == circuit[w] # None /\ circuit[w].state = "half_open"

Candidates == {w \in pool \cap healthy : ~IsCircuitOpen(w)}

\* Twice the load: a HALF_OPEN node counts one and a half times.
EffectiveLoad(w) == active[w] * (IF IsCircuitHalfOpen(w) THEN 3 ELSE 2)

\* _least_loaded_all picks a node for t, and submit() asks for its circuit;
\* or there is no candidate and submit() raises NoHealthyNodesError.
Route(t) ==
  /\ phase[t] = "new"
  /\ \/ \E w \in Candidates :
          /\ \A v \in Candidates : EffectiveLoad(w) <= EffectiveLoad(v)
          /\ target' = [target EXCEPT ![t] = w]
          /\ phase' = [phase EXCEPT ![t] = "checking"]
     \/ /\ Candidates = {}
        /\ phase' = [phase EXCEPT ![t] = "raised"]
        /\ UNCHANGED target
  /\ UNCHANGED <<view, pool, circuit, healthy, active, pong, workerVars, request,
                 upsets>>

\* The worker answers the GET /health of t's submit().
HealthAnswered(t) ==
  LET w == target[t]
  IN /\ phase[t] = "checking"
     /\ BreakerStep(w, AfterCanExecute(breaker[w]), 0)
     /\ view' = [view EXCEPT ![t] = Health(breaker[w])]
     /\ phase' = [phase EXCEPT ![t] = "checked"]
     /\ UNCHANGED <<target, pool, circuit, healthy, active, pong, request, upsets>>

\* The GET /health of t's submit() fails or times out.
HealthLost(t) ==
  /\ phase[t] = "checking"
  /\ phase' = [phase EXCEPT ![t] = "checked"]
  /\ UNCHANGED <<target, view, pool, circuit, healthy, active, pong, workerVars, request,
                 upsets>>

\* An OPEN worker and a HALF_OPEN one with no probe slot make submit()
\* raise WorkerCircuitOpenError.
Rejects(c) ==
  /\ c # None
  /\ \/ c.state = "open"
     \/ c.state = "half_open" /\ c.full

\* submit() caches the answer, then raises or schedules _dispatch().
Decide(t) ==
  /\ phase[t] = "checked"
  /\ circuit' = [circuit EXCEPT ![target[t]] = GetCircuitState(view[t])]
  /\ view' = [view EXCEPT ![t] = None]
  /\ phase' = [phase EXCEPT ![t] = IF Rejects(GetCircuitState(view[t])) THEN "raised" ELSE "spawned"]
  /\ UNCHANGED <<target, pool, healthy, active, pong, workerVars, request,
                 upsets>>

----------------------------------------------------------------------------
(***************************************************************************)
(* _dispatch() and POST /execute                                           *)
(***************************************************************************)

\* _dispatch() starts: one more active task, and the POST goes out.
Dispatch(t) ==
  /\ phase[t] = "spawned"
  /\ active' = [active EXCEPT ![target[t]] = @ + 1]
  /\ phase' = [phase EXCEPT ![t] = "posted"]
  /\ request' = [request EXCEPT ![t] = "sent"]
  /\ UNCHANGED <<target, view, pool, circuit, healthy, pong, workerVars, upsets>>

\* The worker takes the request: pre_call() first, then the body, whose
\* empty agent_name is turned down with the probe slot already taken.
Admit(t) ==
  LET w == target[t]
      admitted == CanExecute(breaker[w])
      invalid == admitted /\ t \in Malformed
  IN /\ request[t] = "sent"
     /\ BreakerStep(w, IF admitted THEN PreCall(breaker[w])
                                   ELSE AfterCanExecute(breaker[w]),
                    IF invalid THEN 1 ELSE 0)
     /\ request' = [request EXCEPT ![t] =
          IF ~admitted THEN "refused" ELSE IF invalid THEN "invalid" ELSE "running"]
     /\ UNCHANGED <<coordinatorVars, pong, upsets>>

\* A successful execution is answered without a word to the breaker.
Execute_Unrecorded(t) ==
  /\ request[t] = "running"
  /\ \/ /\ request' = [request EXCEPT ![t] = "done"]
        /\ UNCHANGED workerVars
     \/ /\ BreakerStep(target[t], RecordFailure(breaker[target[t]]), 0)
        /\ request' = [request EXCEPT ![t] = "failed"]
  /\ UNCHANGED <<coordinatorVars, pong, upsets>>

\* The executor's stream ends, with an error chunk or exception or without,
\* and the breaker is told.
Execute(t) ==
  /\ request[t] = "running"
  /\ \/ /\ BreakerStep(target[t], RecordSuccess(breaker[target[t]]), 0)
        /\ request' = [request EXCEPT ![t] = "done"]
     \/ /\ BreakerStep(target[t], RecordFailure(breaker[target[t]]), 0)
        /\ request' = [request EXCEPT ![t] = "failed"]
  /\ UNCHANGED <<coordinatorVars, pong, upsets>>

\* The task is no longer in flight.
Settle(t, outcome) ==
  /\ phase' = [phase EXCEPT ![t] = outcome]
  /\ active' = [active EXCEPT ![target[t]] = @ - 1]
  /\ UNCHANGED <<target, view, pool, circuit, healthy, pong, workerVars, request,
                 upsets>>

\* The body of a 503 or a 422 is read like a result, and one without a
\* status is taken for DONE.
Reply_StatusUnchecked(t) ==
  /\ phase[t] = "posted"
  /\ request[t] \in {"refused", "invalid", "done", "failed"}
  /\ Settle(t, IF request[t] = "failed" THEN "failed" ELSE "done")

\* The answer to the POST: raise_for_status() turns a 503 or a 422 into an
\* exception, which _dispatch() makes a FAILED result.
Reply(t) ==
  /\ phase[t] = "posted"
  /\ request[t] \in {"refused", "invalid", "done", "failed"}
  /\ Settle(t, IF request[t] = "done" THEN "done" ELSE "failed")

\* The count of active tasks is left up by the failed POST.
PostLost_ActiveKept(t) ==
  /\ phase[t] = "posted"
  /\ phase' = [phase EXCEPT ![t] = "failed"]
  /\ UNCHANGED <<target, view, pool, circuit, healthy, active, pong, workerVars, request,
                 upsets>>

\* The POST times out or its connection breaks, wherever the worker is.
PostLost(t) ==
  /\ phase[t] = "posted"
  /\ Settle(t, "failed")

----------------------------------------------------------------------------
(***************************************************************************)
(* Health and restarts                                                     *)
(***************************************************************************)

\* remove_remote_node(): no more tasks are routed to the node; those that
\* were go on.
RemoveRemoteNode(w) ==
  /\ upsets < MaxUpsets
  /\ upsets' = upsets + 1
  /\ w \in pool
  /\ pool' = pool \ {w}
  /\ UNCHANGED <<phase, target, view, circuit, healthy, active, pong, workerVars,
                 request>>

\* add_remote_node() of a node that was removed, with what it remembers.
AddRemoteNode(w) ==
  /\ upsets < MaxUpsets
  /\ upsets' = upsets + 1
  /\ w \notin pool
  /\ pool' = pool \cup {w}
  /\ UNCHANGED <<phase, target, view, circuit, healthy, active, pong, workerVars,
                 request>>

\* The worker answers a ping(): 200, or 503 when OPEN.
Ping(w) ==
  /\ upsets < MaxUpsets
  /\ upsets' = upsets + 1
  /\ pong[w] = "none"
  /\ \/ /\ BreakerStep(w, AfterCanExecute(breaker[w]), 0)
        /\ pong' = [pong EXCEPT ![w] =
             IF Health(breaker[w]).code = 200 THEN "ok" ELSE "bad"]
     \/ /\ pong' = [pong EXCEPT ![w] = "bad"]
        /\ UNCHANGED workerVars
  /\ UNCHANGED <<coordinatorVars, request>>

\* ping() marks the node by the answer.
Pong(w) ==
  /\ pong[w] # "none"
  /\ healthy' = IF pong[w] = "ok" THEN healthy \cup {w} ELSE healthy \ {w}
  /\ pong' = [pong EXCEPT ![w] = "none"]
  /\ UNCHANGED <<phase, target, view, pool, circuit, active, workerVars, request,
                 upsets>>

\* The worker process dies and comes back with a new breaker; the requests
\* it had are gone.
Restart(w) ==
  /\ upsets < MaxUpsets
  /\ upsets' = upsets + 1
  /\ BreakerStep(w, NewBreaker, 0)
  /\ request' = [t \in Submission |->
       IF target[t] = w /\ request[t] \in {"sent", "running"} THEN "gone" ELSE request[t]]
  /\ UNCHANGED <<coordinatorVars, pong>>

\* Time passes on every worker's clock.
Tick ==
  /\ \E w \in Worker : breaker[w].age < RecoveryTimeout
  /\ breaker' = [w \in Worker |-> Aged(breaker[w])]
  /\ UNCHANGED <<coordinatorVars, pong, leaked, request, upsets>>

RemoteNext ==
  \/ \E t \in Submission :
       \/ Route(t) \/ HealthAnswered(t) \/ HealthLost(t) \/ Decide(t)
       \/ Dispatch(t) \/ Admit(t) \/ Execute(t) \/ Reply(t) \/ PostLost(t)
  \/ \E w \in Worker :
       \/ Ping(w) \/ Pong(w) \/ Restart(w) \/ AddRemoteNode(w) \/ RemoveRemoteNode(w)
  \/ Tick

RemoteSpec == RemoteInit /\ [][RemoteNext]_remoteVars

----------------------------------------------------------------------------
(***************************************************************************)
(* Properties                                                              *)
(***************************************************************************)

\* The load the router compares is the number of calls in flight: no error,
\* refusal or lost answer leaves a node looking busier than it is.  And every
\* slot of a HALF_OPEN worker is accounted for by a running task, a success,
\* or a request whose body was rejected after pre_call().
Accounted ==
  \A w \in Worker :
    /\ active[w] = Cardinality(InFlight(w))
    /\ LET b == breaker[w]
       IN b.state = "half_open" =>
            b.probes <= Cardinality(Executing(w)) + b.successes + leaked[w]

\* A handle says DONE only if the worker ran the task to the end and said
\* so: never for a refusal, a rejected body or a lost answer.
DoneMeansDone == \A t \in Submission : phase[t] = "done" => request[t] = "done"

=============================================================================
