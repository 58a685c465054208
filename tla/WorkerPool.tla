----------------------------- MODULE WorkerPool -----------------------------
(***************************************************************************)
(* The in-process half of distributed.py: DistributedExecutor routing      *)
(* tasks to WorkerNodes, each with its queue and its worker coroutines.    *)
(* An action is what runs between two awaits.  submit() has none when all  *)
(* nodes are local, so the whole retry loop of submit() is one action.     *)
(***************************************************************************)
EXTENDS Integers, FiniteSets, SequencesExt

CONSTANTS
  Task,           \* submissions
  Node,           \* WorkerNodes that may be added
  MaxQueueDepth,  \* WorkerNode.max_queue_depth
  Concurrency,    \* WorkerNode.concurrency
  MaxRetries,     \* DistributedExecutor.max_retries
  Impatient,      \* bound: tasks whose awaiter may be cancelled
  MaxCalls        \* bound: calls that add, remove, start, stop or mark nodes

ASSUME PoolAssumption ==
  /\ IsFiniteSet(Node)
  /\ MaxQueueDepth \in Nat
  /\ Concurrency \in Nat \ {0}
  /\ MaxRetries \in Nat
  /\ MaxCalls \in Nat

VARIABLES
  registered,  \* NodeRegistry._nodes
  started,     \* DistributedExecutor._started
  shutdown,    \* a DistributedExecutor.stop() is under way
  unhealthy,   \* nodes whose _health is UNHEALTHY
  queue,       \* queue[n]: WorkerNode._queue
  workers,     \* workers[n]: how many coroutines _worker_tasks holds
  running,     \* running[n]: tasks inside _execute
  stops,       \* the WorkerNode.stop() calls under way, <<node, caller, phase>>
  handle,      \* handle[t]: the TaskHandle's future, or how submit() ended
  calls,       \* management calls made, counted for the bound
  cancelled    \* history: tasks cancelled inside _execute

nodeVars == <<registered, started, shutdown, unhealthy>>
loadVars == <<queue, workers, running>>
vars == <<nodeVars, loadVars, stops, handle, calls, cancelled>>

\* A future is done when it has a result, or when it was cancelled.
Result == {"done", "failed"}
Settled == Result \cup {"withdrawn"}
Handle == {"new", "refused", "pending"} \cup Settled

\* stop() is called by remove_node (as a task of its own) and by the
\* executor's stop().  "joining" awaits queue.join(); "joined" has been
\* woken, or has timed out, and is about to cancel the workers.
Stopper == {"remove_node", "executor"}
StopPhase == {"joining", "joined"}

TypeOK ==
  /\ registered \in SUBSET Node
  /\ started \in BOOLEAN
  /\ shutdown \in BOOLEAN
  /\ unhealthy \in SUBSET Node
  /\ queue \in [Node -> Seq(Task)]
  /\ \A n \in Node : Len(queue[n]) <= MaxQueueDepth
  /\ workers \in [Node -> Nat]
  /\ running \in [Node -> SUBSET Task]
  /\ stops \in SUBSET (Node \X Stopper \X StopPhase)
  /\ handle \in [Task -> Handle]
  /\ calls \in 0..MaxCalls
  /\ cancelled \in SUBSET Task

Init ==
  /\ registered \in SUBSET Node
  /\ started = FALSE
  /\ shutdown = FALSE
  /\ unhealthy = {}
  /\ queue = [n \in Node |-> <<>>]
  /\ workers = [n \in Node |-> 0]
  /\ running = [n \in Node |-> {}]
  /\ stops = {}
  /\ handle = [t \in Task |-> "new"]
  /\ calls = 0
  /\ cancelled = {}

----------------------------------------------------------------------------
(***************************************************************************)
(* Routing                                                                 *)
(***************************************************************************)

Queued(n) == ToSet(queue[n])
Load(n) == Cardinality(running[n]) + Len(queue[n])

\* The depth is compared one task too late.
Full_OffByOne(n) == Len(queue[n]) > MaxQueueDepth

Full(n) == Len(queue[n]) >= MaxQueueDepth

\* enqueue(t) on a node that is not full.
Enqueued(n, t) == [queue EXCEPT ![n] = Append(@, t)]

HealthyNodes == registered \ unhealthy
LeastLoaded(S) == {n \in S : \A m \in S : Load(n) <= Load(m)}

\* The attempts that submit() has behind it found the nodes of B full, in
\* order of load, and marked each one unhealthy.  (Nodes of equal load are
\* taken in any order; the code takes them in order of registration.)
Passed(B) ==
  /\ Cardinality(B) <= MaxRetries
  /\ \A n \in B : Full(n) /\ \A m \in HealthyNodes \ B : Load(n) <= Load(m)

\* Gives up at the first full node.
Submit_NoFailover(t) ==
  /\ handle[t] = "new"
  /\ \/ \E n \in LeastLoaded(HealthyNodes) :
          IF Full(n)
          THEN handle' = [handle EXCEPT ![t] = "refused"] /\ UNCHANGED queue
          ELSE /\ queue' = Enqueued(n, t)
               /\ handle' = [handle EXCEPT ![t] = "pending"]
     \/ /\ HealthyNodes = {}
        /\ handle' = [handle EXCEPT ![t] = "refused"]
        /\ UNCHANGED queue
  /\ UNCHANGED <<nodeVars, workers, running, stops, calls, cancelled>>

\* submit(): enqueue on the next node in order of load, or raise because
\* the last attempt met a full node, or because no healthy node is left.
Submit(t) ==
  /\ handle[t] = "new"
  /\ \E B \in SUBSET HealthyNodes :
       /\ Passed(B)
       /\ \/ \E n \in LeastLoaded(HealthyNodes \ B) :
               /\ ~Full(n)
               /\ queue' = Enqueued(n, t)
               /\ handle' = [handle EXCEPT ![t] = "pending"]
          \/ /\ \/ /\ Cardinality(B) = MaxRetries
                   /\ \E n \in LeastLoaded(HealthyNodes \ B) : Full(n)
                \/ HealthyNodes \ B = {}
             /\ handle' = [handle EXCEPT ![t] = "refused"]
             /\ UNCHANGED queue
       /\ unhealthy' = unhealthy \cup B
  /\ UNCHANGED <<registered, started, shutdown, workers, running, stops, calls, cancelled>>

\* One more management call.
Managed == calls < MaxCalls /\ calls' = calls + 1

\* mark_healthy() or mark_unhealthy() called on a local node from outside:
\* nothing in the package marks a local node healthy.
SetHealth(n) ==
  /\ Managed
  /\ unhealthy' \in {unhealthy \cup {n}, unhealthy \ {n}} \ {unhealthy}
  /\ UNCHANGED <<registered, started, shutdown, loadVars, stops, handle, cancelled>>

----------------------------------------------------------------------------
(***************************************************************************)
(* A node's workers                                                        *)
(***************************************************************************)

\* The worker looks at the head of the queue and leaves it there.
Take_Peek(n) ==
  /\ queue[n] # <<>>
  /\ Cardinality(running[n]) < workers[n]
  /\ running' = [running EXCEPT ![n] = @ \cup {Head(queue[n])}]
  /\ UNCHANGED <<nodeVars, queue, workers, stops, handle, calls, cancelled>>

\* An idle worker gets the next task and starts _execute.
Take(n) ==
  /\ queue[n] # <<>>
  /\ Cardinality(running[n]) < workers[n]
  /\ queue' = [queue EXCEPT ![n] = Tail(@)]
  /\ running' = [running EXCEPT ![n] = @ \cup {Head(queue[n])}]
  /\ UNCHANGED <<nodeVars, workers, stops, handle, calls, cancelled>>

\* An exception in _execute leaves the worker without a result.
Finish_Silent(n, t) ==
  /\ t \in running[n]
  /\ running' = [running EXCEPT ![n] = @ \ {t}]
  /\ handle' \in {handle, [handle EXCEPT ![t] = "done"]}
  /\ UNCHANGED <<nodeVars, queue, workers, stops, calls, cancelled>>

\* The result is set on a future that may be done already.
Finish_Overwrite(n, t) ==
  /\ t \in running[n]
  /\ running' = [running EXCEPT ![n] = @ \ {t}]
  /\ \E r \in Result : handle' = [handle EXCEPT ![t] = r]
  /\ UNCHANGED <<nodeVars, queue, workers, stops, calls, cancelled>>

\* _execute returns or raises: set_result with DONE or FAILED, unless the
\* future is done; then task_done().
Finish(n, t) ==
  /\ t \in running[n]
  /\ running' = [running EXCEPT ![n] = @ \ {t}]
  /\ IF handle[t] \in Settled
     THEN UNCHANGED handle
     ELSE \E r \in Result : handle' = [handle EXCEPT ![t] = r]
  /\ UNCHANGED <<nodeVars, queue, workers, stops, calls, cancelled>>

\* A coroutine that awaits the handle is cancelled (wait_for() gives up, say),
\* which cancels its future.  The task stays where it is.
Withdraw(t) ==
  /\ t \in Impatient
  /\ handle[t] = "pending"
  /\ handle' = [handle EXCEPT ![t] = "withdrawn"]
  /\ UNCHANGED <<nodeVars, loadVars, stops, calls, cancelled>>

----------------------------------------------------------------------------
(***************************************************************************)
(* Starting and stopping                                                   *)
(***************************************************************************)

\* WorkerNode.start() adds Concurrency workers to those already there.
Started(S) ==
  workers' = [n \in Node |-> IF n \in S THEN workers[n] + Concurrency ELSE workers[n]]

\* add_node(): NodeRegistry.add ignores a known node, but a started
\* executor starts it again all the same.
AddNode(n) ==
  /\ Managed
  /\ registered' = registered \cup {n}
  /\ IF started THEN Started({n}) ELSE n \notin registered /\ UNCHANGED workers
  /\ UNCHANGED <<started, shutdown, unhealthy, queue, running, stops, handle, cancelled>>

\* remove_node(): the node leaves the registry and its stop() is scheduled.
RemoveNode(n) ==
  /\ Managed
  /\ n \in registered
  /\ registered' = registered \ {n}
  /\ stops' = stops \cup {<<n, "remove_node", "joining">>}
  /\ UNCHANGED <<started, shutdown, unhealthy, loadVars, handle, cancelled>>

\* DistributedExecutor.start()
StartExecutor ==
  /\ Managed
  /\ Started(registered)
  /\ started' = TRUE
  /\ UNCHANGED <<registered, shutdown, unhealthy, queue, running, stops, handle, cancelled>>

\* DistributedExecutor.stop() begins: a stop() for every registered node.
StopExecutor ==
  /\ Managed
  /\ ~shutdown
  /\ shutdown' = TRUE
  /\ stops' = stops \cup {<<n, "executor", "joining">> : n \in registered}
  /\ UNCHANGED <<registered, started, unhealthy, loadVars, handle, cancelled>>

\* queue.join() returns once every task taken or waiting is done, or
\* wait_for gives up: at any time.  The coroutine runs on only later.
JoinReturns(n, by) ==
  /\ <<n, by, "joining">> \in stops
  /\ stops' = (stops \ {<<n, by, "joining">>}) \cup {<<n, by, "joined">>}
  /\ UNCHANGED <<nodeVars, loadVars, handle, calls, cancelled>>

\* The rest of stop(): the workers are cancelled.  A task inside _execute
\* is marked done in the queue and its handle stays as it is.
CancelWorkers(n, by) ==
  /\ <<n, by, "joined">> \in stops
  /\ stops' = stops \ {<<n, by, "joined">>}
  /\ workers' = [workers EXCEPT ![n] = 0]
  /\ running' = [running EXCEPT ![n] = {}]
  /\ cancelled' = cancelled \cup running[n]
  /\ UNCHANGED <<nodeVars, queue, handle, calls>>

\* The executor's stop() returns once every node's has.
StopReturns ==
  /\ shutdown
  /\ \A s \in stops : s[2] # "executor"
  /\ shutdown' = FALSE
  /\ started' = FALSE
  /\ UNCHANGED <<registered, unhealthy, loadVars, stops, handle, calls, cancelled>>

Next ==
  \/ \E t \in Task : Submit(t) \/ Withdraw(t)
  \/ \E n \in Node :
       \/ SetHealth(n) \/ Take(n) \/ AddNode(n) \/ RemoveNode(n)
       \/ \E t \in Task : Finish(n, t)
       \/ \E by \in Stopper : JoinReturns(n, by) \/ CancelWorkers(n, by)
  \/ StartExecutor \/ StopExecutor \/ StopReturns

Spec == Init /\ [][Next]_vars

\* Worker coroutines run when they can, and what they await comes back.
\* Nothing obliges anyone to submit, add, remove, start or stop.
Fairness ==
  \A n \in Node :
    /\ WF_vars(Take(n))
    /\ \A t \in Task : WF_vars(Finish(n, t))

FairSpec == Spec /\ Fairness

----------------------------------------------------------------------------
(***************************************************************************)
(* Properties                                                              *)
(***************************************************************************)

\* A task is in one place at most: once in one queue, or in one _execute.
\* No failover, restart or re-registration makes a second copy.
OneHolder ==
  /\ \A n \in Node : IsInjective(queue[n]) /\ Queued(n) \cap running[n] = {}
  /\ \A n, m \in Node : n # m =>
       (Queued(n) \cup running[n]) \cap (Queued(m) \cup running[m]) = {}

\* An accepted task with no result waits in a queue, is being executed, or
\* was cancelled by a stop() while being executed: it is lost no other way.
NoTaskLost ==
  \A t \in Task :
    handle[t] = "pending" =>
      t \in cancelled \cup UNION {Queued(n) \cup running[n] : n \in Node}

\* An accepted task is neither lost nor doubled: it is in exactly one queue
\* or _execute, once, until it has its result or a stop() cancels it.
InOnePlace == NoTaskLost /\ OneHolder

\* submit() raises only if every healthy node was full, or if more of them
\* were full than it has retries (JustifiedRefusal is about the failover
\* loop: it may not give up on a pool that has room within its retries).
JustifiedRefusal ==
  [][ \A t \in Task : handle[t] = "new" /\ handle'[t] = "refused" =>
        \/ \A n \in HealthyNodes : Full(n)
        \/ Cardinality({n \in HealthyNodes : Full(n)}) > MaxRetries ]_vars

\* Every accepted task gets a result, unless its submitter no longer waits, or
\* a stop() cancelled it or left it in a queue that has no worker.
Served ==
  \A t \in Task :
    handle[t] = "pending" ~>
      \/ handle[t] \in Settled
      \/ t \in cancelled
      \/ \E n \in Node : t \in Queued(n) /\ workers[n] = 0

\* The pool keeps the ledger's promise: handles go through one accept or
\* refusal and at most one result, and one whose awaiter was cancelled gets
\* none, although its task runs on (distributed.py:163).
Ledger == INSTANCE TaskLedger WITH ledger <- handle
KeepsLedger == Ledger!Spec

=============================================================================
