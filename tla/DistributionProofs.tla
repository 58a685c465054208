------------------------- MODULE DistributionProofs --------------------------
(***************************************************************************)
(* What TLAPS proves, for every value of the constants, of the two executors *)
(* of distributed.py, which do not know of each other: the pool of local   *)
(* nodes (WorkerPool), type correctness, that no accepted task is lost or  *)
(* doubled, and that it implements the ledger of TaskLedger; and the remote *)
(* nodes (RemoteDispatch), type correctness, that the load of every node and *)
(* the slots of every breaker are accounted for, and that a handle says DONE *)
(* only of a task that was done.                                           *)
(***************************************************************************)
EXTENDS WorkerPool, RemoteDispatch, LoopLemmas, FiniteSetTheorems, SequenceTheorems

----------------------------------------------------------------------------
(***************************************************************************)
(* The pool of local nodes                                                 *)
(***************************************************************************)

\* A sequence holds its head and what its tail holds.
LEMMA SetOfTail ==
  ASSUME NEW S, NEW s \in Seq(S), s # <<>>
  PROVE  /\ Head(s) \in S
         /\ Tail(s) \in Seq(S)
         /\ ToSet(s) = {Head(s)} \cup ToSet(Tail(s))
         /\ Len(Tail(s)) <= Len(s)
  <1> DEFINE r == Tail(s)
  <1>1. Head(s) = s[1] /\ Len(s) \in Nat \ {0} /\ Head(s) \in S
    BY EmptySeq, LenProperties, HeadTailProperties
  <1>2. /\ r \in Seq(S)
        /\ Len(r) = Len(s) - 1
        /\ \A i \in 1..Len(r) : r[i] = s[i + 1]
    BY HeadTailProperties
  <1>3. DOMAIN s = 1..Len(s) /\ DOMAIN r = 1..(Len(s) - 1)
    BY <1>2, LenProperties
  <1> HIDE DEF r
  <1>4. ASSUME NEW y \in ToSet(s) PROVE y \in {s[1]} \cup ToSet(r)
    <2>1. PICK i \in 1..Len(s) : y = s[i]
      BY <1>3, <1>4 DEF ToSet
    <2>2. CASE i = 1
      BY <2>1, <2>2
    <2>3. CASE i # 1
      <3>1. i - 1 \in DOMAIN r /\ r[i - 1] = s[i]
        BY <1>1, <1>2, <1>3, <2>3
      <3> QED
        BY <2>1, <3>1 DEF ToSet
    <2> QED
      BY <2>2, <2>3
  <1>5. ASSUME NEW y \in {s[1]} \cup ToSet(r) PROVE y \in ToSet(s)
    <2>1. CASE y = s[1]
      BY <1>1, <1>3, <2>1 DEF ToSet
    <2>2. CASE y \in ToSet(r)
      <3>1. PICK i \in DOMAIN r : y = r[i]
        BY <2>2 DEF ToSet
      <3>2. i + 1 \in DOMAIN s /\ y = s[i + 1]
        BY <1>1, <1>2, <1>3, <3>1
      <3> QED
        BY <3>2 DEF ToSet
    <2> QED
      BY <1>5, <2>1, <2>2
  <1>6. ToSet(s) = {s[1]} \cup ToSet(r)
    BY <1>4, <1>5
  <1> QED
    BY <1>1, <1>2, <1>6 DEF r

----------------------------------------------------------------------------
(***************************************************************************)
(* Type correctness                                                        *)
(***************************************************************************)

\* submit() as its two outcomes, either of which may mark nodes unhealthy.
LEMMA SubmitCases ==
  ASSUME NEW t \in Task, Submit(t)
  PROVE  /\ handle[t] = "new"
         /\ unhealthy' \subseteq unhealthy \cup registered
         /\ \/ \E n \in registered :
                 /\ ~Full(n)
                 /\ queue' = [queue EXCEPT ![n] = Append(@, t)]
                 /\ handle' = [handle EXCEPT ![t] = "pending"]
            \/ queue' = queue /\ handle' = [handle EXCEPT ![t] = "refused"]
         /\ UNCHANGED <<registered, started, shutdown, workers, running, stops,
                        calls, cancelled>>
  BY DEF Submit, Enqueued, LeastLoaded, HealthyNodes

LEMMA TypeInit == Init => TypeOK
  <1> SUFFICES ASSUME Init PROVE TypeOK
    OBVIOUS
  <1>1. \A n \in Node : queue[n] \in Seq(Task) /\ Len(queue[n]) <= MaxQueueDepth
    BY PoolAssumption DEF Init
  <1>2. queue \in [Node -> Seq(Task)]
    BY <1>1 DEF Init
  <1>3. workers \in [Node -> Nat] /\ calls \in 0..MaxCalls
    BY PoolAssumption DEF Init
  <1> QED
    BY <1>1, <1>2, <1>3 DEF Init, TypeOK, Handle

LEMMA TypeNext == TypeOK /\ [Next]_vars => TypeOK'
  <1> SUFFICES ASSUME TypeOK, [Next]_vars PROVE TypeOK'
    OBVIOUS
  <1> USE PoolAssumption
  <1>0. ASSUME Managed PROVE calls' \in 0..MaxCalls
    BY <1>0 DEF Managed, TypeOK
  <1>1. ASSUME NEW t \in Task, Submit(t) PROVE TypeOK'
    <2>1. handle' \in [Task -> Handle] /\ unhealthy' \in SUBSET Node
      BY <1>1, SubmitCases DEF TypeOK, Handle
    <2>2. /\ queue' \in [Node -> Seq(Task)]
          /\ \A n \in Node : Len(queue'[n]) <= MaxQueueDepth
      <3>1. CASE queue' = queue
        BY <3>1 DEF TypeOK
      <3>2. ASSUME NEW n \in registered, ~Full(n),
                   queue' = [queue EXCEPT ![n] = Append(@, t)]
            PROVE  <2>2!1 /\ <2>2!2
        <4>1. n \in Node /\ queue[n] \in Seq(Task)
          BY DEF TypeOK
        <4>2. Append(queue[n], t) \in Seq(Task) /\ Len(Append(queue[n], t)) = Len(queue[n]) + 1
          BY <4>1, SetOfAppend
        <4>3. Len(queue[n]) < MaxQueueDepth /\ Len(queue[n]) \in Nat
          BY <3>2, <4>1 DEF Full
        <4>4. queue' \in [Node -> Seq(Task)]
          BY <3>2, <4>1, <4>2 DEF TypeOK
        <4>5. ASSUME NEW m \in Node PROVE Len(queue'[m]) <= MaxQueueDepth
          <5>1. CASE m = n
            BY <3>2, <4>2, <4>3, <5>1 DEF TypeOK
          <5>2. CASE m # n
            BY <3>2, <5>2 DEF TypeOK
          <5> QED
            BY <5>1, <5>2
        <4> QED
          BY <4>4, <4>5
      <3> QED
        BY <1>1, <3>1, <3>2, SubmitCases
    <2> QED
      BY <1>1, <2>1, <2>2, SubmitCases DEF TypeOK
  <1>2. ASSUME NEW n \in Node, SetHealth(n) PROVE TypeOK'
    BY <1>0, <1>2 DEF SetHealth, loadVars, TypeOK
  <1>3. ASSUME NEW n \in Node, Take(n) PROVE TypeOK'
    <2>1. queue[n] \in Seq(Task) /\ queue[n] # <<>> /\ Len(queue[n]) <= MaxQueueDepth
      BY <1>3 DEF Take, TypeOK
    <2>2. /\ Head(queue[n]) \in Task
          /\ Tail(queue[n]) \in Seq(Task)
          /\ Len(Tail(queue[n])) \in Nat /\ Len(Tail(queue[n])) <= Len(queue[n])
          /\ Len(queue[n]) \in Nat
      BY <2>1, SetOfTail
    <2>3. Len(Tail(queue[n])) <= MaxQueueDepth
      BY <2>1, <2>2
    <2>4. queue' = [queue EXCEPT ![n] = Tail(queue[n])]
      BY <1>3 DEF Take
    <2>5. queue' \in [Node -> Seq(Task)]
      BY <2>2, <2>4 DEF TypeOK
    <2>6. \A m \in Node : Len(queue'[m]) <= MaxQueueDepth
      BY <2>3, <2>4 DEF TypeOK
    <2>7. running' \in [Node -> SUBSET Task]
      BY <1>3, <2>2 DEF Take, TypeOK
    <2> QED
      BY <1>3, <2>5, <2>6, <2>7 DEF Take, nodeVars, TypeOK
  <1>4. ASSUME NEW n \in Node, NEW t \in Task, Finish(n, t) PROVE TypeOK'
    <2>1. handle' \in [Task -> Handle] /\ running' \in [Node -> SUBSET Task]
      BY <1>4 DEF Finish, TypeOK, Handle, Settled, Result
    <2> QED
      BY <1>4, <2>1 DEF Finish, nodeVars, TypeOK
  <1>5. ASSUME NEW n \in Node, AddNode(n) PROVE TypeOK'
    <2>1. Concurrency \in Nat /\ n \in Node
      OBVIOUS
    <2>2. workers' \in [Node -> Nat]
      BY <1>5, <2>1 DEF AddNode, Started, TypeOK
    <2>3. registered' \in SUBSET Node
      BY <1>5 DEF AddNode, TypeOK
    <2> QED
      BY <1>0, <1>5, <2>2, <2>3 DEF AddNode, TypeOK
  <1>6. ASSUME NEW n \in Node, RemoveNode(n) PROVE TypeOK'
    BY <1>0, <1>6 DEF RemoveNode, loadVars, TypeOK, Stopper, StopPhase
  <1>7. CASE StartExecutor
    BY <1>0, <1>7 DEF StartExecutor, Started, TypeOK
  <1>8. CASE StopExecutor
    BY <1>0, <1>8 DEF StopExecutor, loadVars, TypeOK, Stopper, StopPhase
  <1>9. ASSUME NEW n \in Node, NEW by \in Stopper, JoinReturns(n, by) PROVE TypeOK'
    BY <1>9 DEF JoinReturns, nodeVars, loadVars, TypeOK, StopPhase
  <1>10. ASSUME NEW n \in Node, NEW by \in Stopper, CancelWorkers(n, by) PROVE TypeOK'
    BY <1>10 DEF CancelWorkers, nodeVars, TypeOK
  <1>11. CASE StopReturns
    BY <1>11 DEF StopReturns, loadVars, TypeOK
  <1>12. CASE UNCHANGED vars
    BY <1>12 DEF vars, nodeVars, loadVars, TypeOK
  <1>13. ASSUME NEW t \in Task, Withdraw(t) PROVE TypeOK'
    <2>1. handle' \in [Task -> Handle]
      BY <1>13 DEF Withdraw, TypeOK, Handle, Settled
    <2> QED
      BY <1>13, <2>1 DEF Withdraw, nodeVars, loadVars, TypeOK
  <1> QED
    BY <1>1, <1>2, <1>3, <1>4, <1>5, <1>6, <1>7, <1>8, <1>9, <1>10, <1>11, <1>12, <1>13
    DEF Next

\* Every variable stays in its range; in particular no queue outgrows
\* max_queue_depth.
THEOREM TypeCorrect == Spec => []TypeOK
  BY TypeInit, TypeNext, PTL DEF Spec

----------------------------------------------------------------------------
(***************************************************************************)
(* Where the tasks are                                                     *)
(***************************************************************************)

Held(n) == Queued(n) \cup running[n]

\* Only accepted tasks are waiting or being executed.
HeldAccepted ==
  \A n \in Node, t \in Task : t \in Held(n) => handle[t] \notin {"new", "refused"}

LEMMA SubmitHolds ==
  ASSUME TypeOK, NEW t \in Task, Submit(t)
  PROVE  \/ /\ handle' = [handle EXCEPT ![t] = "pending"]
            /\ \E n \in Node : /\ Held(n)' = Held(n) \cup {t}
                               /\ \A m \in Node \ {n} : Held(m)' = Held(m)
         \/ /\ handle' = [handle EXCEPT ![t] = "refused"]
            /\ \A n \in Node : Held(n)' = Held(n)
  <1>1. ASSUME NEW n \in registered,
               queue' = [queue EXCEPT ![n] = Append(@, t)], running' = running
        PROVE  /\ n \in Node
               /\ Held(n)' = Held(n) \cup {t}
               /\ \A m \in Node \ {n} : Held(m)' = Held(m)
    <2>1. n \in Node /\ queue[n] \in Seq(Task) /\ queue \in [Node -> Seq(Task)]
      BY DEF TypeOK
    <2>2. ToSet(Append(queue[n], t)) = ToSet(queue[n]) \cup {t}
      BY <2>1, SetOfAppend
    <2>3. queue'[n] = Append(queue[n], t) /\ \A m \in Node \ {n} : queue'[m] = queue[m]
      BY <1>1, <2>1
    <2> QED
      BY <1>1, <2>1, <2>2, <2>3 DEF Held, Queued
  <1>2. ASSUME queue' = queue, running' = running
        PROVE  \A n \in Node : Held(n)' = Held(n)
    BY <1>2 DEF Held, Queued
  <1> QED
    BY <1>1, <1>2, SubmitCases

\* A take moves a task from the queue to the worker of the same node.
LEMMA TakeHolds ==
  ASSUME TypeOK, NEW n \in Node, Take(n)
  PROVE  \A m \in Node : Held(m)' = Held(m)
  <1>1. queue[n] \in Seq(Task) /\ queue[n] # <<>>
    BY DEF Take, TypeOK
  <1>2. ToSet(queue[n]) = {Head(queue[n])} \cup ToSet(Tail(queue[n]))
    BY <1>1, SetOfTail
  <1>3. /\ queue'[n] = Tail(queue[n])
        /\ running'[n] = running[n] \cup {Head(queue[n])}
        /\ \A m \in Node \ {n} : queue'[m] = queue[m] /\ running'[m] = running[m]
    BY DEF Take, TypeOK
  <1> QED
    BY <1>2, <1>3 DEF Held, Queued

\* A withdrawn task stays where it is.
LEMMA WithdrawHolds ==
  ASSUME TypeOK, NEW t \in Task, Withdraw(t)
  PROVE  /\ handle[t] = "pending" /\ handle' = [handle EXCEPT ![t] = "withdrawn"]
         /\ handle'[t] = "withdrawn" /\ \A u \in Task \ {t} : handle'[u] = handle[u]
         /\ queue' = queue /\ running' = running /\ cancelled' = cancelled
         /\ \A m \in Node : Held(m)' = Held(m)
  BY DEF Withdraw, loadVars, Held, Queued, TypeOK

\* Of the other steps, none adds to what a node holds; a finished task may
\* leave, and the tasks of cancelled workers.
LEMMA OtherHolds ==
  ASSUME TypeOK, [Next]_vars,
         \A t \in Task : ~Submit(t) /\ ~Withdraw(t),
         \A n \in Node, t \in Task : ~Finish(n, t)
  PROVE  /\ handle' = handle
         /\ cancelled \subseteq cancelled'
         /\ \A m \in Node : Held(m)' \subseteq Held(m) /\ Held(m) \subseteq Held(m)' \cup cancelled'
  <1>1. ASSUME NEW n \in Node, Take(n)
        PROVE  handle' = handle /\ cancelled' = cancelled
               /\ \A m \in Node : Held(m)' = Held(m)
    <2>1. handle' = handle /\ cancelled' = cancelled
      BY <1>1 DEF Take
    <2> QED
      BY <1>1, <2>1, TakeHolds
  <1>2. ASSUME queue' = queue, running' = running
        PROVE  \A m \in Node : Held(m)' = Held(m)
    BY <1>2 DEF Held, Queued
  <1>3. ASSUME NEW n \in Node, NEW by \in Stopper, CancelWorkers(n, by)
        PROVE  /\ handle' = handle /\ cancelled' = cancelled \cup running[n]
               /\ \A m \in Node : /\ Held(m)' \subseteq Held(m)
                                  /\ Held(m) \subseteq Held(m)' \cup cancelled'
    <2>1. /\ handle' = handle /\ cancelled' = cancelled \cup running[n]
          /\ queue' = queue /\ running' = [running EXCEPT ![n] = {}]
      BY <1>3 DEF CancelWorkers
    <2>2. ASSUME NEW m \in Node
          PROVE  Held(m)' \subseteq Held(m) /\ Held(m) \subseteq Held(m)' \cup cancelled'
      <3>1. CASE m = n
        BY <2>1, <3>1 DEF Held, Queued, TypeOK
      <3>2. CASE m # n
        BY <2>1, <3>2 DEF Held, Queued, TypeOK
      <3> QED
        BY <3>1, <3>2
    <2> QED
      BY <2>1, <2>2
  <1>4. ASSUME \/ \E n \in Node : SetHealth(n) \/ AddNode(n) \/ RemoveNode(n)
               \/ \E n \in Node, by \in Stopper : JoinReturns(n, by)
               \/ StartExecutor \/ StopExecutor \/ StopReturns
               \/ UNCHANGED vars
        PROVE  queue' = queue /\ running' = running /\ handle' = handle /\ cancelled' = cancelled
    BY <1>4 DEF SetHealth, AddNode, RemoveNode, JoinReturns, StartExecutor,
                StopExecutor, StopReturns, vars, nodeVars, loadVars
  <1> QED
    BY <1>1, <1>2, <1>3, <1>4 DEF Next

\* A finished task is settled and leaves its worker; nothing else moves.
LEMMA FinishHolds ==
  ASSUME TypeOK, NEW n \in Node, NEW t \in Task, Finish(n, t)
  PROVE  /\ t \in Held(n) /\ cancelled' = cancelled
         /\ handle'[t] \in Settled
         /\ \A u \in Task \ {t} : handle'[u] = handle[u]
         /\ \/ handle' = handle
            \/ /\ handle[t] \notin Settled
               /\ \E r \in Result : handle' = [handle EXCEPT ![t] = r]
         /\ \A m \in Node : Held(m)' \subseteq Held(m) /\ Held(m) \subseteq Held(m)' \cup {t}
  <1>1. t \in running[n] /\ queue' = queue /\ running' = [running EXCEPT ![n] = @ \ {t}]
        /\ cancelled' = cancelled
    BY DEF Finish
  <1>2. ASSUME NEW m \in Node
        PROVE  Held(m)' \subseteq Held(m) /\ Held(m) \subseteq Held(m)' \cup {t}
    <2>1. CASE m = n
      BY <1>1, <2>1 DEF Held, Queued, TypeOK
    <2>2. CASE m # n
      BY <1>1, <2>2 DEF Held, Queued, TypeOK
    <2> QED
      BY <2>1, <2>2
  <1>3. \/ handle[t] \in Settled /\ handle' = handle
        \/ /\ handle[t] \notin Settled
           /\ \E r \in Result : handle' = [handle EXCEPT ![t] = r]
    BY DEF Finish
  <1>4. handle'[t] \in Settled /\ \A u \in Task \ {t} : handle'[u] = handle[u]
    BY <1>3 DEF TypeOK, Settled
  <1> QED
    BY <1>1, <1>2, <1>3, <1>4 DEF Held

----------------------------------------------------------------------------
(***************************************************************************)
(* No task is lost                                                         *)
(***************************************************************************)

LEMMA LostNext == TypeOK /\ NoTaskLost /\ [Next]_vars => NoTaskLost'
  <1> SUFFICES ASSUME TypeOK, NoTaskLost, [Next]_vars,
                      NEW u \in Task, handle'[u] = "pending"
               PROVE  u \in cancelled' \/ \E m \in Node : u \in Held(m)'
    BY DEF NoTaskLost, Held
  <1> DEFINE There == u \in cancelled \/ \E m \in Node : u \in Held(m)
  <1>0. handle[u] = "pending" => There
    BY DEF NoTaskLost, Held
  <1>1. ASSUME NEW t \in Task, Submit(t)
        PROVE  u \in cancelled' \/ \E m \in Node : u \in Held(m)'
    <2>0. cancelled' = cancelled
      BY <1>1, SubmitCases
    <2>1. CASE u = t
      <3>1. handle' # [handle EXCEPT ![t] = "refused"]
        BY <2>1 DEF TypeOK
      <3>2. PICK n \in Node : Held(n)' = Held(n) \cup {t}
        BY <1>1, <3>1, SubmitHolds
      <3> QED
        BY <2>1, <3>2
    <2>2. CASE u # t
      <3>1. handle[u] = "pending" /\ \A m \in Node : Held(m) \subseteq Held(m)'
        <4>1. \A m \in Node : Held(m) \subseteq Held(m)'
          BY <1>1, SubmitHolds
        <4>2. handle'[u] = handle[u]
          BY <1>1, <2>2, SubmitCases DEF TypeOK
        <4> QED
          BY <4>1, <4>2
      <3> QED
        BY <1>0, <2>0, <3>1
    <2> QED
      BY <2>1, <2>2
  <1>2. ASSUME NEW n \in Node, NEW t \in Task, Finish(n, t)
        PROVE  u \in cancelled' \/ \E m \in Node : u \in Held(m)'
    <2>1. u # t /\ handle[u] = "pending"
      <3>1. handle'[t] \in Settled /\ \A v \in Task \ {t} : handle'[v] = handle[v]
        BY <1>2, FinishHolds
      <3> QED
        BY <3>1 DEF Settled, Result
    <2>2. cancelled' = cancelled /\ \A m \in Node : Held(m) \subseteq Held(m)' \cup {t}
      BY <1>2, FinishHolds
    <2>3. ASSUME NEW m \in Node, u \in Held(m) PROVE u \in Held(m)'
      BY <2>1, <2>2, <2>3
    <2> QED
      BY <1>0, <2>1, <2>2, <2>3
  <1>3. ASSUME \A t \in Task : ~Submit(t) /\ ~Withdraw(t), \A n \in Node, t \in Task : ~Finish(n, t)
        PROVE  u \in cancelled' \/ \E m \in Node : u \in Held(m)'
    BY <1>0, <1>3, OtherHolds
  <1>4. ASSUME NEW t \in Task, Withdraw(t)
        PROVE  u \in cancelled' \/ \E m \in Node : u \in Held(m)'
    <2>1. handle[u] = "pending"
      BY <1>4, WithdrawHolds
    <2> QED
      BY <1>0, <1>4, <2>1, WithdrawHolds
  <1> QED
    BY <1>1, <1>2, <1>3, <1>4

\* A task that was accepted and has no result is still in a queue, inside
\* _execute, or was cancelled there by a stop(), whatever nodes come, go,
\* start, stop or fill up.
THEOREM NothingIsLost == Spec => []NoTaskLost
  <1>1. Init => NoTaskLost
    BY DEF Init, NoTaskLost
  <1> QED
    BY <1>1, TypeInit, TypeNext, LostNext, PTL DEF Spec

----------------------------------------------------------------------------
(***************************************************************************)
(* The pool implements the ledger                                          *)
(***************************************************************************)

LEMMA AcceptedInit == Init => HeldAccepted
  <1> SUFFICES ASSUME Init, NEW n \in Node PROVE Held(n) = {}
    BY DEF HeldAccepted
  <1> QED
    BY DEF Init, Held, Queued, ToSet

LEMMA AcceptedNext == TypeOK /\ HeldAccepted /\ [Next]_vars => HeldAccepted'
  <1> SUFFICES ASSUME TypeOK, HeldAccepted, [Next]_vars, NEW m \in Node, NEW u \in Task, u \in Held(m)'
               PROVE  handle'[u] \notin {"new", "refused"}
    BY DEF HeldAccepted
  <1>1. ASSUME NEW t \in Task, Submit(t) PROVE handle'[u] \notin {"new", "refused"}
    <2>1. u = t => handle' = [handle EXCEPT ![t] = "pending"]
      <3>1. handle[t] = "new"
        BY <1>1, SubmitCases
      <3>2. t \notin Held(m)
        BY <3>1 DEF HeldAccepted
      <3> QED
        BY <1>1, <3>2, SubmitHolds
    <2>2. u # t => u \in Held(m) /\ handle'[u] = handle[u]
      <3>1. u # t => u \in Held(m)
        BY <1>1, SubmitHolds
      <3>2. u # t => handle'[u] = handle[u]
        BY <1>1, SubmitCases DEF TypeOK
      <3> QED
        BY <3>1, <3>2
    <2>3. CASE u = t
      BY <2>1, <2>3 DEF TypeOK
    <2>4. CASE u # t
      BY <2>2, <2>4 DEF HeldAccepted
    <2> QED
      BY <2>3, <2>4
  <1>2. ASSUME NEW n \in Node, NEW t \in Task, Finish(n, t)
        PROVE  handle'[u] \notin {"new", "refused"}
    <2>1. handle[u] \notin {"new", "refused"}
      BY <1>2, FinishHolds DEF HeldAccepted
    <2>2. handle'[t] \in Settled /\ \A v \in Task \ {t} : handle'[v] = handle[v]
      BY <1>2, FinishHolds
    <2> QED
      BY <2>1, <2>2 DEF Settled, Result
  <1>3. ASSUME \A t \in Task : ~Submit(t) /\ ~Withdraw(t), \A n \in Node, t \in Task : ~Finish(n, t)
        PROVE  handle'[u] \notin {"new", "refused"}
    BY <1>3, OtherHolds DEF HeldAccepted
  <1>4. ASSUME NEW t \in Task, Withdraw(t)
        PROVE  handle'[u] \notin {"new", "refused"}
    <2>1. handle[u] \notin {"new", "refused"}
      BY <1>4, WithdrawHolds DEF HeldAccepted
    <2> QED
      BY <1>4, <2>1, WithdrawHolds
  <1> QED
    BY <1>1, <1>2, <1>3, <1>4

LEMMA LedgerNext == TypeOK /\ HeldAccepted /\ [Next]_vars => [Ledger!Next]_handle
  <1> SUFFICES ASSUME TypeOK, HeldAccepted, [Next]_vars PROVE [Ledger!Next]_handle
    OBVIOUS
  <1>1. ASSUME NEW t \in Task, Submit(t) PROVE Ledger!Accept(t) \/ Ledger!Refuse(t)
    BY <1>1, SubmitCases DEF Ledger!Accept, Ledger!Refuse
  <1>2. ASSUME NEW n \in Node, NEW t \in Task, Finish(n, t)
        PROVE  Ledger!Settle(t) \/ handle' = handle
    <2>1. handle[t] \notin Settled => handle[t] = "pending"
      BY <1>2, FinishHolds DEF HeldAccepted, TypeOK, Handle
    <2> QED
      BY <1>2, <2>1, FinishHolds DEF Ledger!Settle, Result
  <1>3. ASSUME \A t \in Task : ~Submit(t) /\ ~Withdraw(t), \A n \in Node, t \in Task : ~Finish(n, t)
        PROVE  handle' = handle
    BY <1>3, OtherHolds
  <1>4. ASSUME NEW t \in Task, Withdraw(t) PROVE Ledger!Withdraw(t)
    BY <1>4, WithdrawHolds DEF Ledger!Withdraw
  <1> QED
    BY <1>1, <1>2, <1>3, <1>4 DEF Ledger!Next

\* The pool implements the ledger: for each submission there is one
\* acceptance or refusal and, if it was accepted, at most one result, which
\* no later step of the pool takes back; and none once its awaiter was
\* cancelled, although a worker may still finish it.
THEOREM LedgerIsKept == Spec => KeepsLedger
  <1>1. Init => Ledger!Init
    BY DEF Init, Ledger!Init
  <1> QED
    BY <1>1, TypeInit, TypeNext, AcceptedInit, AcceptedNext, LedgerNext, PTL
    DEF Spec, KeepsLedger, Ledger!Spec

----------------------------------------------------------------------------
(***************************************************************************)
(* No task is doubled                                                      *)
(***************************************************************************)

\* Appending what a sequence does not hold repeats nothing.
LEMMA InjectiveAppend ==
  ASSUME NEW S, NEW s \in Seq(S), NEW x \in S, x \notin ToSet(s), IsInjective(s)
  PROVE  IsInjective(Append(s, x))
  <1> DEFINE a == Append(s, x)
  <1>1. /\ a \in Seq(S)
        /\ Len(s) \in Nat
        /\ Len(a) = Len(s) + 1
        /\ \A i \in 1..Len(s) : a[i] = s[i]
        /\ a[Len(s) + 1] = x
    BY AppendProperties, LenProperties
  <1>2. DOMAIN a = 1..(Len(s) + 1) /\ DOMAIN s = 1..Len(s)
    BY <1>1, LenProperties
  <1>3. \A i \in 1..Len(s) : s[i] # x
    BY <1>2 DEF ToSet
  <1>4. \A i, j \in 1..Len(s) : s[i] = s[j] => i = j
    BY <1>2 DEF IsInjective
  <1> HIDE DEF a
  <1>5. ASSUME NEW i \in 1..(Len(s) + 1), NEW j \in 1..(Len(s) + 1), a[i] = a[j] PROVE i = j
    <2>1. CASE i = Len(s) + 1 /\ j = Len(s) + 1
      BY <2>1
    <2>2. CASE i # Len(s) + 1 /\ j # Len(s) + 1
      <3>1. i \in 1..Len(s) /\ j \in 1..Len(s)
        BY <1>1, <2>2
      <3> QED
        BY <1>1, <1>4, <1>5, <3>1
    <2>3. CASE i = Len(s) + 1 /\ j # Len(s) + 1
      <3>1. j \in 1..Len(s)
        BY <1>1, <2>3
      <3> QED
        BY <1>1, <1>3, <1>5, <2>3, <3>1
    <2>4. CASE i # Len(s) + 1 /\ j = Len(s) + 1
      <3>1. i \in 1..Len(s)
        BY <1>1, <2>4
      <3> QED
        BY <1>1, <1>3, <1>5, <2>4, <3>1
    <2> QED
      BY <2>1, <2>2, <2>3, <2>4
  <1>6. IsInjective(a)
    BY <1>2, <1>5 DEF IsInjective
  <1> QED
    BY <1>6 DEF a

\* Of a sequence without repetitions, the head is not in the tail.
LEMMA InjectiveTail ==
  ASSUME NEW S, NEW s \in Seq(S), s # <<>>, IsInjective(s)
  PROVE  IsInjective(Tail(s)) /\ Head(s) \notin ToSet(Tail(s))
  <1> DEFINE r == Tail(s)
  <1>1. Head(s) = s[1] /\ Len(s) \in Nat \ {0}
    BY EmptySeq, LenProperties, HeadTailProperties
  <1>2. /\ Len(r) = Len(s) - 1
        /\ \A i \in 1..Len(r) : r[i] = s[i + 1]
        /\ r \in Seq(S)
    BY HeadTailProperties
  <1>3. DOMAIN s = 1..Len(s) /\ DOMAIN r = 1..(Len(s) - 1)
    BY <1>2, LenProperties
  <1> HIDE DEF r
  <1>4. \A i, j \in 1..Len(s) : s[i] = s[j] => i = j
    BY <1>3 DEF IsInjective
  <1>5. IsInjective(r)
    <2>1. ASSUME NEW i \in 1..(Len(s) - 1), NEW j \in 1..(Len(s) - 1), r[i] = r[j] PROVE i = j
      <3>1. i + 1 \in 1..Len(s) /\ j + 1 \in 1..Len(s)
        BY <1>1
      <3>2. s[i + 1] = s[j + 1]
        BY <1>2, <2>1
      <3>3. i + 1 = j + 1
        BY <1>4, <3>1, <3>2
      <3> QED
        BY <3>3
    <2> QED
      BY <1>3, <2>1 DEF IsInjective
  <1>6. \A i \in 1..(Len(s) - 1) : r[i] # s[1]
    <2>1. ASSUME NEW i \in 1..(Len(s) - 1), r[i] = s[1] PROVE FALSE
      <3>1. i + 1 \in 1..Len(s) /\ 1 \in 1..Len(s)
        BY <1>1
      <3>2. s[i + 1] = s[1]
        BY <1>2, <2>1
      <3>3. i + 1 = 1
        BY <1>4, <3>1, <3>2
      <3> QED
        BY <3>3
    <2> QED
      BY <2>1
  <1>7. s[1] \notin ToSet(r)
    BY <1>3, <1>6 DEF ToSet
  <1> QED
    BY <1>1, <1>5, <1>7 DEF r

\* What OneHolder says of the nodes one by one.
Single(n) == IsInjective(queue[n]) /\ Queued(n) \cap running[n] = {}

LEMMA HolderSubmit ==
  ASSUME TypeOK, HeldAccepted, OneHolder, NEW t \in Task, Submit(t)
  PROVE  OneHolder'
  <1>0. \A n \in Node : t \notin Held(n)
    <2>1. handle[t] = "new"
      BY SubmitCases
    <2> QED
      BY <2>1 DEF HeldAccepted
  <1>1. \A n \in Node : Single(n)'
    <2>0. running' = running
      BY SubmitCases
    <2>1. CASE queue' = queue
      BY <2>0, <2>1 DEF OneHolder, Single, Queued
    <2>2. ASSUME NEW n \in registered, queue' = [queue EXCEPT ![n] = Append(@, t)],
                 NEW m \in Node
          PROVE  Single(m)'
      <3>1. CASE m # n
        BY <2>0, <2>2, <3>1 DEF OneHolder, Single, Queued, TypeOK
      <3>2. CASE m = n
        <4>1. queue[n] \in Seq(Task) /\ queue'[n] = Append(queue[n], t)
          BY <2>2, <3>2 DEF TypeOK
        <4>2. t \notin ToSet(queue[n]) /\ t \notin running[n]
          BY <1>0, <3>2 DEF Held, Queued
        <4>3. IsInjective(queue[n]) /\ ToSet(queue[n]) \cap running[n] = {}
          BY <3>2 DEF OneHolder, Queued
        <4>4. IsInjective(Append(queue[n], t))
          BY <4>1, <4>2, <4>3, InjectiveAppend
        <4>5. ToSet(Append(queue[n], t)) = ToSet(queue[n]) \cup {t}
          BY <4>1, SetOfAppend
        <4>6. ToSet(queue'[n]) \cap running'[n] = {}
          BY <2>0, <4>1, <4>2, <4>3, <4>5
        <4> QED
          BY <3>2, <4>1, <4>4, <4>6 DEF Single, Queued
      <3> QED
        BY <3>1, <3>2
    <2> QED
      BY <2>1, <2>2, SubmitCases
  <1>2. \A n, m \in Node : n # m => Held(n) \cap Held(m) = {}
    BY DEF OneHolder, Held
  <1>3. \A n, m \in Node : n # m => Held(n)' \cap Held(m)' = {}
    BY <1>0, <1>2, SubmitHolds
  <1> QED
    BY <1>1, <1>3 DEF OneHolder, Single, Held

LEMMA HolderTake ==
  ASSUME TypeOK, OneHolder, NEW n \in Node, Take(n)
  PROVE  OneHolder'
  <1>1. /\ queue[n] \in Seq(Task) /\ queue[n] # <<>>
        /\ queue'[n] = Tail(queue[n])
        /\ running'[n] = running[n] \cup {Head(queue[n])}
        /\ \A m \in Node \ {n} : queue'[m] = queue[m] /\ running'[m] = running[m]
    BY DEF Take, TypeOK
  <1>2. IsInjective(queue[n]) /\ ToSet(queue[n]) \cap running[n] = {}
    BY DEF OneHolder, Queued
  <1>3. IsInjective(Tail(queue[n])) /\ Head(queue[n]) \notin ToSet(Tail(queue[n]))
    BY <1>1, <1>2, InjectiveTail
  <1>4. ToSet(queue[n]) = {Head(queue[n])} \cup ToSet(Tail(queue[n]))
    BY <1>1, SetOfTail
  <1>5. Single(n)'
    <2>1. ToSet(queue'[n]) \cap running'[n] = {}
      BY <1>1, <1>2, <1>3, <1>4
    <2> QED
      BY <1>1, <1>3, <2>1 DEF Single, Queued
  <1>6. \A m \in Node \ {n} : Single(m)'
    BY <1>1 DEF OneHolder, Single, Queued
  <1>7. \A k, m \in Node : k # m => Held(k)' \cap Held(m)' = {}
    <2>1. \A k, m \in Node : k # m => Held(k) \cap Held(m) = {}
      BY DEF OneHolder, Held
    <2> QED
      BY <2>1, TakeHolds
  <1> QED
    BY <1>5, <1>6, <1>7 DEF OneHolder, Single, Held

\* A step that leaves the queues alone and starts no task keeps OneHolder.
LEMMA HolderShrinks ==
  ASSUME TypeOK, OneHolder, queue' = queue, \A m \in Node : running'[m] \subseteq running[m]
  PROVE  OneHolder'
  BY DEF OneHolder, Queued

LEMMA HolderNext == TypeOK /\ HeldAccepted /\ OneHolder /\ [Next]_vars => OneHolder'
  <1> SUFFICES ASSUME TypeOK, HeldAccepted, OneHolder, [Next]_vars PROVE OneHolder'
    OBVIOUS
  <1>1. ASSUME NEW t \in Task, Submit(t) PROVE OneHolder'
    BY <1>1, HolderSubmit
  <1>2. ASSUME NEW n \in Node, Take(n) PROVE OneHolder'
    BY <1>2, HolderTake
  <1>3. ASSUME NEW n \in Node, NEW t \in Task, Finish(n, t) PROVE OneHolder'
    <2>1. queue' = queue /\ \A m \in Node : running'[m] \subseteq running[m]
      BY <1>3 DEF Finish, TypeOK
    <2> QED
      BY <2>1, HolderShrinks
  <1>4. ASSUME NEW n \in Node, NEW by \in Stopper, CancelWorkers(n, by) PROVE OneHolder'
    <2>1. queue' = queue /\ \A m \in Node : running'[m] \subseteq running[m]
      BY <1>4 DEF CancelWorkers, TypeOK
    <2> QED
      BY <2>1, HolderShrinks
  <1>5. ASSUME \/ \E n \in Node : SetHealth(n) \/ AddNode(n) \/ RemoveNode(n)
               \/ \E n \in Node, by \in Stopper : JoinReturns(n, by)
               \/ StartExecutor \/ StopExecutor \/ StopReturns
               \/ UNCHANGED vars
        PROVE  OneHolder'
    <2>1. queue' = queue /\ running' = running
      BY <1>5 DEF SetHealth, AddNode, RemoveNode, JoinReturns, StartExecutor,
                  StopExecutor, StopReturns, vars, nodeVars, loadVars
    <2> QED
      BY <2>1, HolderShrinks
  <1>6. ASSUME NEW t \in Task, Withdraw(t) PROVE OneHolder'
    BY <1>6, WithdrawHolds, HolderShrinks
  <1> QED
    BY <1>1, <1>2, <1>3, <1>4, <1>5, <1>6 DEF Next

\* An accepted task is lost nowhere and is nowhere twice: it is in exactly
\* one queue or _execute until it has its result or a stop() cancels it,
\* whatever nodes come, go, start twice, stop or fill up.
THEOREM AlwaysInOnePlace == Spec => []InOnePlace
  <1>1. Init => NoTaskLost /\ OneHolder
    <2> SUFFICES ASSUME Init PROVE NoTaskLost /\ OneHolder
      OBVIOUS
    <2>1. \A n \in Node : queue[n] = <<>> /\ running[n] = {}
      BY DEF Init
    <2>2. ToSet(<<>>) = {} /\ IsInjective(<<>>)
      BY DEF ToSet, IsInjective
    <2> QED
      BY <2>1, <2>2 DEF Init, NoTaskLost, OneHolder, Queued
  <1>2. NoTaskLost /\ OneHolder => InOnePlace
    BY DEF InOnePlace
  <1> QED
    BY <1>1, <1>2, TypeInit, TypeNext, LostNext, AcceptedInit, AcceptedNext, HolderNext, PTL
    DEF Spec

----------------------------------------------------------------------------
(***************************************************************************)
(* A refusal is justified                                                  *)
(***************************************************************************)

\* submit() refuses t after the nodes of B were found full: either no other
\* healthy node is left, or B used up the retries and one more was full.
LEMMA RefusalIsJustified ==
  ASSUME TypeOK,
         NEW B \in SUBSET HealthyNodes, Passed(B),
         \/ Cardinality(B) = MaxRetries /\ \E n \in LeastLoaded(HealthyNodes \ B) : Full(n)
         \/ HealthyNodes \ B = {}
  PROVE  \/ \A n \in HealthyNodes : Full(n)
         \/ Cardinality({n \in HealthyNodes : Full(n)}) > MaxRetries
  <1>1. \A n \in B : Full(n)
    BY DEF Passed
  <1>2. CASE HealthyNodes \ B = {}
    BY <1>1, <1>2
  <1>3. ASSUME Cardinality(B) = MaxRetries,
               NEW n \in LeastLoaded(HealthyNodes \ B), Full(n)
        PROVE  Cardinality({m \in HealthyNodes : Full(m)}) > MaxRetries
    <2> DEFINE F == {m \in HealthyNodes : Full(m)}
    <2>1. n \in HealthyNodes /\ n \notin B
      BY <1>3 DEF LeastLoaded
    <2>2. B \cup {n} \subseteq F
      BY <1>1, <1>3, <2>1
    <2>3. F \subseteq Node
      BY DEF TypeOK, HealthyNodes
    <2>4. IsFiniteSet(F)
      BY <2>3, PoolAssumption, FS_Subset
    <2>5. IsFiniteSet(B)
      BY <2>2, <2>4, FS_Subset
    <2>6. Cardinality(B \cup {n}) = MaxRetries + 1
      BY <1>3, <2>1, <2>5, FS_AddElement
    <2>7. Cardinality(B \cup {n}) <= Cardinality(F)
      BY <2>2, <2>4, FS_Subset
    <2>8. Cardinality(F) \in Nat
      BY <2>4, FS_CardinalityType
    <2> QED
      BY <2>6, <2>7, <2>8, PoolAssumption
  <1> QED
    BY <1>2, <1>3

\* One step refuses justly, or refuses nothing.
LEMMA RefusalNext ==
  ASSUME TypeOK, [Next]_vars,
         NEW t \in Task, handle[t] = "new", handle'[t] = "refused"
  PROVE  \/ \A n \in HealthyNodes : Full(n)
         \/ Cardinality({n \in HealthyNodes : Full(n)}) > MaxRetries
  <1> DEFINE Just == \/ \A n \in HealthyNodes : Full(n)
                     \/ Cardinality({n \in HealthyNodes : Full(n)}) > MaxRetries
  <1>1. ASSUME NEW s \in Task, Submit(s) PROVE Just
    <2>1. PICK B \in SUBSET HealthyNodes :
            /\ Passed(B)
            /\ \/ handle' = [handle EXCEPT ![s] = "pending"]
               \/ /\ \/ /\ Cardinality(B) = MaxRetries
                        /\ \E n \in LeastLoaded(HealthyNodes \ B) : Full(n)
                     \/ HealthyNodes \ B = {}
                  /\ handle' = [handle EXCEPT ![s] = "refused"]
      BY <1>1 DEF Submit
    <2>2. handle' # [handle EXCEPT ![s] = "pending"]
      BY DEF TypeOK
    <2> QED
      BY <2>1, <2>2, RefusalIsJustified
  <1>2. ASSUME NEW n \in Node, NEW s \in Task, Finish(n, s) PROVE FALSE
    BY <1>2 DEF Finish, TypeOK, Result
  <1>3. ASSUME \/ \E n \in Node :
                     \/ SetHealth(n) \/ Take(n) \/ AddNode(n) \/ RemoveNode(n)
                     \/ \E by \in Stopper : JoinReturns(n, by) \/ CancelWorkers(n, by)
               \/ StartExecutor \/ StopExecutor \/ StopReturns
               \/ UNCHANGED vars
        PROVE  FALSE
    <2>1. handle' = handle
      BY <1>3 DEF SetHealth, Take, AddNode, RemoveNode, JoinReturns, CancelWorkers,
                  StartExecutor, StopExecutor, StopReturns, vars, nodeVars, loadVars
    <2> QED
      BY <2>1
  <1>4. ASSUME NEW s \in Task, Withdraw(s) PROVE FALSE
    BY <1>4, WithdrawHolds
  <1> QED
    BY <1>1, <1>2, <1>3, <1>4 DEF Next

\* submit() never gives up on a pool that has room within its retries: each
\* refusal met every healthy node full, or more full ones than it may try.
THEOREM RefusalsAreJustified == Spec => JustifiedRefusal
  <1>1. TypeOK /\ [Next]_vars =>
          [ \A t \in Task : handle[t] = "new" /\ handle'[t] = "refused" =>
              \/ \A n \in HealthyNodes : Full(n)
              \/ Cardinality({n \in HealthyNodes : Full(n)}) > MaxRetries ]_vars
    BY RefusalNext
  <1> QED
    BY <1>1, TypeInit, TypeNext, PTL DEF Spec, JustifiedRefusal

----------------------------------------------------------------------------
(***************************************************************************)
(* Remote nodes                                                            *)
(***************************************************************************)

\* RemoteTypeOK without the bounds on the two counts, which the rest gives.
Ranges ==
  /\ phase \in [Submission -> Phase]
  /\ target \in [Submission -> Worker \cup {None}]
  /\ view \in [Submission -> HealthAnswer \cup {None}]
  /\ pool \subseteq Worker
  /\ circuit \in [Worker -> Circuit \cup {None}]
  /\ healthy \in SUBSET Worker
  /\ active \in [Worker -> Int]
  /\ pong \in [Worker -> {"none", "ok", "bad"}]
  /\ breaker \in [Worker -> Breaker]
  /\ request \in [Submission -> Request]
  /\ upsets \in 0..MaxUpsets
  /\ leaked \in [Worker -> Nat]

\* Past the choice of a node, a task has one.
Routed ==
  \A t \in Submission : phase[t] \in {"checking", "checked", "spawned", "posted", "done", "failed"}
                          => target[t] \in Worker

\* A task is not at a worker before it was posted.
Unposted ==
  \A t \in Submission : phase[t] \in {"new", "checking", "checked", "spawned", "raised"}
                          => request[t] = "none"

\* The slots that a HALF_OPEN breaker lost were lost to rejected bodies, each
\* to one of its own.
Invalid(w) == {t \in Submission : target[t] = w /\ request[t] = "invalid"}
Leaks == \A w \in Worker : leaked[w] <= Cardinality(Invalid(w))

LoadCounted == \A w \in Worker : active[w] = Cardinality(InFlight(w))

\* What Accounted says of a worker with the breaker b.
Slots(b, executing, leaks) ==
  b.state = "half_open" => b.probes <= Cardinality(executing) + b.successes + leaks

SlotsCounted == \A w \in Worker : Slots(breaker[w], Executing(w), leaked[w])

IInv ==
  Ranges /\ Routed /\ Unposted /\ Leaks /\ LoadCounted /\ SlotsCounted /\ DoneMeansDone

----------------------------------------------------------------------------
(***************************************************************************)
(* Lemmas on the breaker's methods                                         *)
(***************************************************************************)

LEMMA NewBreakerOK == NewBreaker \in Breaker /\ NewBreaker.state = "closed"
  BY BreakerConfigAssumption DEF NewBreaker, Breaker, CircuitState

\* can_execute() leaves the breaker as it is, or half open with every slot
\* free.
LEMMA RecoverCases ==
  ASSUME NEW b \in Breaker
  PROVE  /\ AfterCanExecute(b) \in Breaker
         /\ \/ AfterCanExecute(b) = b
            \/ b.state # "half_open" /\ AfterCanExecute(b).probes = 0
  <1> DEFINE r == [b EXCEPT !.state = "half_open", !.probes = 0, !.successes = 0]
  <1>1. 0 \in 0..HalfOpenMaxCalls /\ 0 \in 0..SuccessThreshold
    BY BreakerConfigAssumption
  <1>2. r \in Breaker /\ r.probes = 0
    BY <1>1 DEF Breaker, CircuitState
  <1>3. AfterCanExecute(b) = IF RecoveryDue(b) THEN r ELSE b
    BY DEF AfterCanExecute, MaybeRecover
  <1>4. RecoveryDue(b) => b.state # "half_open"
    BY DEF RecoveryDue
  <1> HIDE DEF r
  <1> QED
    BY <1>2, <1>3, <1>4

\* A pre_call() that does not raise takes a slot of a half-open breaker.
LEMMA PreCallCases ==
  ASSUME NEW b \in Breaker, CanExecute(b)
  PROVE  /\ PreCall(b) \in Breaker
         /\ PreCall(b).state = "half_open" =>
              \/ /\ b.state = "half_open"
                 /\ PreCall(b).probes = b.probes + 1
                 /\ PreCall(b).successes = b.successes
              \/ b.state # "half_open" /\ PreCall(b).probes = 1
  <1> DEFINE r == MaybeRecover(b)
  <1>1. r \in Breaker /\ (r = b \/ (b.state # "half_open" /\ r.probes = 0))
    BY RecoverCases DEF AfterCanExecute
  <1>2. r.state = "closed" \/ (r.state = "half_open" /\ r.probes < HalfOpenMaxCalls)
    BY DEF CanExecute, Permits
  <1>3. PreCall(b) = IF r.state = "half_open" THEN [r EXCEPT !.probes = @ + 1] ELSE r
    BY DEF PreCall
  <1> HIDE DEF r
  <1>4. CASE r.state = "half_open"
    <2>1. PreCall(b) = [r EXCEPT !.probes = r.probes + 1] /\ r.probes + 1 \in 0..HalfOpenMaxCalls
      BY <1>1, <1>2, <1>3, <1>4, BreakerConfigAssumption DEF Breaker
    <2> QED
      BY <1>1, <2>1 DEF Breaker
  <1>5. CASE r.state # "half_open"
    BY <1>1, <1>3, <1>5
  <1> QED
    BY <1>4, <1>5

\* A success of a half-open breaker that stays so is counted.
LEMMA SuccessCases ==
  ASSUME NEW b \in Breaker
  PROVE  /\ RecordSuccess(b) \in Breaker
         /\ RecordSuccess(b).state = "half_open" =>
              /\ b.state = "half_open"
              /\ RecordSuccess(b).probes = b.probes
              /\ RecordSuccess(b).successes = b.successes + 1
  <1>1. CASE b.state = "half_open" /\ b.successes + 1 >= SuccessThreshold
    BY <1>1, NewBreakerOK DEF RecordSuccess, TripClosed
  <1>2. CASE b.state = "half_open" /\ ~(b.successes + 1 >= SuccessThreshold)
    <2>1. RecordSuccess(b) = [b EXCEPT !.successes = b.successes + 1]
      BY <1>2 DEF RecordSuccess, Breaker
    <2>2. b.successes + 1 \in 0..SuccessThreshold
      BY <1>2, BreakerConfigAssumption DEF Breaker
    <2> QED
      BY <1>2, <2>1, <2>2 DEF Breaker
  <1>3. CASE b.state # "half_open"
    BY <1>3, BreakerConfigAssumption DEF RecordSuccess, Breaker
  <1> QED
    BY <1>1, <1>2, <1>3

\* A failure leaves no breaker half open.
LEMMA FailureCases ==
  ASSUME NEW b \in Breaker
  PROVE  RecordFailure(b) \in Breaker /\ RecordFailure(b).state # "half_open"
  <1>1. CASE b.state = "half_open" \/ b.failures + 1 >= FailureThreshold
    <2>1. 0 \in 0..RecoveryTimeout /\ 0 \in 0..SuccessThreshold
          /\ FailureThreshold \in 0..FailureThreshold
      BY BreakerConfigAssumption
    <2>2. TripOpen(b) \in Breaker /\ TripOpen(b).state = "open"
      BY <2>1 DEF TripOpen, Breaker, CircuitState
    <2> QED
      BY <1>1, <2>2 DEF RecordFailure
  <1>2. CASE ~(b.state = "half_open" \/ b.failures + 1 >= FailureThreshold)
    <2>1. RecordFailure(b) = [b EXCEPT !.failures = b.failures + 1]
      BY <1>2 DEF RecordFailure, Breaker
    <2>2. b.failures + 1 \in 0..FailureThreshold
      BY <1>2, BreakerConfigAssumption DEF Breaker
    <2> QED
      BY <1>2, <2>1, <2>2 DEF Breaker
  <1> QED
    BY <1>1, <1>2

\* Time changes the age alone.
LEMMA AgedCases ==
  ASSUME NEW b \in Breaker
  PROVE  /\ Aged(b) \in Breaker
         /\ Aged(b).state = b.state /\ Aged(b).probes = b.probes
         /\ Aged(b).successes = b.successes
  <1>1. (IF b.age < RecoveryTimeout THEN b.age + 1 ELSE b.age) \in 0..RecoveryTimeout
    BY BreakerConfigAssumption DEF Breaker
  <1> QED
    BY <1>1 DEF Aged, Breaker

----------------------------------------------------------------------------
(***************************************************************************)
(* Lemmas on the counts                                                    *)
(***************************************************************************)

\* Sets of tasks are finite.
LEMMA TasksFinite ==
  ASSUME NEW S \in SUBSET Submission
  PROVE  IsFiniteSet(S) /\ Cardinality(S) \in 0..Cardinality(Submission)
  <1>1. IsFiniteSet(S) /\ Cardinality(S) <= Cardinality(Submission)
    BY DispatchAssumption, FS_Subset
  <1>2. Cardinality(S) \in Nat /\ Cardinality(Submission) \in Nat
    BY <1>1, DispatchAssumption, FS_CardinalityType
  <1> QED
    BY <1>1, <1>2

LEMMA TasksGrow ==
  ASSUME NEW S \in SUBSET Submission, NEW t \in Submission, t \notin S
  PROVE  Cardinality(S \cup {t}) = Cardinality(S) + 1
  BY TasksFinite, FS_AddElement

LEMMA TasksShrink ==
  ASSUME NEW S \in SUBSET Submission, NEW t \in S
  PROVE  Cardinality(S \ {t}) = Cardinality(S) - 1
  BY TasksFinite, FS_RemoveElement

\* A breaker's step disturbs the accounts of its own worker alone.
LEMMA BreakerStepKeeps ==
  ASSUME Ranges, SlotsCounted, NEW w \in Worker, NEW b \in Breaker, NEW more \in {0, 1},
         BreakerStep(w, b, more),
         \A v \in Worker \ {w} : Executing(v)' = Executing(v),
         Slots(b, Executing(w)', leaked'[w])
  PROVE  /\ breaker' \in [Worker -> Breaker]
         /\ leaked' \in [Worker -> Nat]
         /\ \A v \in Worker : leaked'[v] <= IF v = w THEN leaked[v] + more ELSE leaked[v]
         /\ SlotsCounted'
  <1>1. breaker' = [breaker EXCEPT ![w] = b]
        /\ leaked' = [leaked EXCEPT ![w] =
             IF b.state # "half_open" THEN 0
             ELSE IF breaker[w].state = "half_open" THEN leaked[w] + more ELSE more]
    BY DEF BreakerStep, Ranges
  <1>2. breaker' \in [Worker -> Breaker] /\ leaked' \in [Worker -> Nat]
    BY <1>1 DEF Ranges
  <1>3. \A v \in Worker : leaked'[v] <= IF v = w THEN leaked[v] + more ELSE leaked[v]
    BY <1>1 DEF Ranges
  <1>4. \A v \in Worker \ {w} : breaker'[v] = breaker[v] /\ leaked'[v] = leaked[v]
    BY <1>1 DEF Ranges
  <1>5. breaker'[w] = b
    BY <1>1 DEF Ranges
  <1>6. SlotsCounted'
    <2> SUFFICES ASSUME NEW v \in Worker
                 PROVE  Slots(breaker'[v], Executing(v)', leaked'[v])
      BY DEF SlotsCounted
    <2>1. CASE v = w
      BY <1>5, <2>1
    <2>2. CASE v # w
      BY <1>4, <2>2 DEF SlotsCounted
    <2> QED
      BY <2>1, <2>2
  <1> QED
    BY <1>2, <1>3, <1>6

\* So does can_execute(), whoever asks.
LEMMA RecoverKeeps ==
  ASSUME IInv, NEW w \in Worker, BreakerStep(w, AfterCanExecute(breaker[w]), 0),
         \A v \in Worker : Executing(v)' = Executing(v) /\ Invalid(v)' = Invalid(v)
  PROVE  /\ breaker' \in [Worker -> Breaker]
         /\ leaked' \in [Worker -> Nat]
         /\ Leaks'
         /\ SlotsCounted'
  <1> DEFINE b == AfterCanExecute(breaker[w])
  <1>1. Ranges /\ SlotsCounted /\ breaker[w] \in Breaker
    BY DEF IInv, Ranges
  <1>2. b \in Breaker /\ (b = breaker[w] \/ (breaker[w].state # "half_open" /\ b.probes = 0))
    BY <1>1, RecoverCases
  <1>3. \A v \in Worker : Executing(v)' = Executing(v) /\ Invalid(v)' = Invalid(v)
    OBVIOUS
  <1>4. Cardinality(Executing(w)) \in Nat /\ leaked[w] \in Nat /\ b.successes \in Nat
    BY <1>1, <1>2, TasksFinite DEF Executing, Breaker, Ranges
  <1>5. leaked' = [leaked EXCEPT ![w] =
             IF b.state # "half_open" THEN 0
             ELSE IF breaker[w].state = "half_open" THEN leaked[w] + 0 ELSE 0]
    BY DEF BreakerStep
  <1> HIDE DEF b
  <1>6. leaked'[w] \in Nat /\ (b.state = "half_open" /\ breaker[w].state = "half_open"
                                  => leaked'[w] = leaked[w])
    BY <1>1, <1>4, <1>5 DEF Ranges
  <1>7. Slots(b, Executing(w), leaked'[w])
    <2>1. CASE b = breaker[w]
      BY <1>1, <1>6, <2>1 DEF Slots, SlotsCounted
    <2>2. CASE b.probes = 0
      BY <1>4, <1>6, <2>2 DEF Slots
    <2> QED
      BY <1>2, <2>1, <2>2
  <1>8. Slots(b, Executing(w)', leaked'[w])
    BY <1>3, <1>7
  <1>9. /\ breaker' \in [Worker -> Breaker]
        /\ leaked' \in [Worker -> Nat]
        /\ \A v \in Worker : leaked'[v] <= IF v = w THEN leaked[v] + 0 ELSE leaked[v]
        /\ SlotsCounted'
    <2>1. BreakerStep(w, b, 0)
      BY DEF b
    <2> QED
      BY <1>1, <1>2, <1>3, <1>8, <2>1, BreakerStepKeeps
  <1>10. Leaks'
    <2> SUFFICES ASSUME NEW v \in Worker PROVE leaked'[v] <= Cardinality(Invalid(v)')
      BY DEF Leaks
    <2>1. leaked'[v] \in Nat /\ leaked[v] \in Nat /\ Cardinality(Invalid(v)) \in Nat
      BY <1>1, <1>9, TasksFinite DEF Ranges, Invalid
    <2>2. leaked[v] <= Cardinality(Invalid(v)) /\ leaked'[v] <= leaked[v]
      BY <1>9, <2>1 DEF IInv, Leaks
    <2>3. Invalid(v)' = Invalid(v)
      BY <1>3
    <2> QED
      BY <2>1, <2>2, <2>3
  <1> QED
    BY <1>9, <1>10

\* As long as no task moves at a worker and no breaker changes, neither do
\* the accounts of the workers.
LEMMA WorkersUntouched ==
  ASSUME IInv, UNCHANGED <<workerVars, request>>,
         \A t \in Submission : target'[t] = target[t] \/ request[t] = "none"
  PROVE  Leaks' /\ SlotsCounted'
  <1>1. \A w \in Worker : Executing(w)' = Executing(w) /\ Invalid(w)' = Invalid(w)
    BY DEF Executing, Invalid
  <1> QED
    BY <1>1 DEF IInv, Leaks, SlotsCounted, workerVars

\* As long as no task leaves for a worker or is settled, neither do the loads.
LEMMA LoadUntouched ==
  ASSUME IInv, UNCHANGED active,
         \A t \in Submission : /\ phase'[t] = "posted" <=> phase[t] = "posted"
                               /\ target'[t] = target[t] \/ phase[t] # "posted"
  PROVE  LoadCounted'
  <1>1. \A w \in Worker : InFlight(w)' = InFlight(w)
    BY DEF InFlight
  <1> QED
    BY <1>1 DEF IInv, LoadCounted

----------------------------------------------------------------------------
(***************************************************************************)
(* Every action keeps the invariant                                        *)
(***************************************************************************)

LEMMA InitInv == RemoteInit => IInv
  <1> SUFFICES ASSUME RemoteInit PROVE IInv
    OBVIOUS
  <1> USE DispatchAssumption DEF RemoteInit
  <1>1. Ranges
    BY NewBreakerOK DEF Ranges, Phase, Request
  <1>2. Routed /\ Unposted /\ DoneMeansDone
    BY DEF Routed, Unposted, DoneMeansDone
  <1>3. \A w \in Worker : InFlight(w) = {} /\ Invalid(w) = {}
    BY DEF InFlight, Invalid
  <1>4. Leaks /\ LoadCounted
    BY <1>3, FS_EmptySet DEF Leaks, LoadCounted
  <1>5. SlotsCounted
    BY NewBreakerOK DEF SlotsCounted, Slots
  <1> QED
    BY <1>1, <1>2, <1>4, <1>5 DEF IInv

LEMMA RouteKeeps ==
  ASSUME IInv, NEW t \in Submission, Route(t)
  PROVE  IInv'
  <1>1. phase[t] = "new" /\ request[t] = "none"
        /\ UNCHANGED <<view, pool, circuit, healthy, active, pong, breaker, leaked, request, upsets>>
    BY DEF Route, workerVars, IInv, Unposted
  <1>2. \/ \E w \in Worker : /\ target' = [target EXCEPT ![t] = w]
                             /\ phase' = [phase EXCEPT ![t] = "checking"]
        \/ UNCHANGED target /\ phase' = [phase EXCEPT ![t] = "raised"]
    BY DEF Route, Candidates, IInv, Ranges
  <1>3. Ranges'
    BY <1>1, <1>2 DEF IInv, Ranges, Phase
  <1>4. Routed' /\ Unposted' /\ DoneMeansDone'
    BY <1>1, <1>2 DEF IInv, Ranges, Routed, Unposted, DoneMeansDone
  <1>5. Leaks' /\ SlotsCounted'
    BY <1>1, <1>2, WorkersUntouched DEF IInv, Ranges, workerVars
  <1>6. LoadCounted'
    BY <1>1, <1>2, LoadUntouched DEF IInv, Ranges
  <1> QED
    BY <1>3, <1>4, <1>5, <1>6 DEF IInv

\* GET /health ends, with an answer or without one.
LEMMA HealthKeeps ==
  ASSUME IInv, NEW t \in Submission, HealthAnswered(t) \/ HealthLost(t)
  PROVE  IInv'
  <1>1. /\ phase[t] = "checking" /\ phase' = [phase EXCEPT ![t] = "checked"]
        /\ UNCHANGED <<target, pool, circuit, healthy, active, pong, request, upsets>>
    BY DEF HealthAnswered, HealthLost
  <1>2. target[t] \in Worker /\ breaker[target[t]] \in Breaker
    BY <1>1 DEF IInv, Routed, Ranges
  <1>3. view' \in [Submission -> HealthAnswer \cup {None}]
    <2>1. Health(breaker[target[t]]) \in HealthAnswer
      BY <1>2 DEF Health, Snapshot, HealthAnswer, Circuit, Breaker
    <2> QED
      BY <2>1 DEF HealthAnswered, HealthLost, IInv, Ranges
  <1>4. breaker' \in [Worker -> Breaker] /\ leaked' \in [Worker -> Nat] /\ Leaks' /\ SlotsCounted'
    <2>1. CASE HealthAnswered(t)
      <3>1. BreakerStep(target[t], AfterCanExecute(breaker[target[t]]), 0)
        BY <2>1 DEF HealthAnswered
      <3>2. \A v \in Worker : Executing(v)' = Executing(v) /\ Invalid(v)' = Invalid(v)
        BY <1>1 DEF Executing, Invalid
      <3> QED
        BY <1>2, <3>1, <3>2, RecoverKeeps
    <2>2. CASE HealthLost(t)
      <3>1. UNCHANGED <<workerVars, request, target>>
        BY <1>1, <2>2 DEF HealthLost
      <3>2. Leaks' /\ SlotsCounted'
        BY <3>1, WorkersUntouched
      <3> QED
        BY <3>1, <3>2 DEF workerVars, IInv, Ranges
    <2> QED
      BY <2>1, <2>2
  <1>5. Ranges'
    BY <1>1, <1>3, <1>4 DEF IInv, Ranges, Phase
  <1>6. Routed' /\ Unposted' /\ DoneMeansDone'
    BY <1>1 DEF IInv, Ranges, Routed, Unposted, DoneMeansDone
  <1>7. LoadCounted'
    BY <1>1, LoadUntouched DEF IInv, Ranges
  <1> QED
    BY <1>4, <1>5, <1>6, <1>7 DEF IInv

LEMMA DecideKeeps ==
  ASSUME IInv, NEW t \in Submission, Decide(t)
  PROVE  IInv'
  <1> DEFINE c == GetCircuitState(view[t])
  <1>1. /\ phase[t] = "checked"
        /\ circuit' = [circuit EXCEPT ![target[t]] = c]
        /\ view' = [view EXCEPT ![t] = None]
        /\ phase' = [phase EXCEPT ![t] = IF Rejects(c) THEN "raised" ELSE "spawned"]
        /\ UNCHANGED <<target, pool, healthy, active, pong, workerVars, request, upsets>>
    BY DEF Decide
  <1>2. c \in Circuit \cup {None}
    BY DEF GetCircuitState, IInv, Ranges, HealthAnswer
  <1> HIDE DEF c
  <1>3. Ranges'
    BY <1>1, <1>2 DEF IInv, Ranges, Phase, workerVars
  <1>4. Routed' /\ Unposted' /\ DoneMeansDone'
    BY <1>1 DEF IInv, Ranges, Routed, Unposted, DoneMeansDone
  <1>5. Leaks' /\ SlotsCounted'
    BY <1>1, WorkersUntouched
  <1>6. LoadCounted'
    BY <1>1, LoadUntouched DEF IInv, Ranges
  <1> QED
    BY <1>3, <1>4, <1>5, <1>6 DEF IInv

\* The task that leaves for its node is one more in flight to it.
LEMMA DispatchKeeps ==
  ASSUME IInv, NEW t \in Submission, Dispatch(t)
  PROVE  IInv'
  <1> DEFINE n == target[t]
  <1>1. /\ phase[t] = "spawned"
        /\ active' = [active EXCEPT ![n] = @ + 1]
        /\ phase' = [phase EXCEPT ![t] = "posted"]
        /\ request' = [request EXCEPT ![t] = "sent"]
        /\ UNCHANGED <<target, view, pool, circuit, healthy, pong, breaker, leaked, upsets>>
    BY DEF Dispatch, workerVars
  <1>2. n \in Worker /\ request[t] = "none"
    BY <1>1 DEF IInv, Routed, Unposted
  <1>3. Ranges'
    BY <1>1, <1>2 DEF IInv, Ranges, Phase, Request
  <1>4. Routed' /\ Unposted' /\ DoneMeansDone'
    BY <1>1, <1>2 DEF IInv, Ranges, Routed, Unposted, DoneMeansDone
  <1>5. Leaks' /\ SlotsCounted'
    <2>1. \A w \in Worker : Executing(w)' = Executing(w) /\ Invalid(w)' = Invalid(w)
      BY <1>1, <1>2 DEF Executing, Invalid, IInv, Ranges
    <2> QED
      BY <1>1, <2>1 DEF IInv, Leaks, SlotsCounted
  <1>6. LoadCounted'
    <2> SUFFICES ASSUME NEW w \in Worker PROVE active'[w] = Cardinality(InFlight(w)')
      BY DEF LoadCounted
    <2>1. active[w] = Cardinality(InFlight(w)) /\ active \in [Worker -> Int]
      BY DEF IInv, LoadCounted, Ranges
    <2>2. CASE w = n
      <3>1. InFlight(w)' = InFlight(w) \cup {t} /\ t \notin InFlight(w)
        BY <1>1, <2>2 DEF InFlight, IInv, Ranges
      <3>2. Cardinality(InFlight(w)') = Cardinality(InFlight(w)) + 1
        BY <3>1, TasksGrow DEF InFlight
      <3> QED
        BY <1>1, <2>1, <2>2, <3>2
    <2>3. CASE w # n
      <3>1. InFlight(w)' = InFlight(w)
        BY <1>1, <2>3 DEF InFlight, IInv, Ranges
      <3> QED
        BY <1>1, <2>1, <2>3, <3>1
    <2> QED
      BY <2>2, <2>3
  <1> QED
    BY <1>3, <1>4, <1>5, <1>6 DEF IInv

\* A task that is settled is one fewer.
LEMMA SettleKeeps ==
  ASSUME IInv, NEW t \in Submission, NEW outcome \in {"done", "failed"}, phase[t] = "posted",
         outcome = "done" => request[t] = "done",
         Settle(t, outcome)
  PROVE  IInv'
  <1> DEFINE n == target[t]
  <1>1. /\ active' = [active EXCEPT ![n] = @ - 1]
        /\ phase' = [phase EXCEPT ![t] = outcome]
        /\ UNCHANGED <<target, view, pool, circuit, healthy, pong, breaker, leaked, request, upsets>>
    BY DEF Settle, workerVars
  <1>2. n \in Worker
    BY DEF IInv, Routed
  <1>3. Ranges'
    BY <1>1, <1>2 DEF IInv, Ranges, Phase
  <1>4. Routed' /\ Unposted' /\ DoneMeansDone'
    BY <1>1, <1>2 DEF IInv, Ranges, Routed, Unposted, DoneMeansDone
  <1>5. Leaks' /\ SlotsCounted'
    BY <1>1, WorkersUntouched DEF workerVars
  <1>6. LoadCounted'
    <2> SUFFICES ASSUME NEW w \in Worker PROVE active'[w] = Cardinality(InFlight(w)')
      BY DEF LoadCounted
    <2>1. active[w] = Cardinality(InFlight(w)) /\ active \in [Worker -> Int]
      BY DEF IInv, LoadCounted, Ranges
    <2>2. CASE w = n
      <3>1. InFlight(w)' = InFlight(w) \ {t} /\ t \in InFlight(w)
        BY <1>1, <2>2 DEF InFlight, IInv, Ranges
      <3>2. Cardinality(InFlight(w)') = Cardinality(InFlight(w)) - 1
        BY <3>1, TasksShrink DEF InFlight
      <3> QED
        BY <1>1, <2>1, <2>2, <3>2
    <2>3. CASE w # n
      <3>1. InFlight(w)' = InFlight(w)
        BY <1>1, <2>3 DEF InFlight, IInv, Ranges
      <3> QED
        BY <1>1, <2>1, <2>3, <3>1
    <2> QED
      BY <2>2, <2>3
  <1> QED
    BY <1>3, <1>4, <1>5, <1>6 DEF IInv

\* Where a request is, its task has a node.
LEMMA RequestedRouted ==
  ASSUME IInv, NEW t \in Submission, request[t] # "none"
  PROVE  target[t] \in Worker /\ breaker[target[t]] \in Breaker
  <1>1. phase[t] \in {"posted", "done", "failed"}
    BY DEF IInv, Unposted, Ranges, Phase
  <1> QED
    BY <1>1 DEF IInv, Routed, Ranges

\* What happens to a request at its worker leaves the rest of the invariant to
\* the accounts of that worker.
LEMMA AtWorkerKeeps ==
  ASSUME IInv, NEW t \in Submission, request[t] \in {"sent", "running"},
         NEW r \in Request, request' = [request EXCEPT ![t] = r],
         UNCHANGED <<coordinatorVars, pong, upsets>>,
         breaker' \in [Worker -> Breaker], leaked' \in [Worker -> Nat],
         Leaks', SlotsCounted'
  PROVE  IInv'
  <1>1. UNCHANGED <<phase, target, view, pool, circuit, healthy, active, pong, upsets>>
    BY DEF coordinatorVars
  <1>2. phase[t] \in {"posted", "failed"}
    BY DEF IInv, Unposted, DoneMeansDone, Ranges, Phase
  <1>3. Ranges'
    BY <1>1 DEF IInv, Ranges
  <1>4. Routed' /\ Unposted' /\ DoneMeansDone'
    BY <1>1, <1>2 DEF IInv, Ranges, Routed, Unposted, DoneMeansDone
  <1>5. LoadCounted'
    BY <1>1, LoadUntouched
  <1> QED
    BY <1>3, <1>4, <1>5 DEF IInv

\* pre_call() lets a request in and takes a slot for it: the request runs, or
\* its body is rejected and the slot is lost.
LEMMA AdmittedKeeps ==
  ASSUME IInv, NEW t \in Submission, NEW w \in Worker, w = target[t],
         request[t] = "sent", CanExecute(breaker[w]), NEW invalid \in BOOLEAN,
         BreakerStep(w, PreCall(breaker[w]), IF invalid THEN 1 ELSE 0),
         request' = [request EXCEPT ![t] = IF invalid THEN "invalid" ELSE "running"],
         UNCHANGED <<coordinatorVars, pong, upsets>>
  PROVE  IInv'
  <1> DEFINE old == breaker[w]
             b == PreCall(old)
             more == IF invalid THEN 1 ELSE 0
  <1>1. old \in Breaker
    BY DEF IInv, Ranges
  <1>2. /\ b \in Breaker
        /\ b.state = "half_open" =>
             \/ old.state = "half_open" /\ b.probes = old.probes + 1 /\ b.successes = old.successes
             \/ old.state # "half_open" /\ b.probes = 1
    BY <1>1, PreCallCases
  <1>3. UNCHANGED target /\ request \in [Submission -> Request] /\ target \in [Submission -> Worker \cup {None}]
        /\ leaked \in [Worker -> Nat] /\ breaker \in [Worker -> Breaker]
    BY DEF coordinatorVars, IInv, Ranges
  <1>4. /\ \A v \in Worker \ {w} : Executing(v)' = Executing(v) /\ Invalid(v)' = Invalid(v)
        /\ Executing(w)' = IF invalid THEN Executing(w) ELSE Executing(w) \cup {t}
        /\ Invalid(w)' = IF invalid THEN Invalid(w) \cup {t} ELSE Invalid(w)
        /\ t \notin Executing(w) /\ t \notin Invalid(w)
    BY <1>3 DEF Executing, Invalid
  <1>5. /\ Cardinality(Executing(w)') = Cardinality(Executing(w)) + (1 - more)
        /\ Cardinality(Invalid(w)') = Cardinality(Invalid(w)) + more
        /\ Cardinality(Executing(w)) \in Nat /\ Cardinality(Invalid(w)) \in Nat
    <2>1. Cardinality(Executing(w)) \in Nat /\ Cardinality(Invalid(w)) \in Nat
      BY TasksFinite DEF Executing, Invalid
    <2>2. CASE invalid
      <3>1. Executing(w)' = Executing(w) /\ Invalid(w)' = Invalid(w) \cup {t} /\ t \notin Invalid(w)
        BY <1>4, <2>2
      <3>2. Cardinality(Invalid(w)') = Cardinality(Invalid(w)) + 1
        BY <3>1, TasksGrow DEF Invalid
      <3>3. more = 1
        BY <2>2
      <3> QED
        BY <2>1, <3>1, <3>2, <3>3
    <2>3. CASE ~invalid
      <3>1. Executing(w)' = Executing(w) \cup {t} /\ Invalid(w)' = Invalid(w) /\ t \notin Executing(w)
        BY <1>4, <2>3
      <3>2. Cardinality(Executing(w)') = Cardinality(Executing(w)) + 1
        BY <3>1, TasksGrow DEF Executing
      <3>3. more = 0
        BY <2>3
      <3> QED
        BY <2>1, <3>1, <3>2, <3>3
    <2> QED
      BY <2>2, <2>3
  <1>6. BreakerStep(w, b, more) /\ more \in {0, 1}
    OBVIOUS
  <1>7. leaked' = [leaked EXCEPT ![w] =
           IF b.state # "half_open" THEN 0
           ELSE IF old.state = "half_open" THEN leaked[w] + more ELSE more]
    BY <1>6 DEF BreakerStep
  <1>8. Slots(old, Executing(w), leaked[w]) /\ old.successes \in Nat /\ old.probes \in Nat
        /\ b.successes \in Nat /\ leaked[w] \in Nat
    BY <1>1, <1>2, <1>3 DEF IInv, SlotsCounted, Breaker
  <1>9. leaked'[w] = IF b.state # "half_open" THEN 0
                     ELSE IF old.state = "half_open" THEN leaked[w] + more ELSE more
    BY <1>1, <1>3, <1>7
  <1> HIDE DEF b, old, more
  <1>10. Slots(b, Executing(w)', leaked'[w])
    <2>1. CASE b.state # "half_open"
      BY <2>1 DEF Slots
    <2>2. CASE b.state = "half_open" /\ old.state = "half_open"
      BY <1>2, <1>5, <1>6, <1>8, <1>9, <2>2 DEF Slots
    <2>3. CASE b.state = "half_open" /\ old.state # "half_open"
      BY <1>2, <1>5, <1>6, <1>8, <1>9, <2>3 DEF Slots
    <2> QED
      BY <2>1, <2>2, <2>3
  <1>11. /\ breaker' \in [Worker -> Breaker]
         /\ leaked' \in [Worker -> Nat]
         /\ \A v \in Worker : leaked'[v] <= IF v = w THEN leaked[v] + more ELSE leaked[v]
         /\ SlotsCounted'
    <2>1. Ranges /\ SlotsCounted
      BY DEF IInv
    <2> QED
      BY <1>1, <1>2, <1>4, <1>6, <1>10, <2>1, BreakerStepKeeps
  <1>12. Leaks'
    <2> SUFFICES ASSUME NEW v \in Worker PROVE leaked'[v] <= Cardinality(Invalid(v)')
      BY DEF Leaks
    <2>1. leaked[v] <= Cardinality(Invalid(v)) /\ leaked[v] \in Nat /\ leaked'[v] \in Nat
      BY <1>3, <1>11 DEF IInv, Leaks
    <2>2. Cardinality(Invalid(v)) \in Nat
      BY TasksFinite DEF Invalid
    <2>3. CASE v = w
      <3>1. leaked'[v] <= leaked[v] + more
        BY <1>11, <2>3
      <3> QED
        BY <1>5, <1>6, <2>1, <2>2, <2>3, <3>1
    <2>4. CASE v # w
      BY <1>4, <1>11, <2>1, <2>2, <2>4
    <2> QED
      BY <2>3, <2>4
  <1>13. (IF invalid THEN "invalid" ELSE "running") \in Request
    BY DEF Request
  <1> QED
    BY <1>11, <1>12, <1>13, AtWorkerKeeps

LEMMA AdmitKeeps ==
  ASSUME IInv, NEW t \in Submission, Admit(t)
  PROVE  IInv'
  <1>1. request[t] = "sent" /\ UNCHANGED <<coordinatorVars, pong, upsets>>
    BY DEF Admit
  <1>2. CASE CanExecute(breaker[target[t]])
    <2>1. /\ BreakerStep(target[t], PreCall(breaker[target[t]]), IF t \in Malformed THEN 1 ELSE 0)
          /\ request' = [request EXCEPT ![t] = IF t \in Malformed THEN "invalid" ELSE "running"]
      BY <1>2 DEF Admit
    <2>2. PICK w \in Worker : w = target[t]
      BY <1>1, RequestedRouted
    <2>3. CASE t \in Malformed
      <3>1. /\ BreakerStep(w, PreCall(breaker[w]), IF TRUE THEN 1 ELSE 0)
            /\ request' = [request EXCEPT ![t] = IF TRUE THEN "invalid" ELSE "running"]
        BY <2>1, <2>2, <2>3
      <3> QED
        BY <1>1, <1>2, <2>2, <3>1, AdmittedKeeps
    <2>4. CASE t \notin Malformed
      <3>1. /\ BreakerStep(w, PreCall(breaker[w]), IF FALSE THEN 1 ELSE 0)
            /\ request' = [request EXCEPT ![t] = IF FALSE THEN "invalid" ELSE "running"]
        BY <2>1, <2>2, <2>4
      <3> QED
        BY <1>1, <1>2, <2>2, <3>1, AdmittedKeeps
    <2> QED
      BY <2>3, <2>4
  <1>3. CASE ~CanExecute(breaker[target[t]])
    <2>1. /\ BreakerStep(target[t], AfterCanExecute(breaker[target[t]]), 0)
          /\ request' = [request EXCEPT ![t] = "refused"]
      BY <1>3 DEF Admit
    <2>2. \A v \in Worker : Executing(v)' = Executing(v) /\ Invalid(v)' = Invalid(v)
      BY <1>1, <2>1 DEF Executing, Invalid, coordinatorVars, IInv, Ranges
    <2>3. target[t] \in Worker
      BY <1>1, RequestedRouted
    <2>4. breaker' \in [Worker -> Breaker] /\ leaked' \in [Worker -> Nat] /\ Leaks' /\ SlotsCounted'
      BY <2>1, <2>2, <2>3, RecoverKeeps
    <2> QED
      BY <1>1, <2>1, <2>4, AtWorkerKeeps DEF Request
  <1> QED
    BY <1>2, <1>3

\* A task that ends gives its place among the running ones to the successes,
\* or no breaker is half open any more.
LEMMA ExecuteKeeps ==
  ASSUME IInv, NEW t \in Submission, Execute(t)
  PROVE  IInv'
  <1>1. request[t] = "running" /\ UNCHANGED <<coordinatorVars, pong, upsets>>
    BY DEF Execute
  <1>2. PICK w \in Worker : w = target[t]
    BY <1>1, RequestedRouted
  <1>3. PICK r \in {"done", "failed"}, b \in {RecordSuccess(breaker[w]), RecordFailure(breaker[w])} :
          /\ request' = [request EXCEPT ![t] = r]
          /\ BreakerStep(w, b, 0)
    BY <1>2 DEF Execute
  <1>4. breaker[w] \in Breaker /\ Ranges /\ SlotsCounted
    BY DEF IInv, Ranges
  <1>5. /\ b \in Breaker
        /\ b.state = "half_open" =>
             /\ breaker[w].state = "half_open"
             /\ b.probes = breaker[w].probes
             /\ b.successes = breaker[w].successes + 1
    BY <1>4, SuccessCases, FailureCases
  <1>6. UNCHANGED target /\ request \in [Submission -> Request]
    BY <1>1 DEF coordinatorVars, IInv, Ranges
  <1>7. /\ \A v \in Worker : Invalid(v)' = Invalid(v)
        /\ \A v \in Worker \ {w} : Executing(v)' = Executing(v)
        /\ Executing(w)' = Executing(w) \ {t} /\ t \in Executing(w)
    BY <1>1, <1>2, <1>3, <1>6 DEF Executing, Invalid
  <1>8. /\ Cardinality(Executing(w)') = Cardinality(Executing(w)) - 1
        /\ Cardinality(Executing(w)) \in Nat
    BY <1>7, TasksShrink, TasksFinite DEF Executing
  <1>9. leaked'[w] \in Nat /\ (b.state = "half_open" => leaked'[w] = leaked[w]) /\ leaked[w] \in Nat
    <2>1. leaked' = [leaked EXCEPT ![w] =
             IF b.state # "half_open" THEN 0
             ELSE IF breaker[w].state = "half_open" THEN leaked[w] + 0 ELSE 0]
      BY <1>3 DEF BreakerStep
    <2> QED
      BY <1>4, <1>5, <2>1 DEF Ranges
  <1>10. Slots(b, Executing(w)', leaked'[w])
    <2>1. Slots(breaker[w], Executing(w), leaked[w]) /\ breaker[w].successes \in Nat
          /\ breaker[w].probes \in Nat
      BY <1>4 DEF SlotsCounted, Breaker
    <2> QED
      BY <1>5, <1>8, <1>9, <2>1 DEF Slots
  <1>11. /\ breaker' \in [Worker -> Breaker]
         /\ leaked' \in [Worker -> Nat]
         /\ \A v \in Worker : leaked'[v] <= IF v = w THEN leaked[v] + 0 ELSE leaked[v]
         /\ SlotsCounted'
    BY <1>3, <1>4, <1>5, <1>7, <1>10, BreakerStepKeeps
  <1>12. Leaks'
    <2> SUFFICES ASSUME NEW v \in Worker PROVE leaked'[v] <= Cardinality(Invalid(v)')
      BY DEF Leaks
    <2>1. leaked[v] <= Cardinality(Invalid(v)) /\ leaked[v] \in Nat /\ leaked'[v] \in Nat
          /\ leaked'[v] <= leaked[v]
      BY <1>4, <1>11 DEF IInv, Leaks, Ranges
    <2>2. Cardinality(Invalid(v)) \in Nat
      BY TasksFinite DEF Invalid
    <2> QED
      BY <1>7, <2>1, <2>2
  <1> QED
    BY <1>1, <1>3, <1>11, <1>12, AtWorkerKeeps DEF Request

LEMMA EndKeeps ==
  ASSUME IInv, NEW t \in Submission, Reply(t) \/ PostLost(t)
  PROVE  IInv'
  <1>1. phase[t] = "posted"
    BY DEF Reply, PostLost
  <1>2. PICK outcome \in {"done", "failed"} :
          Settle(t, outcome) /\ (outcome = "done" => request[t] = "done")
    BY DEF Reply, PostLost
  <1> QED
    BY <1>1, <1>2, SettleKeeps

\* The pool and the coordinator's opinion of its nodes are in no account.
LEMMA NodesKeep ==
  ASSUME IInv, NEW w \in Worker, RemoveRemoteNode(w) \/ AddRemoteNode(w) \/ Pong(w)
  PROVE  IInv'
  <1>1. UNCHANGED <<phase, target, view, circuit, active, workerVars, request>>
    BY DEF RemoveRemoteNode, AddRemoteNode, Pong
  <1>2. pool' \subseteq Worker /\ healthy' \in SUBSET Worker
        /\ pong' \in [Worker -> {"none", "ok", "bad"}]
    BY DEF RemoveRemoteNode, AddRemoteNode, Pong, IInv, Ranges
  <1>3. upsets' \in 0..MaxUpsets
    BY DispatchAssumption DEF RemoveRemoteNode, AddRemoteNode, Pong, IInv, Ranges
  <1>4. Ranges'
    BY <1>1, <1>2, <1>3 DEF IInv, Ranges, workerVars
  <1>5. Routed' /\ Unposted' /\ DoneMeansDone'
    BY <1>1 DEF IInv, Routed, Unposted, DoneMeansDone
  <1>6. Leaks' /\ SlotsCounted' /\ LoadCounted'
    BY <1>1, WorkersUntouched, LoadUntouched
  <1> QED
    BY <1>4, <1>5, <1>6 DEF IInv

LEMMA PingKeeps ==
  ASSUME IInv, NEW w \in Worker, Ping(w)
  PROVE  IInv'
  <1>1. UNCHANGED <<phase, target, view, pool, circuit, healthy, active, request>>
    BY DEF Ping, coordinatorVars
  <1>2. pong' \in [Worker -> {"none", "ok", "bad"}] /\ upsets' \in 0..MaxUpsets
    BY DispatchAssumption DEF Ping, IInv, Ranges
  <1>3. breaker' \in [Worker -> Breaker] /\ leaked' \in [Worker -> Nat] /\ Leaks' /\ SlotsCounted'
    <2>1. CASE BreakerStep(w, AfterCanExecute(breaker[w]), 0)
      <3>1. \A v \in Worker : Executing(v)' = Executing(v) /\ Invalid(v)' = Invalid(v)
        BY <1>1 DEF Executing, Invalid
      <3> QED
        BY <2>1, <3>1, RecoverKeeps
    <2>2. CASE UNCHANGED workerVars
      <3>1. Leaks' /\ SlotsCounted'
        BY <1>1, <2>2, WorkersUntouched
      <3> QED
        BY <2>2, <3>1 DEF workerVars, IInv, Ranges
    <2> QED
      BY <2>1, <2>2 DEF Ping
  <1>4. Ranges'
    BY <1>1, <1>2, <1>3 DEF IInv, Ranges
  <1>5. Routed' /\ Unposted' /\ DoneMeansDone'
    BY <1>1 DEF IInv, Routed, Unposted, DoneMeansDone
  <1>6. LoadCounted'
    BY <1>1, LoadUntouched
  <1> QED
    BY <1>3, <1>4, <1>5, <1>6 DEF IInv

\* A worker that restarts has a closed breaker, and nothing runs on it; what it
\* had rejected it had answered.
LEMMA RestartKeeps ==
  ASSUME IInv, NEW w \in Worker, Restart(w)
  PROVE  IInv'
  <1>1. /\ BreakerStep(w, NewBreaker, 0)
        /\ request' = [t \in Submission |->
             IF target[t] = w /\ request[t] \in {"sent", "running"} THEN "gone" ELSE request[t]]
        /\ UNCHANGED <<phase, target, view, pool, circuit, healthy, active, pong>>
    BY DEF Restart, coordinatorVars
  <1>2. upsets' \in 0..MaxUpsets
    BY DispatchAssumption DEF Restart, IInv, Ranges
  <1>3. /\ \A v \in Worker : Invalid(v)' = Invalid(v)
        /\ \A v \in Worker \ {w} : Executing(v)' = Executing(v)
    BY <1>1 DEF Executing, Invalid
  <1>4. Ranges /\ SlotsCounted
    BY DEF IInv
  <1>5. Slots(NewBreaker, Executing(w)', leaked'[w])
    BY NewBreakerOK DEF Slots
  <1>6. /\ breaker' \in [Worker -> Breaker]
        /\ leaked' \in [Worker -> Nat]
        /\ \A v \in Worker : leaked'[v] <= IF v = w THEN leaked[v] + 0 ELSE leaked[v]
        /\ SlotsCounted'
    BY <1>1, <1>3, <1>4, <1>5, NewBreakerOK, BreakerStepKeeps
  <1>7. Leaks'
    <2> SUFFICES ASSUME NEW v \in Worker PROVE leaked'[v] <= Cardinality(Invalid(v)')
      BY DEF Leaks
    <2>1. leaked[v] <= Cardinality(Invalid(v)) /\ leaked[v] \in Nat /\ leaked'[v] \in Nat
          /\ leaked'[v] <= leaked[v]
      BY <1>4, <1>6 DEF IInv, Leaks, Ranges
    <2>2. Cardinality(Invalid(v)) \in Nat
      BY TasksFinite DEF Invalid
    <2> QED
      BY <1>3, <2>1, <2>2
  <1>8. Ranges'
    BY <1>1, <1>2, <1>6 DEF IInv, Ranges, Request
  <1>9. Routed' /\ Unposted' /\ DoneMeansDone'
    BY <1>1 DEF IInv, Routed, Unposted, DoneMeansDone
  <1>10. LoadCounted'
    BY <1>1, LoadUntouched
  <1> QED
    BY <1>6, <1>7, <1>8, <1>9, <1>10 DEF IInv

LEMMA TickKeeps ==
  ASSUME IInv, Tick
  PROVE  IInv'
  <1>1. /\ breaker' = [w \in Worker |-> Aged(breaker[w])]
        /\ UNCHANGED <<phase, target, view, pool, circuit, healthy, active, pong, leaked, request,
                       upsets>>
    BY DEF Tick, coordinatorVars
  <1>2. \A w \in Worker : /\ breaker'[w] \in Breaker
                          /\ breaker'[w].state = breaker[w].state
                          /\ breaker'[w].probes = breaker[w].probes
                          /\ breaker'[w].successes = breaker[w].successes
    BY <1>1, AgedCases DEF IInv, Ranges
  <1>3. Ranges'
    BY <1>1, <1>2 DEF IInv, Ranges
  <1>4. Routed' /\ Unposted' /\ DoneMeansDone'
    BY <1>1 DEF IInv, Routed, Unposted, DoneMeansDone
  <1>5. \A w \in Worker : Executing(w)' = Executing(w) /\ Invalid(w)' = Invalid(w)
    BY <1>1 DEF Executing, Invalid
  <1>6. Leaks'
    BY <1>1, <1>5 DEF IInv, Leaks
  <1>7. SlotsCounted'
    BY <1>1, <1>2, <1>5 DEF IInv, SlotsCounted, Slots
  <1>8. LoadCounted'
    BY <1>1, LoadUntouched
  <1> QED
    BY <1>3, <1>4, <1>6, <1>7, <1>8 DEF IInv

LEMMA StutterKeeps ==
  ASSUME IInv, UNCHANGED remoteVars
  PROVE  IInv'
  <1>1. UNCHANGED <<phase, target, view, pool, circuit, healthy, active, pong, breaker, leaked,
                    request, upsets>>
    BY DEF remoteVars, coordinatorVars, workerVars
  <1>2. Ranges' /\ Routed' /\ Unposted' /\ DoneMeansDone'
    BY <1>1 DEF IInv, Ranges, Routed, Unposted, DoneMeansDone
  <1>3. Leaks' /\ SlotsCounted' /\ LoadCounted'
    BY <1>1, WorkersUntouched, LoadUntouched DEF workerVars
  <1> QED
    BY <1>2, <1>3 DEF IInv

LEMMA NextInv ==
  ASSUME IInv, [RemoteNext]_remoteVars
  PROVE  IInv'
  <1>1. CASE RemoteNext
    BY <1>1, RouteKeeps, HealthKeeps, DecideKeeps, DispatchKeeps, AdmitKeeps, ExecuteKeeps,
       EndKeeps, NodesKeep, PingKeeps, RestartKeeps, TickKeeps DEF RemoteNext
  <1>2. CASE UNCHANGED remoteVars
    BY <1>2, StutterKeeps
  <1> QED
    BY <1>1, <1>2

THEOREM Invariant == RemoteSpec => []IInv
  <1>1. RemoteInit => IInv
    BY InitInv
  <1>2. IInv /\ [RemoteNext]_remoteVars => IInv'
    BY NextInv
  <1> QED
    BY <1>1, <1>2, PTL DEF RemoteSpec

----------------------------------------------------------------------------
(***************************************************************************)
(* The properties                                                          *)
(***************************************************************************)

\* Every variable has its type; the two counts stay within the number of
\* tasks since they count tasks.
THEOREM RemoteTypeCorrect == RemoteSpec => []RemoteTypeOK
  <1>1. IInv => RemoteTypeOK
    <2> SUFFICES ASSUME IInv PROVE RemoteTypeOK
      OBVIOUS
    <2>1. \A w \in Worker : active[w] \in 0..Cardinality(Submission) /\ leaked[w] \in 0..Cardinality(Submission)
      <3> SUFFICES ASSUME NEW w \in Worker
                   PROVE  active[w] \in 0..Cardinality(Submission) /\ leaked[w] \in 0..Cardinality(Submission)
        OBVIOUS
      <3>1. active[w] = Cardinality(InFlight(w)) /\ leaked[w] <= Cardinality(Invalid(w))
            /\ leaked[w] \in Nat
        BY DEF IInv, LoadCounted, Leaks, Ranges
      <3>2. /\ Cardinality(InFlight(w)) \in 0..Cardinality(Submission)
            /\ Cardinality(Invalid(w)) \in 0..Cardinality(Submission)
            /\ Cardinality(Submission) \in Nat
        BY TasksFinite, DispatchAssumption, FS_CardinalityType DEF InFlight, Invalid
      <3> QED
        BY <3>1, <3>2
    <2> QED
      BY <2>1 DEF IInv, Ranges, RemoteTypeOK
  <1> QED
    BY <1>1, Invariant, PTL

\* The load of a node that _least_loaded_all compares is the number of calls in
\* flight to it, however the calls end; and a slot that WorkerHttpApp's
\* HALF_OPEN breaker has given out belongs to a running task, a success, or a
\* request whose body was rejected after pre_call().
THEOREM AlwaysAccounted == RemoteSpec => []Accounted
  <1>1. IInv => Accounted
    BY DEF IInv, LoadCounted, SlotsCounted, Slots, Accounted
  <1> QED
    BY <1>1, Invariant, PTL

\* A TaskHandle of a remote task says DONE only if the worker answered that it
\* was done.
THEOREM DoneAlwaysMeansDone == RemoteSpec => []DoneMeansDone
  <1>1. IInv => DoneMeansDone
    BY DEF IInv
  <1> QED
    BY <1>1, Invariant, PTL

=============================================================================
