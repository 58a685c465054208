# A TLA+ verification of replicate-mcp-agents

replicate-mcp-agents runs AI models of the Replicate service as *agents*: one at
a time through an executor with retries, a circuit breaker, a rate limiter and a
cache; as workflows over a graph with checkpoints; and spread over local or
remote worker nodes. These modules model the parts of it that decide something
under concurrency or failure. Every definition follows the Python source
(`src/src/replicate_mcp/`, named without that prefix below), and the `map` of
`PROJECT.json` gives its lines.

## 1. Inventory

| Component | State | Operations | Interacts with | What is hard | What makes it correct |
|---|---|---|---|---|---|
| Circuit breaker, retry (`resilience.py`) | state, failure, success and probe counts, time of the trip | `can_execute`, `pre_call`, `record_success`, `record_failure`, `reset`; `with_retry`, `retry_iter` | called by the executor and the worker server | results that come in after the state changed, abandoned calls, sleeps between attempts | trips after exactly the threshold; no call while OPEN; bounded probes; closes on evidence; recovers |
| Local distribution (`distributed.py`) | registry of nodes, a queue and workers per node, handles | `submit`, `enqueue`, worker loop, `add_node`, `remove_node`, `start`, `stop`, health marks | executor on each node | failover, stop against take, double start | no task lost or run twice, one result per handle, refusal only for a reason |
| Remote distribution (`distributed.py`, `worker_server.py`, `worker_circuit_breaker.py`) | the pool of remote nodes; cached circuit, health and load per node; breaker per worker | `submit`, `_dispatch`, `ping`, `add_remote_node`, `remove_remote_node`; `/health`, `/execute` | HTTP between two processes | stale answers, lost calls, restarts | load equals calls in flight; DONE means done; slots of a probe come back |
| Workflows (`agents/composition.py`, `utils/checkpointing.py`) | agents, edges, adjacency lists; per run: level and outputs; the session file | `add_agent`, `add_edge`, `remove_agent`, `validate`, `execute`; `save`, `load`, `delete` | executor, file system | refused edges, crash between level and checkpoint, overlapping runs, resumption | the graph can always be sorted; a resumed run has all it builds on; fresh runs are not mixed with old ones |
| Result cache (`cache.py`) | ordered entries with expiry | `get`, `put`, `invalidate`, `clear`, `evict_expired`, background sweep | executor, a thread | expiry against use, eviction order | hits are fresh, size bounded, policy followed |
| Rate limiter (`ratelimit.py`) | tokens, time of the refill, a lock | `acquire`, `try_acquire` | executor | lock held asleep, lockless takers, cancellation | no window gets more than burst + rate; waiters are served |
| Agent executor (`agents/execution.py`) | a breaker per model, a semaphore | `run`, `resolve_model` | all of the above, discovery, plugins, audit | retry after partial output, a consumer that leaves, agents that share a model | a stream has one ending and shows no failed attempt behind a buffer; slots come back; refusals are the model's own |
| Plugins (`plugins/`) | loaded plugins, session spend | `load`, `load_many`, `unload`, `dispatch_run`, `dispatch_result`, `dispatch_error` | executor | a plugin that fails to load, cap checked before it is charged | what is loaded has been set up; the cap is overrun by no more than is under way |
| Latitude client (`latitude.py`) | open traces, whether tracing is on | hooks of `LatitudePlugin`, `end_trace`; prompt calls | plugins, a hosted service | traces found by agent name, repeated errors, a service that turns tracing off | a trace is sent once, for its own agent's error |
| Agent registry, SDK (`agents/registry.py`, `sdk.py`) | agents; the default registry, open contexts; workflows | `register`, `register_or_update`, `remove`, `clear`; `@agent`, builders, `AgentContext`; `register_workflow`, YAML files | server, discovery, command line | a global that contexts replace and tests reset | what is registered lands where it was meant to |
| Discovery (`discovery.py`) | last result and its time, background task | `refresh`, background loop, `discover_and_register` | registry, Replicate API | failed fetch, pinning, shared names | pinned models stay; the snapshot's age is bounded |
| Routing (`routing.py`, `qos.py`, `utils/router_state.py`) | statistics per model, the snapshot file | `select_model`, `select_model_with_policy`, `record_outcome`; `save_router`, `auto_save`, `load_into_router` | file system | concurrent choices, crashes between saves, failed saves | UCB1 goes round all models; a bounded loss |
| Command line (`cli/main.py`) | the run under way, checkpoints of its own | `workflows run` | SDK, executor, file system | timeouts, errors and kills around a checkpoint, several sessions | a file holds the state of its step |
| Audit log (`utils/audit.py`) | a file of records | `record`, `clear` | executor | failing writes | records tell what happened |
| MCP server (`server.py`, `mcp/`), transforms and evaluator (`agents/transforms.py`, `dsl.py`), validation, observability, logging, secrets | | | | | |

`PROJECT.json` lists the same components with their status, and under `hazards`
each place where the code can go wrong in a way a test would hardly reach.

## 2. Modules

The program is one asyncio event loop per process. A coroutine runs undisturbed
from one `await` to the next, so an action of these modules is a stretch of code
between two awaits; a method that contains none is one operator or one action.
Threads occur only in the cache, where every method holds one lock throughout.

| Module | Models |
|---|---|
| `CircuitBreaker` | the breaker as operators on the record of its fields. Extended by the three modules that have breakers. |
| `ProtectedCalls` | callers of `with_retry` that share a breaker. `Start` and `Refused` are `pre_call()` at the top of the loop; `Succeed`, `Fail`, `Abandon` what comes of the awaited call; `Poll`, `ForceReset` other users of the breaker. |
| `AgentExecutor` | `AgentExecutor.run` as one generator per invocation, over a breaker per model, the semaphore, the cache and the audit log. `Begin` is `resolve_model` and the cache lookup, `Admit` and `Refuse` are `pre_call()` and the semaphore, `Collect` a whole buffered attempt, `Pass` a chunk of an unbuffered one, `Fail` what an exception of `_invoke` does, `Replay`, `Succeed` and `HitEnds` what follows when the consumer asks on, `Leave` a closed or cancelled generator. |
| `TaskLedger` | the abstract promise of a distributed executor: accept or refuse once, settle at most once, and not at all once the submitter no longer waits |
| `WorkerPool` | `DistributedExecutor` with local nodes. `Submit` is the whole retry loop of `submit()`, which has no await then. `Take` and `Finish` are the worker loop; `Withdraw` is an awaiter of the handle that is cancelled, which cancels its future while the task runs on; `JoinReturns` and `CancelWorkers` the two halves of `WorkerNode.stop()`. Implements `TaskLedger`. |
| `RemoteDispatch` | coordinator and workers over HTTP. A submission goes through `Route` (choice of node), `HealthAnswered` or `HealthLost`, `Decide` (cache the circuit, raise or spawn), `Dispatch`, `Admit` (the worker's `pre_call` and body check), `Execute`, and `Reply` or `PostLost`. `AddRemoteNode` and `RemoveRemoteNode` change the pool under it. |
| `Dag` | `topological_sort` (Kahn's algorithm, round by round) and `detect_cycle` (depth-first search) on adjacency lists. `Search` is the recursion of `_dfs()`, a function of the path it has gone down and the nodes explored so far. |
| `WorkflowGraph` | an `AgentWorkflow` under construction: agents, edges in order, and the adjacency lists kept beside them |
| `Workflow` | extends it with `execute` and `CheckpointManager`. A node's output is abstracted to the inputs it was computed from. `StartSave` is `save()` up to the temporary file, `Replace` is `os.replace` and the start of the next level, `Die` any way a run ends early. |
| `ResultCache` | the cache, with the dictionary's order |
| `TokenBucket` | the bucket, with the FIFO of its lock |
| `AgentRegistry` | one registry of agents in detail, and which registry is the SDK's default: reset, made on demand, replaced by `AgentContext`s that nest |
| `Discovery` | composes `ModelDiscovery` with `AgentRegistry`. `Seen` is the body of the loop over the API's listing, `Merged` the loop; `CallRefresh` and `BackgroundTurn` are `refresh()` called by a user and by the background task. |
| `Router` | `AdaptiveRouter` with concurrent callers, and `RouterStateManager`. `SelectModel`, `SelectWithPolicy` and `RecordOutcome` are the calls; `SaverWakes` and `Exit` the two places of `auto_save` that save; `Crash` and `Start` the process. Averages are abstracted to whether they pass the policy; UCB1 indices to infinite or not; a Thompson draw to a choice. |
| `PluginHost` | `PluginRegistry` under concurrent calls of the executor, with `CostCapPlugin` and `LatitudePlugin`. `Begin`, `Succeed` and `Fail` are the three dispatch chains at the places where `run` calls them; `LetsBy` is the cost cap's hook in the first of them, with the estimates it cannot judge: those `float()` raises on, NaN, and negative ones; `EndTrace` is the task that sends a trace. `LoadMany`, `Unload` and `UnloadAll` change the registry among them. |
| `StepRunner` | `workflows run` over the registry of workflows, one process per session. A checkpoint's state is abstracted to the steps it came from. `StepEnds`, `StepTimesOut` and `StepRaises` are the ways a step ends, `SaveCheckpoint` the file and the next turn of the loop. |
| `AdmissionProofs` | the theorems about `ProtectedCalls`, `TokenBucket` and `ResultCache` |
| `DistributionProofs` | those about `WorkerPool` and `RemoteDispatch` |
| `SdkProofs` | those about `Discovery` and `StepRunner` |
| `WorkflowProofs`, `AgentExecutorProofs`, `RouterProofs`, `PluginHostProofs` | those about the module each is named for |
| `LoopLemmas` | induction over the turns of a loop, for all of them |
| `MC...` | instances for TLC: functions as values of constants, symmetry where states differ by a permutation only, and in `MCAdmission` and `MCSdk` two components that one run checks |

Some proof modules extend two or three components that do not know of each
other. Names that such components would share carry a prefix for that reason:
`BucketSpec`, `CacheNext`, `RunnerTypeOK`, `RemoteInit`, and so on. A loop over a
list is a recursive function over the number of its turns (`after` in `Dfs`,
`merged` in `Merged`, `kept` in `Without`, `rebuilt` in `Rebuilt`), which TLC
evaluates and TLAPS can reason about.

An operator `X_Y` is `X` with a plausible slip `Y` in it. The specifications
never use these: `PROJECT.json` pairs each with a property that it breaks, which
shows that the property depends on that line of the code.

History variables (marked *history* in the modules) record what the code does
not: who probes in the present HALF_OPEN, how many failures came in a row, when a
value was put, how long an outcome has waited to be saved. No action reads them
to decide anything.

## 3. Runs

| Run | Shows | Bounds |
|---|---|---|
| `ProtectedCalls` | `CountsHold`: probes of one HALF_OPEN are bounded and the failure count is the streak. `QuietPeriod`: nothing starts inside the recovery timeout. `RecoversWithSlotsLeft`: the breaker recovers with a slot lost to an abandoned call, as two are left and two successes needed | 4 callers, threshold 2, 3 slots, 2 successes, timeout 1 tick, 1 abandoned call |
| `ProbeLeak` (violation) | with two slots lost it does not recover, where the runbook says it does (`AutoRecovers`) | 2 callers, 3 slots, 2 successes, 2 abandoned calls |
| `AgentExecutor` | `CleanStream`: one ending per stream, no trace of failed attempts behind a buffer. `RecordsTrue`: audit records and refusals tell what happened to that model. `SlotsReturn`, `StreamsEnd` | 3 runs, 3 agents of 2 models, 1 slot, 1 retry, 1 fragment, threshold 2, 1 departure |
| `WorkerPool` | `InOnePlace`: no task is lost or doubled. `JustifiedRefusal`, `Served` unless a stop takes the workers or nobody waits any longer, and the refinement `KeepsLedger` | 3 tasks, one whose awaiter may give up (`Impatient`), 2 nodes, queue 1, 1 worker per start, 1 retry, 3 management calls |
| `RemoteDispatch` | `Accounted`: load and probe slots stay in step over lost calls and restarts. `DoneMeansDone` | 3 tasks (one malformed), 2 workers, threshold 1, 2 slots, 2 successes, 2 upsets (pings, restarts, changes of the pool) |
| `Workflow` | `BuiltSound`: every graph that can be built is sorted, its lists agree, and depth-first search and Kahn's algorithm agree about every edge that may come next. `ResumeSound`: sound resumption and no mixing in fresh runs. `RunsEnd` | 4 agents, lists of up to 5 out of 7 edges (two of them close cycles, one is a loop); the diamond is run, by 2 clients in 3 calls of `execute()` |
| `Admission` | the bucket: `RateBound` over every window, `Served`; the cache: `HitIsFresh`, `EvictsInOrder` under each policy, and the size in `CacheTypeOK` | 3 clients, rate 2, capacity 3, 1 successful `try_acquire`, window 2; 3 keys, 2 values, capacity 2, TTL 1, three policies |
| `Sdk` | discovery: `PinsHold`: pins survive refreshes. `StaleBounded`: the snapshot's age. `Isolated`: contexts keep registries apart; the command line: `CheckpointsTrue`: a file holds a state of its step, nothing later and nothing twice | 3 models, every listing of them, 2 names, cap 2, TTL 2, interval 2, 2 nested contexts; 2 sessions, 1 workflow of up to 2 steps, 2 YAML files, 3 runs |
| `Router` | `Explored`: while UCB1 chooses, no more outcomes than one of each caller for each model tried, until every candidate has had its turn. `LossBounded`: a crash costs an interval, and one more per failed save. `SnapshotGrows`: saves lose nothing over restarts | 2 models, 2 callers, threshold 3, interval 1, lag 1, 3 outcomes, 1 failed save, 2 starts |
| `Untested` (violation) | `CandidatesTested`, the docstring of `AdaptiveRouter`: that every candidate is tested before Thompson sampling takes over | the same, threshold 2: two callers choose one model at once |
| `PluginHost` | `OvershootBounded`: what calls that the cap could judge overrun it by. `TracesMatch`: no trace sent twice or for another agent. Registry and `setup()` agree in `TypeOK` | 3 calls of 2 agents, 2 at a time, 1 retry, caps of 1, costs up to 2, estimates 0, NaN and unreadable, 2 loads out of 2 lists, one with a plugin twice |
| `CapFailsOpen` (violation) | `CapBlocks`, the docstring of `CostCapPlugin`: that no prompt gets past a session cap that was exceeded | the same, no retry, estimates 0, 1, 2, negative, NaN and unreadable |

Why the bounds are enough. Two actors that interfere, and a third that suffers
from it, exhibit every pairwise race; a threshold of 2 is the least that tells
"in a row" from "in total"; a queue or cache one smaller than the demand makes
the limit bite; a timeout of one tick tells before from after. Three calls of
`execute()` allow one to write, one to overlap it and one to resume from the
mixture, and so do three runs of the command. Two candidates and two callers let
both callers choose the same untried model before either reports. What depends
on larger values is what the proofs are for.

Bounds by name: `MaxAbandons`, `MaxParts`, `MaxLeaves`, `MaxCalls`, `MaxUpsets`,
`MaxBegun`, `MaxEdges`, `Ran`, `MaxTries`, `MaxDepth`, `MaxOutcomes`,
`MaxFaults`, `MaxStarts`, `MaxUnderWay`, `Impatient`, `MaxLoads`, `MaxSteps`, `MaxRuns` and
`Window`. Clocks are cut off where the code no longer distinguishes their
values. In `Workflow` the graph is built before the first run, because no two
runs of different shape share a session file unless a program renames its
workflows. `Served` of the bucket is about waiters once `try_acquire()` has
stopped winning: the lockless caller can starve the one that sleeps with the
lock, and the bound `MaxTries` ends that. The bounds of `PluginHost` let its sum be
reached: estimates of 0 pass while the spend is just at the cap, and two calls
under way then charge the most there is; NaN and an unreadable estimate stand for
every other the cap cannot judge. `RecoversWithSlotsLeft` is bounded by
`MaxAbandons` so that its escape, more abandoned calls than slots to spare, is never
taken in that run: the one call that is abandoned leaves just the slots needed.

Two runs have two components each, which share no variable. What the steps of one
do is then the same whatever the other does between them, so a behaviour of these
runs is one of either, while the other waits in an initial state (`subject`).

Deadlock is checked where the system cannot stop. It is off for `WorkerPool`,
`RemoteDispatch`, `Workflow`, `AgentExecutor`, `Router` and `PluginHost`, which
come to rest when every task has been submitted, every call made, or every start
of the process used up.

## 4. Fairness

Weak fairness of the event loop only: a coroutine that can run does (`Take`,
`Finish`, `Loop`, `Proceed`), and time passes (`Tick`). In `ProtectedCalls`
callers keep calling and a call ends in some way, by its result or by
cancellation, which is what the timeouts of the HTTP client guarantee. `Finish`
and `NodeDone` are fair because `_execute` and the agents' streams end, by the
same timeouts; an agent that hangs for ever holds its worker for ever in the
code too. In `AgentExecutor` (`Advance`) the semaphore is first come first
served, waits end, and a consumer reads on or leaves: every consumer in the
repository is an `async for` loop. Nobody is obliged to submit, stop, cancel,
poll, reset or repair. The other modules have safety properties only and no
fairness: what bounds the age of a snapshot or of an unsaved outcome there is
that the clock does not pass a sleeper that is due (`StaleBounded`,
`LossBounded`), which the constant `Lag` of the router relaxes.

## 5. Proofs

TLAPS checks, for every value of the constants that the named assumptions allow,
the theorems below. The assumptions say no more than the code does: that counts
and periods are natural numbers, thresholds and intervals positive, that there
are finitely many tasks, runs, calls, models and nodes, and that the value for "nothing"
is none of the others. What they exclude and the code would accept are
degenerate settings: thresholds, sizes and rates of zero, negative caps, and a
candidate listed twice.

Every safety property that a passing run checks, invariant or action property,
is also a theorem. None of the invariants is inductive alone. Each proof
module defines the strengthening before it uses it (`IInv` where it has that
name), and has one lemma per action under a lemma for the whole step.

* `AdmissionProofs`, the breaker: `TypeCorrect`, `CountsAlwaysHold` (from
  `ProbesAreBounded` and `StreakIsExact`), `QuietAfterTrip`,
  `ClosesOnlyOnSuccesses`, which no run checks. The strengthening says that the
  probes in flight of the present HALF_OPEN are at most the slots taken
  (`Cardinality(probing) <= breaker.probes`), that a CLOSED breaker's count is the
  streak, and that a HALF_OPEN breaker's success count is the number of successes
  since it began. The token bucket: `BucketTypeCorrect` and `RateIsBounded`. The
  invariant `Reserve` bounds what has been spent, plus what the bucket would hold
  if it were refilled now, by capacity plus rate times time. The cache:
  `CacheTypeCorrect`, `HitsAreFresh`, `EvictionIsInOrder`. `Timely` says that
  an entry not past its time holds what was put last, and that its age and the
  time it has left make up the TTL; `Ordered`, that the dictionary's order has each
  stored key once and is, under every policy, the order of eviction.
* `WorkflowProofs`: `TypeCorrect`, `GraphsAreSound`, `ResumesAreSound`. The search
  answers a call from any path it can have gone down, by induction on the nodes
  left off the path (`SearchRuns`, `SearchFindsRight`): it finds a cycle, or else
  explores the node, where nothing reachable from explored nodes is on a cycle
  (`Explored`). A graph is acyclic if every set of its nodes has one with no
  predecessor in it, which gives each round of Kahn's algorithm a node to visit
  (`AcyclicSorts`), while no round visits a node of a cycle (`CyclesDoNotSort`):
  the two algorithms agree on every graph (`DetectsUnsortable`), not only on the
  edges of the run. `GraphInv` is what the calls that build the graph keep. For
  the runs, `Resumes` adds to `ResumeSound` that a run whose level has been
  executed has the outputs of that level too, and that it is at a level the graph
  has; that a level's nodes need outputs of lower levels only, and that no level
  is empty, is `LevelsFollow` and `DepthIs`.
* `AgentExecutorProofs`: `TypeCorrect`, `SlotsAlwaysReturn`, `StreamsAlwaysClean`,
  `RecordsAlwaysTrue`. What a consumer has together with what is on its way to it
  (`Stream`) is a whole answer to its own key or an error (`Whole`), and just as
  far as its run (`Staged`); so is every cache entry, put there by whichever run
  (`CacheWhole`). `Keyed` ties a run to the model it resolved. For the records,
  which may blame a run for failures of others, a breaker has counted no more
  failures than its model's runs had, and trips on no fewer than the threshold
  (`Tripped`); the failures are a set of pairs of a run and a number, so that a
  step of one run adds one element to it and takes none away.
* `DistributionProofs`, the pool: `TypeCorrect`, `AlwaysInOnePlace`,
  `RefusalsAreJustified` and `LedgerIsKept`, the refinement of `TaskLedger`. The
  place and the ledger need that only accepted tasks are in queues or workers
  (`HeldAccepted`), or a result could go to a refused handle, and a new task could
  be in a queue already. The steps are grouped by what they do to the tasks a node
  holds: `SubmitHolds`, `TakeHolds`, `FinishHolds`, `WithdrawHolds`, `OtherHolds`; that no queue
  repeats a task rests on `InjectiveAppend` and `InjectiveTail`. A refusal after
  `MaxRetries` failovers has one more full node than those it passed, all of them
  different. Remote nodes: `RemoteTypeCorrect`, `AlwaysAccounted`,
  `DoneAlwaysMeansDone`. A node's load is a cardinality (`LoadCounted`), which also
  gives the bound of the count in `RemoteTypeOK`; a slot of a HALF_OPEN breaker
  that no running task and no success accounts for was lost to a request whose
  body was rejected, each to one of its own (`Leaks`), across restarts that begin
  with a new breaker. `Routed` and `Unposted` say which tasks have a node and
  which are at none.
* `RouterProofs`: `TypeCorrect`, `AlwaysExplored`, `TestedAboveBudget`,
  `LossAlwaysBounded`, and the action property `SnapshotAlwaysGrows`. `Exploring` is
  the counting argument: while a candidate is untried, the outcomes recorded and
  the calls under way for models tried before are at most one per caller for each
  model tried (`Room`). `AlwaysExplored` is that, for any threshold. It has every
  candidate tested before the threshold only if the threshold is above one outcome
  of every caller for each model but one (`Budget`), which is `TestedAboveBudget`:
  at the default of 20, up to 20 models called one at a time, or up to 19 callers of
  two models; the code enforces nothing of the kind, and `Untested` shows what
  happens at the budget itself. `Waiting` says that the wait of an
  unsaved outcome is what the failed saves cost and what has passed of the present
  interval; `Remembers` that a process which could read the snapshot knows at
  least as much; `Down` that one which is not running knows nothing.
* `PluginHostProofs`: `TypeCorrect`, `OvershootIsBounded`, `TracesAlwaysMatch`. The
  calls under way that the cap let through pay for the overrun: what is owed and
  what they may still cost is bounded together (`Budget`). It is about calls whose
  estimate is an amount (`through`); those the cap cannot judge are outside it, and
  `CapFailsOpen` is their run. A trace is not posted
  again because a kept trace that was posted has an end (`Posted`).
* `SdkProofs`, discovery: `TypeCorrect`, `PinsAreHeld`, `StalenessIsBounded` and
  `ContextsIsolate`. What a refresh does with a listing is an induction over its
  turns: no turn finds more than the cap (`Seenable`) or touches the entry of
  another pin (`SeenKeepsPin`). `Clocks` adds the ranges of the two clocks; the one
  step that matters is the turn of the background task, which finds the snapshot
  younger than the TTL or renews it. `Scoped` is about the stack of open contexts:
  the home registry can only be saved at its bottom, and an open context's
  anywhere but there. The command line: `RunnerTypeCorrect`, `CheckpointsAreTrue`.
  `SoundAt` says which states a step may start from, of a session and of a file
  alike, so that a run may go on from what another left.

The installed provers cannot use the library's induction theorems, which take an
operator. `LoopLemmas` has the induction they need in another form: a *set* of
numbers that has 0 and, with each number, the next, has them all (`SetInduction`,
from the library's theorem that the numbers are well-founded), hence so has a set
of turns of a loop (`Throughout`), and the function that a loop's definition asks
for exists (`TurnsExist`).

Definitions that were wrong or said less than they should until a proof would
not go through: `LoadMany` let a list name a plugin twice and kept both, where
the second `load()` raises; the run had no such list, and has one now. `TypeOK`
of the plugins did not say that the registry holds a plugin once. A `CASE` of
`LeaveContext` had two arms that could both hold. `ExecutorAssumption` had left
out that the runs are finitely many, without which the failures at a model cannot
be counted, and `DiscoveryAssumption` that the models are, without which a listing
is no list; `DepthAssumption` of the registries was missing.

Only model-checked: liveness (`RecoversWithSlotsLeft`, `Served` of the pool and of
the bucket, `StreamsEnd`, `RunsEnd`), which is out of TLAPS's reach.

No module uses a RECURSIVE operator.

## 6. Where code and documents part

Checked by a run that finds the violation:

* `docs/runbooks/top-10-failures.md:60` promises recovery after
  `recovery_timeout`; abandoned probes can prevent it for ever (`ProbeLeak`).
* `qos.py:274` says that UCB1 systematically tests all candidates before Thompson
  sampling takes over. The switch is a count of outcomes, which callers that
  choose at once can all record on one model: at the default threshold of 20,
  twenty concurrent calls over two models, or 21 models called one at a time
  (`Untested`).
* `plugins/builtin.py:151` says that the cost cap enforces a session limit. Its hook
  raises on an `estimated_cost_usd` that `float()` rejects, and `dispatch_run`
  passes over a hook that raised (`plugins/registry.py:131`); of NaN no comparison
  is true; a negative estimate may offset what was spent. Each such call goes to
  the model with its prompt, at any spend (`CapFailsOpen`).

In the models, as the code has it, and against what is written:

* `distributed.py:516` says OPEN workers are filtered out. An OPEN worker answers
  `/health` with a 503, which `get_circuit_state` reads as no answer
  (`distributed.py:808`), so the worker is sent the task all the same.
* `docs/adr/010-worker-circuit-breakers.md:259` says that a 503 of `/execute`
  makes the coordinator fail over; it makes the task FAILED (`distributed.py:1042`).
* `utils/checkpointing.py:5` promises monotonic versions per session; a run that
  does not resume starts from 1 (`agents/composition.py:325`).
* `discovery.py:17` says that a refresh leaves users' customisations alone, and
  `register_or_update` overwrites them; `discovery.py:87` counts the TTL from the
  last successful refresh, and a failed one starts it too; two models that share a
  safe_name overwrite each other, pinned or not (`Unshared` in `PinsHold`).
* `README.md:278` says that an OPEN breaker means no API calls, but the executor
  asks the breaker before it awaits the semaphore, so calls let in earlier still
  start.
* `utils/audit.py:3` says that every invocation leaves a record, but a cache hit,
  an exhausted retry and a stream that is closed early leave none.
* `from_circuit_breaker` reads the state before `can_execute()` may change it, so
  that one answer can say "open" and `can_execute` true.
* `AgentContext.__exit__` restores what it saved unless that is None
  (`sdk.py:603`): a context entered before the default registry exists stays the
  default after it is left (`unset` in `Isolated`).
* `select_model_with_policy` raises KeyError if some of its candidates are
  registered and others not; with the defaults for FAST and QUALITY a model that
  was never tried does not pass, so that those levels stop exploring (`shut` in
  `Explored`). `qos.py:97` has BALANCED ask for less than 5000 ms, and the code lets
  exactly 5000 pass, which is what a model begins with (`FreshPasses`).
* An unreadable router snapshot is replaced by the next save (`unread` in
  `SnapshotGrows`); the total that ends the exploration is not saved.
* A call that the cost cap refuses is sent to the model with another prompt, and
  is charged; the executor's chunks carry no cost, so without another plugin the
  cap never sees any.
* `LatitudePlugin` puts the trace's id into the payload and looks for it in the
  chunks, where nobody puts it: every success sends a new trace, and the one that
  was opened stays until `on_error` ends it with the error of another call of its
  agent, or `teardown` forgets it.
* `load_many` leaves the plugins loaded before the one that failed, so a second
  try fails at the first of them.
* With `--json` the steps of `workflows run` are given the input, not each
  other's outputs, and a step that timed out is saved like one that ended;
  `--resume-from` does not read the checkpoint directory; a step's `condition` is
  never looked at.
* A YAML file with a name that is no text raises after the entries before it were
  registered (`Broken` in `StepRunner`).

Seen while reading, and outside the models: `distributed.py:22` says the pending
tasks of a node that becomes UNHEALTHY are redistributed, and nothing does that;
`ContentFilter`'s result hook leaves two of the keys that hold text;
`serve --workflows-file` registers workflows in a process that never runs any;
two processes with one router file overwrite each other; the prompt cache of
`LatitudeClient` has no project in its key and survives an update of the prompt;
`retry_iter` yields items of attempts that fail later, where its docstring speaks
of the successful one; `RateLimiter.add` replaces a bucket that others still wait
for; with parallel edges `get_edge` gives the condition of the first for all of
them; agents of one model share cache entries, whose chunks carry the name of the
agent that stored them.

## 7. What is not modelled

Latencies, prices, scores and texts; the statistics counters; garbage collection
of tasks; float rounding in the bucket (times and tokens are integers: a sleep
that rounds down by a fraction costs the code one more turn of the loop). The
components with status `not_modelled`, with the reasons given there: the MCP
server keeps nothing between calls, transforms, evaluator and validators are
functions of their input, and observability decides nothing. Of the command
line only `workflows run` keeps state; of the Latitude client the prompt calls
are requests to a service and a cache with a fixed lifetime. `RateLimiter` is a
dictionary of buckets.

In `AgentExecutor` every run waits once before `pre_call()`, as it does when a
rate limiter is configured; plugins are taken to keep the kind and order of the
chunks they are given. A run without an API token ends with one error before
it reads anything that is modelled (`agents/execution.py:201`), and `make_key` is
taken to give different payloads different keys.

In `WorkerPool` two `stop()` calls that wait for one node's queue at once, of a
node removed, added and removed again, are one; workers that are started between
the two cancellations are then cancelled by a later `RemoveNode` or not at all.
In `RemoteDispatch` an awaiter that
gives up is not modelled, as `WorkerPool` has the same handles; `pre_call()` and
the wait for the request body are one step, and a body that is no JSON (400,
`worker_server.py:176`) counts among the bodies that are rejected, which keep
their slot in the same way.

An `AgentWorkflow` given `nodes` and `edges` in its constructor has empty adjacency
lists (`agents/composition.py:175`): `validate()` sees no cycle in it, and
`execute()` puts all its nodes on one level, where none has its predecessors'
outputs. `WorkflowGraph` is about graphs built by its methods. `Isolated` is
about contexts entered once: entering one `AgentContext` again while it is open
overwrites what it saved (`sdk.py:595`) and leaves itself the default.
`ResultCache` takes `get` to return what was put: it copies the list and shares
the chunks (`cache.py:256`), so a caller that changes a chunk in place changes
the entry.

In `Discovery` a background task whose sleep is over runs before the clock moves
on, so its bound is up to the delay of the event loop; the fetch blocks the loop
in the code, so nothing runs inside it. Every discovery in the model has the same configuration,
and a pinned version is not the empty string, which the code takes for no pin
(`discovery.py:257`). Of the SDK's registries one is kept in detail; what is registered in another matters only in that it is another.

In `Router` the candidates are the same in every call, and the strategies of
`CostAwareRouter` that `AdaptiveRouter` does not use are left out, as is the
posterior of utilities. In `PluginHost` a plugin other than the two with state is
one that may fail to load and may put on chunks a cost between 0 and
`MaxCost`; one that writes negative costs or NaN makes the session's spend any
number at all, and is left out. A cost that `float()` rejects ends the hook with
less charged, which that range covers.

`Submit` takes nodes of equal load in any order where the code takes them in
order of registration, so the model has more behaviours than the code, never
fewer. In `Workflow` a client makes one call after another; concurrency is
between clients.
