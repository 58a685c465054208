----------------------------- MODULE PluginHost -----------------------------
(***************************************************************************)
(* The PluginRegistry (plugins/registry.py) under an executor's            *)
(* concurrent calls, with the two plugins that keep state: CostCapPlugin   *)
(* (plugins/builtin.py), which checks a budget before a call and charges   *)
(* it afterwards, and LatitudePlugin (latitude.py), which opens a trace    *)
(* before a call and sends it to a service from a task of its own.  A      *)
(* third plugin stands for any other: its setup() and its hooks may raise, *)
(* and its result hook may put a cost on the chunks, which the executor    *)
(* never does itself.                                                      *)
(*                                                                         *)
(* An executor with plugins collects a whole attempt before it hands any   *)
(* of it out, so a call is: dispatch_run(), then attempts, each ended by   *)
(* dispatch_result() or dispatch_error(), with awaits only in between.     *)
(***************************************************************************)
EXTENDS Integers, FiniteSets, SequencesExt

CONSTANTS
  Call,          \* the calls of AgentExecutor.run()
  AgentOf,       \* AgentOf[c]: the agent c calls
  MaxUnderWay,   \* bound: calls under way at once
  Retries,       \* max_retries
  Estimate,      \* what payloads may give as estimated_cost_usd
  NaN,           \* the estimate that is not a number
  Unreadable,    \* an estimate that float() raises on
  InvocationCap, \* per_invocation_cap
  SessionCap,    \* session_cap
  MaxCost,       \* what a call costs at most
  Lists,         \* what load_many() may be given, a load() being one of one
  MaxLoads       \* bound: calls of load() and load_many()

CostCap == "cost_cap"
Latitude == "latitude"
Other == "other"
Plugin == {CostCap, Latitude, Other}

ASSUME PluginHostAssumption ==
  /\ IsFiniteSet(Call)
  /\ MaxUnderWay \in Nat /\ Retries \in Nat /\ MaxLoads \in Nat
  /\ \A ps \in Lists : ps \in Seq(Plugin)
  /\ Estimate \subseteq Int \cup {NaN, Unreadable} /\ Estimate # {}
  /\ NaN \notin Int /\ Unreadable \notin Int /\ NaN # Unreadable
  /\ InvocationCap \in Nat /\ SessionCap \in Nat /\ MaxCost \in Nat

VARIABLES
  loaded,   \* _plugins: their names, in the order dispatch goes through them
  ready,    \* history: plugins set up and not torn down since
  phase,    \* phase[c]: "new", "trying" or "over"
  tries,    \* tries[c]: attempts that have failed
  through,  \* history: calls whose prompt the cap judged and did not replace,
            \* or that found no cap
  spend,    \* _session_spend of the cost cap
  owed,     \* history: the part of it charged by calls in through
  tracing,  \* config.enable_tracing
  active,   \* _active_traces: calls whose trace is kept for on_agent_result()
  ended,    \* history: traces on_error() gave an end, each with the call
            \* that raised
  tasks,    \* end_trace() tasks that have not finished
  posts,    \* history: posts[c]: tasks made of the trace in active
  loads     \* calls of load() and load_many(), counted for the bound

registry == <<loaded, ready, loads>>
budget == <<through, spend, owed>>
traces == <<tracing, active, ended, tasks, posts>>
vars == <<registry, phase, tries, budget, traces>>

Loaded(p) == p \in ToSet(loaded)
UnderWay == {c \in Call : phase[c] = "trying"}

\* Every plugin in the registry has been set up, and every other torn down as
\* often as it was set up.
TypeOK ==
  /\ loaded \in Seq(Plugin) /\ IsInjective(loaded)
  /\ ready = ToSet(loaded) /\ ready \subseteq Plugin
  /\ phase \in [Call -> {"new", "trying", "over"}]
  /\ tries \in [Call -> 0..(Retries + 1)]
  /\ through \subseteq Call
  /\ spend \in Nat /\ owed \in 0..spend
  /\ tracing \in BOOLEAN
  /\ active \subseteq Call
  /\ ended \subseteq Call \X Call
  /\ tasks \in Nat
  /\ posts \in [Call -> Nat]
  /\ loads \in 0..MaxLoads

Init ==
  /\ loaded = <<>> /\ ready = {} /\ loads = 0
  /\ phase = [c \in Call |-> "new"]
  /\ tries = [c \in Call |-> 0]
  /\ through = {} /\ spend = 0 /\ owed = 0
  /\ tracing = TRUE
  /\ active = {} /\ ended = {} /\ tasks = 0
  /\ posts = [c \in Call |-> 0]

----------------------------------------------------------------------------
(***************************************************************************)
(* The registry                                                            *)
(***************************************************************************)

\* A plugin whose setup() or teardown() has run: both of the cost cap's begin
\* a session at zero, Latitude's teardown() forgets the traces it kept.
SetUpOrTornDown(P) ==
  /\ spend' = IF CostCap \in P THEN 0 ELSE spend
  /\ owed' = IF CostCap \in P THEN 0 ELSE owed

Forgotten(P) == active' = IF Latitude \in P THEN {} ELSE active

Refused(p, before) == p = Other \/ Loaded(p) \/ p \in ToSet(before)

\* The plugins loaded before the one that failed are taken out again, with
\* no teardown().
LoadMany_Rollback(ps, k) ==
  LET begun == SubSeq(ps, 1, k) IN
    /\ loads < MaxLoads
    /\ \A i \in 1..k : ~Loaded(ps[i])
    /\ IsInjective(begun)
    /\ k < Len(ps) => Refused(ps[k + 1], begun)
    /\ loaded' = IF k < Len(ps) THEN loaded ELSE loaded \o begun
    /\ ready' = ready \cup ToSet(begun)
    /\ SetUpOrTornDown(ToSet(begun))
    /\ loads' = loads + 1
    /\ UNCHANGED <<phase, tries, through, traces>>

\* load_many(ps), or load() of one: the first k are loaded; the next, if there
\* is one, raises PluginError, because its name is taken or its setup()
\* raised, and those before it stay loaded.
LoadMany(ps, k) ==
  LET begun == SubSeq(ps, 1, k) IN
    /\ loads < MaxLoads
    /\ \A i \in 1..k : ~Loaded(ps[i])
    /\ IsInjective(begun)
    /\ k < Len(ps) => Refused(ps[k + 1], begun)
    /\ loaded' = loaded \o begun
    /\ ready' = ready \cup ToSet(begun)
    /\ SetUpOrTornDown(ToSet(begun))
    /\ loads' = loads + 1
    /\ UNCHANGED <<phase, tries, through, traces>>

TornDown(P) ==
  /\ ready' = ready \ P
  /\ SetUpOrTornDown(P)
  /\ Forgotten(P)
  /\ UNCHANGED <<loads, phase, tries, through, tracing, ended, tasks, posts>>

\* unload(p) of a plugin that is there; of another it raises.
Unload(p) ==
  /\ \E i \in DOMAIN loaded : loaded[i] = p /\ loaded' = RemoveAt(loaded, i)
  /\ TornDown({p})

\* unload_all()
UnloadAll ==
  /\ loaded # <<>>
  /\ loaded' = <<>>
  /\ TornDown(ToSet(loaded))

----------------------------------------------------------------------------
(***************************************************************************)
(* The hooks                                                               *)
(***************************************************************************)

\* CostCapPlugin.on_agent_run() without the look at what was spent.
WithinCap_PerCallOnly(estimate) == estimate = NaN \/ estimate <= InvocationCap

\* CostCapPlugin.on_agent_run() leaves the prompt as it is: neither comparison
\* comes out true, as none ever does of NaN.
WithinCap(estimate) ==
  \/ estimate = NaN
  \/ estimate <= InvocationCap /\ spend + estimate <= SessionCap

\* A hook that raises is logged by dispatch_run() and passed over.
LetsBy(estimate) == Loaded(CostCap) => estimate = Unreadable \/ WithinCap(estimate)

\* What the chunks say the call cost when the cost cap reads them: only a
\* plugin before it can have put it there.  A cost that float() raises on ends
\* the hook there, with less charged.
Before(p, q) == \E i, j \in DOMAIN loaded : i < j /\ loaded[i] = p /\ loaded[j] = q
Cost == IF Before(Other, CostCap) THEN 0..MaxCost ELSE {0}

\* CostCapPlugin.on_agent_result() of a call that cost that much.
Charge(c, cost) ==
  /\ spend' = IF Loaded(CostCap) THEN spend + cost ELSE spend
  /\ owed' = IF Loaded(CostCap) /\ c \in through THEN owed + cost ELSE owed

Traced == Loaded(Latitude) /\ tracing

\* LatitudePlugin.on_agent_run() starts a trace and keeps it under an id that
\* it puts into the payload.
KeepTrace(c) == active' = IF Traced THEN active \cup {c} ELSE active

\* LatitudePlugin.on_agent_result() looks for that id in the chunks, where
\* nobody has put it, and so sends a trace started there and then.
SendNewTrace == tasks' = IF Traced THEN tasks + 1 ELSE tasks

\* dispatch_run() of a new call.  A prompt that was replaced is sent to the
\* model like any other.  A hit in the cache ends the call here.
Begin(c) ==
  /\ phase[c] = "new"
  /\ Cardinality(UnderWay) < MaxUnderWay
  /\ \E hit \in BOOLEAN :
       phase' = [phase EXCEPT ![c] = IF hit THEN "over" ELSE "trying"]
  /\ \E estimate \in Estimate :
       LET judged == Loaded(CostCap) => estimate \in Nat
       IN through' = IF LetsBy(estimate) /\ judged THEN through \cup {c} ELSE through
  /\ KeepTrace(c)
  /\ UNCHANGED <<registry, tries, spend, owed, tracing, ended, tasks, posts>>

\* dispatch_result() of an attempt that went well.
Succeed(c) ==
  /\ phase[c] = "trying"
  /\ phase' = [phase EXCEPT ![c] = "over"]
  /\ \E cost \in Cost : Charge(c, cost)
  /\ SendNewTrace
  /\ UNCHANGED <<registry, tries, through, tracing, active, ended, posts>>

\* Those of every agent.
Told_AllAgents(c) == {d \in active : ~\E e \in ended : e[1] = d}

\* Those that have an end as well.
Told_Again(c) == {d \in active : AgentOf[d] = AgentOf[c]}

\* LatitudePlugin.on_error(): the kept traces of the agent that have no end.
Told(c) ==
  {d \in active : AgentOf[d] = AgentOf[c] /\ ~\E e \in ended : e[1] = d}

\* record_error() ends them, and a task is made to send each.
SendErrors(c, ds) ==
  /\ ended' = ended \cup {<<d, c>> : d \in ds}
  /\ tasks' = tasks + Cardinality(ds)
  /\ posts' = [d \in Call |-> IF d \in ds THEN posts[d] + 1 ELSE posts[d]]

\* dispatch_error(): an attempt has failed; the last one ends the call.
Fail(c) ==
  /\ phase[c] = "trying"
  /\ tries' = [tries EXCEPT ![c] = @ + 1]
  /\ phase' = [phase EXCEPT ![c] = IF tries[c] = Retries THEN "over" ELSE @]
  /\ SendErrors(c, IF Traced THEN Told(c) ELSE {})
  /\ UNCHANGED <<registry, budget, tracing, active>>

\* The circuit is open, the consumer leaves or its task is cancelled: no hook
\* is called.
End(c) ==
  /\ phase[c] = "trying"
  /\ phase' = [phase EXCEPT ![c] = "over"]
  /\ UNCHANGED <<registry, tries, budget, traces>>

\* end_trace(): no post when tracing is off.  A 402 turns it off; any other
\* answer, or none, is logged at most.
EndTrace ==
  /\ tasks > 0
  /\ tasks' = tasks - 1
  /\ \E paid \in BOOLEAN : tracing' = (tracing /\ paid)
  /\ UNCHANGED <<registry, phase, tries, budget, active, ended, posts>>

Next ==
  \/ \E ps \in Lists : \E k \in 0..Len(ps) : LoadMany(ps, k)
  \/ \E p \in Plugin : Unload(p)
  \/ UnloadAll
  \/ \E c \in Call : Begin(c) \/ Succeed(c) \/ Fail(c) \/ End(c)
  \/ EndTrace

Spec == Init /\ [][Next]_vars

----------------------------------------------------------------------------
(***************************************************************************)
(* Properties                                                              *)
(***************************************************************************)

\* The calls whose estimate the cap could judge, and let through, overspend a
\* session by no more than what the calls under way at once can cost,
\* whatever came between a check and its charge, charges of other calls
\* included (builtin.py:191).
OvershootBounded ==
  owed + MaxCost * Cardinality(UnderWay \cap through) <= SessionCap + MaxUnderWay * MaxCost

\* Once more than session_cap was spent, no payload gets past the cap with its
\* prompt: the plugin enforces cumulative session cost limits
\* (builtin.py:151).
CapBlocks ==
  Loaded(CostCap) /\ spend > SessionCap => \A estimate \in Estimate : ~LetsBy(estimate)

\* No trace is sent twice, however often its call and others of its agent
\* fail, and one is ended with an error only by a call of the same agent
\* (latitude.py:1146).
TracesMatch ==
  /\ \A c \in Call : posts[c] <= 1
  /\ \A e \in ended : AgentOf[e[1]] = AgentOf[e[2]]
=============================================================================
