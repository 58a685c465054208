------------------------------ MODULE Discovery ------------------------------
(***************************************************************************)
(* ModelDiscovery (discovery.py) over an AgentRegistry that may be the     *)
(* SDK's default registry.  refresh() contains no await that waits, so a   *)
(* whole fetch with its registrations is one step; what comes in between   *)
(* are the users of the registry, the clock and the background task.       *)
(***************************************************************************)
EXTENDS AgentRegistry, Integers, SequencesExt

CONSTANTS
  Model,      \* "owner/name" of the models the API may list
  NameOf,     \* NameOf[m]: the safe_name made of m, not one to one
  Wanted,     \* the models that pass the owner and tag filters
  Pinned,     \* the keys of pinned_versions
  MaxModels,  \* max_models
  TTL,        \* ttl_seconds, in ticks
  Interval    \* background_interval_seconds, in ticks

ASSUME DiscoveryAssumption ==
  /\ IsFiniteSet(Model)
  /\ NameOf \in [Model -> Name]
  /\ Wanted \subseteq Model
  /\ Pinned \subseteq Model
  /\ MaxModels \in Nat \ {0}
  /\ TTL \in Nat
  /\ Interval \in Nat \ {0}

VARIABLES
  mode,      \* config.version_pinning
  asked,     \* _last_result is not None
  found,     \* its count of discovered models
  age,       \* ticks since _last_refresh, cut off at Stale
  sleep      \* ticks the background task still sleeps, NoTask without one

vars == <<mode, registries, asked, found, age, sleep>>

Stale == TTL + Interval
NoTask == -1

\* An agent by where it comes from; model None for one that a user made.
Agent == [model : Model \cup {None}, version : {"latest", "pin", "own"}]
Own == [model |-> None, version |-> "own"]

TypeOK ==
  /\ mode \in {"latest", "minor", "exact"}
  /\ RegistriesOK(Agent)
  /\ asked \in BOOLEAN
  /\ found \in 0..MaxModels
  /\ age \in 0..Stale
  /\ sleep \in NoTask..Interval

Init ==
  /\ mode \in {"latest", "minor", "exact"}
  /\ NoAgents
  /\ asked = FALSE
  /\ found = 0
  /\ age = Stale
  /\ sleep = NoTask

----------------------------------------------------------------------------
\* _model_to_metadata: under LATEST the pins are ignored.
Converted(m) ==
  [model |-> m,
   version |-> IF m \in Pinned /\ mode # "latest" THEN "pin" ELSE "latest"]

\* A registered agent with a pin is left as it is under EXACT.
KeepsPin(agents, m) ==
  mode = "exact" /\ m \in Pinned /\ agents[NameOf[m]] # None

\* The pin is looked up only when the agent is made, not when it is updated.
Seen_PinUpdated(acc, m) ==
  IF acc.found >= MaxModels \/ m \notin Wanted THEN acc
  ELSE [agents |-> [acc.agents EXCEPT ![NameOf[m]] = Converted(m)],
        found |-> acc.found + 1]

\* The cap lets one model more through.
Seen_OverCap(acc, m) ==
  IF acc.found > MaxModels THEN acc
  ELSE IF KeepsPin(acc.agents, m)
  THEN [acc EXCEPT !.found = @ + 1]
  ELSE IF m \notin Wanted THEN acc
  ELSE [agents |-> [acc.agents EXCEPT ![NameOf[m]] = Converted(m)],
        found |-> acc.found + 1]

\* The body of the loop over the listing.  A pinned agent that is kept
\* counts against max_models before the filters are asked.
Seen(acc, m) ==
  IF acc.found >= MaxModels THEN acc
  ELSE IF KeepsPin(acc.agents, m)
  THEN [acc EXCEPT !.found = @ + 1]
  ELSE IF m \notin Wanted THEN acc
  ELSE [agents |-> [acc.agents EXCEPT ![NameOf[m]] = Converted(m)],
        found |-> acc.found + 1]

\* What the listing leaves in the registry, and how many it discovered.
Merged(listing) ==
  LET merged[i \in 0..Len(listing)] ==
        IF i = 0 THEN [agents |-> registry, found |-> 0]
        ELSE Seen(merged[i - 1], listing[i])
  IN merged[Len(listing)]

\* The listings the API may give, or give before the call fails.
Listing ==
  {l \in UNION {[1..n -> Model] : n \in 0..Cardinality(Model)} : IsInjective(l)}

\* A snapshot as old as the TTL still counts as fresh.
IsFresh_AtTTL == asked /\ age <= TTL

IsFresh == asked /\ age < TTL

\* refresh(): nothing while fresh; else a fetch, whose failure is a result
\* like any other and starts the TTL anew.
Refresh ==
  \/ /\ IsFresh
     /\ UNCHANGED <<registry, asked, found, age>>
  \/ /\ ~IsFresh
     /\ \E after \in {Merged(listing) : listing \in Listing} :
          /\ registry' = after.agents
          /\ found' = after.found
     /\ asked' = TRUE
     /\ age' = 0

\* discover_and_register(registry=...) with the same config: a fetch by a
\* ModelDiscovery made for it, of which the other knows nothing.
DiscoverAndRegister ==
  /\ \E after \in {Merged(listing) : listing \in Listing} : registry' = after.agents
  /\ UNCHANGED <<mode, default, scopes, unset, asked, found, age, sleep>>

\* refresh() called by a user.
CallRefresh ==
  /\ Refresh
  /\ UNCHANGED <<mode, default, scopes, unset, sleep>>

\* start_background_refresh() with no task running.
StartBackground ==
  /\ sleep = NoTask
  /\ sleep' = 0
  /\ UNCHANGED <<mode, registries, asked, found, age>>

StopBackground ==
  /\ sleep # NoTask
  /\ sleep' = NoTask
  /\ UNCHANGED <<mode, registries, asked, found, age>>

\* One turn of _background_loop.
BackgroundTurn ==
  /\ sleep = 0
  /\ Refresh
  /\ sleep' = Interval
  /\ UNCHANGED <<mode, default, scopes, unset>>

\* The clock; a task whose sleep is over runs before it moves on.
Tick ==
  /\ sleep # 0
  /\ sleep' = IF sleep = NoTask THEN NoTask ELSE sleep - 1
  /\ age' = IF age < Stale THEN age + 1 ELSE age
  /\ UNCHANGED <<mode, registries, asked, found>>

\* What programs do with agents of their own.
UseRegistry ==
  /\ \/ \E n \in Name :
          \/ Register(n, Own) \/ RegisterOrUpdate(n, Own) \/ RemoveAgent(n)
          \/ Decorate(n, Own) \/ BuildAndRegister(n, Own)
     \/ Clear \/ GetDefault \/ ResetDefault \/ EnterContext \/ LeaveContext
  /\ UNCHANGED <<mode, asked, found, age, sleep>>

Next ==
  \/ CallRefresh \/ StartBackground \/ StopBackground \/ BackgroundTurn \/ Tick
  \/ DiscoverAndRegister \/ UseRegistry

Spec == Init /\ [][Next]_vars

----------------------------------------------------------------------------
(***************************************************************************)
(* Properties                                                              *)
(***************************************************************************)

\* No other model that discovery may register shares the safe_name of m.
Unshared(m) == \A w \in Wanted \ {m} : NameOf[w] # NameOf[m]

\* Under EXACT an agent once registered for a pinned model, by discovery at
\* its pin or by a user, comes through every refresh with this configuration as it
\* is, unless the safe_name made of the model is made of another one too: none
\* but its users change it (discovery.py:447).
PinsHold ==
  [][ mode = "exact" =>
        \A m \in Pinned : registry[NameOf[m]] # None /\ Unshared(m) =>
          registry'[NameOf[m]] = registry[NameOf[m]] \/ UseRegistry ]_vars

\* While the background task sleeps, the last fetch, failed or not, will be
\* less than ttl plus interval old when it wakes, or just the interval: a
\* snapshot that was still fresh at one turn is renewed at the next.
StaleBounded ==
  sleep > 0 =>
    /\ asked
    /\ age + sleep < TTL + Interval \/ age + sleep <= Interval

=============================================================================
