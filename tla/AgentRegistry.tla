---------------------------- MODULE AgentRegistry ----------------------------
(***************************************************************************)
(* An AgentRegistry (agents/registry.py) and the default registry of the   *)
(* SDK (sdk.py), which @agent and AgentBuilder.register() use when they    *)
(* are given none.  The default is created when it is first asked for, may *)
(* be reset, and is replaced for the time of a `with AgentContext()`.      *)
(*                                                                         *)
(* One registry is kept in detail: the one a program hands to others, as   *)
(* its discovery.  Of the default only which registry it is matters.       *)
(***************************************************************************)
EXTENDS Naturals, Sequences

CONSTANTS
  Name,      \* safe_names
  None,      \* no entry
  MaxDepth   \* bound: contexts open at once

ASSUME DepthAssumption == MaxDepth \in Nat

VARIABLES
  registry,  \* registry[n]: the agent registered as n, or None
  default,   \* _default_registry, see Default
  scopes,    \* the _saved of the open contexts, innermost first
  unset      \* history: a context was entered while there was no default

registries == <<registry, default, scopes, unset>>

\* "home": the registry above; "none": None; "fresh": made for a program that
\* had none; "open": that of the innermost open context; "left": that of a
\* context that was left.
Default == {"home", "none", "fresh", "open", "left"}

RegistriesOK(Agent) ==
  /\ registry \in [Name -> Agent \cup {None}]
  /\ default \in Default
  /\ scopes \in Seq(Default) /\ Len(scopes) <= MaxDepth
  /\ unset \in BOOLEAN

\* The program has a registry of its own, or has asked for the default.
NoAgents ==
  /\ registry = [n \in Name |-> None]
  /\ default \in {"home", "none"}
  /\ scopes = <<>>
  /\ unset = FALSE

Has(n) == registry[n] # None

\* register() of a name that is not taken: a taken one raises.
Register(n, agent) ==
  /\ ~Has(n)
  /\ registry' = [registry EXCEPT ![n] = agent]
  /\ UNCHANGED <<default, scopes, unset>>

RegisterOrUpdate(n, agent) ==
  /\ registry' = [registry EXCEPT ![n] = agent]
  /\ UNCHANGED <<default, scopes, unset>>

\* remove(): a name that is not there raises.
RemoveAgent(n) ==
  /\ Has(n)
  /\ registry' = [registry EXCEPT ![n] = None]
  /\ UNCHANGED <<default, scopes, unset>>

Clear ==
  /\ registry' = [n \in Name |-> None]
  /\ UNCHANGED <<default, scopes, unset>>

\* _ensure_default_registry().
Ensured == IF default = "none" THEN "fresh" ELSE default

\* get_default_registry().
GetDefault ==
  /\ default' = Ensured
  /\ UNCHANGED <<registry, scopes, unset>>

\* @agent with no registry: what it registers is only seen if the default is
\* the registry at home.
Decorate(n, agent) ==
  /\ default' = Ensured
  /\ registry' = IF default = "home" THEN [registry EXCEPT ![n] = agent] ELSE registry
  /\ UNCHANGED <<scopes, unset>>

\* AgentBuilder(n)...build(), and its register() with no registry.
BuildAndRegister(n, agent) == Decorate(n, agent)

ResetDefault ==
  /\ default' = "none"
  /\ UNCHANGED <<registry, scopes, unset>>

EnterContext ==
  /\ Len(scopes) < MaxDepth
  /\ scopes' = <<default>> \o scopes
  /\ default' = "open"
  /\ unset' = (unset \/ default = "none")
  /\ UNCHANGED registry

\* The registry the program began with comes back.
LeaveContext_ToHome ==
  /\ scopes # <<>>
  /\ default' = "home"
  /\ scopes' = Tail(scopes)
  /\ UNCHANGED <<registry, unset>>

\* __exit__(): what was saved comes back, unless that was None; the default
\* then stays what it is.
LeaveContext ==
  /\ scopes # <<>>
  /\ default' = IF Head(scopes) # "none" THEN Head(scopes)
                ELSE IF default = "open" THEN "left" ELSE default
  /\ scopes' = Tail(scopes)
  /\ UNCHANGED <<registry, unset>>

----------------------------------------------------------------------------
\* Inside a context nothing is registered at home by @agent, and after it
\* nothing in the registry of the context, if there was a default when it was
\* entered; however contexts nest and the default is reset in between
\* (sdk.py:603).
Isolated ==
  /\ scopes # <<>> => default # "home"
  /\ default = "open" => scopes # <<>>
  /\ default = "left" => unset
=============================================================================
