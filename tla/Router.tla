------------------------------- MODULE Router -------------------------------
(***************************************************************************)
(* AdaptiveRouter (qos.py, over routing.py) and the RouterStateManager     *)
(* that keeps its statistics in a file (utils/router_state.py): concurrent *)
(* calls pick a model, with or without a QoSPolicy, and report what became *)
(* of it; a background loop saves; the process exits, crashes and starts   *)
(* again from the file.                                                    *)
(*                                                                         *)
(* Counts are kept exactly.  The moving averages of latency, cost and      *)
(* quality only decide whether a model passes the policy: an outcome makes *)
(* that true or false.  UCB1 indices and Thompson samples are real numbers *)
(* that let any model come out first; only the infinite index of a model   *)
(* that was never tried is kept.                                           *)
(***************************************************************************)
EXTENDS Naturals, Sequences, FiniteSetsExt

CONSTANTS
  Pool,        \* the candidates every call passes, in order
  Level,       \* the QoSLevel of the policy
  Caller,      \* calls that may be under way at once
  Threshold,   \* explore_threshold
  Interval,    \* interval_s
  Lag,         \* how late the event loop may wake the saver
  MaxOutcomes, \* bound: outcomes a process has in its statistics
  MaxFaults,   \* bound: saves that fail one after another
  MaxStarts,   \* bound: starts of the process
  None

Model == {Pool[i] : i \in DOMAIN Pool}

ModelStats ==
  [invocation_count : Nat, success_count : Nat, ts_alpha : Nat, ts_beta : Nat,
   passes : BOOLEAN]

\* What a snapshot may hold: the statistics of some models.
IsSnapshot(f) == \E M \in SUBSET Model : f \in [M -> ModelStats]

ASSUME RouterAssumption ==
  /\ Pool \in Seq(Model) \ {<<>>}
  /\ \A i, j \in DOMAIN Pool : Pool[i] = Pool[j] => i = j
  /\ Level \in {"fast", "balanced", "quality"}
  /\ IsFiniteSet(Caller)
  /\ Threshold \in Nat /\ Interval \in Nat \ {0} /\ Lag \in Nat
  /\ MaxOutcomes \in Nat /\ MaxFaults \in Nat /\ MaxStarts \in Nat
  /\ None \notin Model \cup Nat /\ None \notin ModelStats /\ ~IsSnapshot(None)

VARIABLES
  up,       \* the process runs, inside auto_save()
  stats,    \* _stats: per model its ModelStats, or None if not registered
  total,    \* _total_invocations
  call,     \* call[c]: the model c was given and is running, or None
  file,     \* the snapshot: None, or the statistics in it
  slept,    \* how long the saver has been asleep
  faults,   \* saves that failed since the last that did not
  waiting,  \* history: how long the oldest outcome not in the file has
            \* waited, None if there is none
  shut,     \* history: models a policy has kept out since the start
  unread,   \* history: the process started without what is in the file
  starts    \* starts of the process, counted for the bound

process == <<up, stats, total, call, shut, unread>>
clock == <<slept, waiting, faults>>
vars == <<process, clock, file, starts>>

----------------------------------------------------------------------------
(***************************************************************************)
(* ModelStats                                                              *)
(***************************************************************************)

\* for_level(): the latencies (ms), costs (cents) and qualities (tenths) that
\* a policy of a level lets pass.
ForLevel(level) ==
  CASE level = "fast"    -> [latency |-> 0..2000, cost |-> Nat, quality |-> 5..10]
    [] level = "quality" -> [latency |-> Nat, cost |-> 0..10, quality |-> 9..10]
    [] OTHER             -> [latency |-> 0..5000, cost |-> 0..5, quality |-> 7..10]

\* passes() of the averages that a model starts from.
FreshPasses ==
  /\ 5000 \in ForLevel(Level).latency
  /\ 1 \in ForLevel(Level).cost
  /\ 8 \in ForLevel(Level).quality

Registered == {m \in Model : stats[m] # None}
Fresh ==
  [invocation_count |-> 0, success_count |-> 0, ts_alpha |-> 1, ts_beta |-> 1,
   passes |-> FreshPasses]

Ensured(s, M) == [m \in Model |-> IF m \in M /\ s[m] = None THEN Fresh ELSE s[m]]

\* A failure that leaves the posterior alone.
Update_NoBeta(s, success, passes) ==
  LET won == IF success THEN 1 ELSE 0 IN
    [invocation_count |-> s.invocation_count + 1,
     success_count |-> s.success_count + won,
     ts_alpha |-> s.ts_alpha + won,
     ts_beta |-> s.ts_beta,
     passes |-> passes]

\* update(): passes is what the new averages make of it.
Update(s, success, passes) ==
  LET won == IF success THEN 1 ELSE 0 IN
    [invocation_count |-> s.invocation_count + 1,
     success_count |-> s.success_count + won,
     ts_alpha |-> s.ts_alpha + won,
     ts_beta |-> s.ts_beta + (1 - won),
     passes |-> passes]

\* record_outcome(), which registers a model it does not know.
Recorded(s, m, success, passes) ==
  [s EXCEPT ![m] = Update(Ensured(s, {m})[m], success, passes)]

Invoked(s, m) == IF s[m] = None THEN 0 ELSE s[m].invocation_count
NoStats == [m \in Model |-> None]

----------------------------------------------------------------------------
(***************************************************************************)
(* The posterior counts successes and failures, in memory, in the file and *)
(* wherever it is handed on (sync_stats, dump_state, load_state).          *)
(***************************************************************************)
Counts(s) ==
  /\ s.ts_alpha = s.success_count + 1
  /\ s.success_count + s.ts_beta = s.invocation_count + 1

TypeOK ==
  /\ up \in BOOLEAN
  /\ stats \in [Model -> ModelStats \cup {None}]
  /\ \A m \in Registered : Counts(stats[m])
  /\ total \in Nat
  /\ call \in [Caller -> Model \cup {None}]
  /\ file # None => IsSnapshot(file) /\ \A m \in DOMAIN file : Counts(file[m])
  /\ slept \in 0..(Interval + Lag)
  /\ faults \in Nat
  /\ waiting = None \/ waiting \in Nat
  /\ shut \subseteq Model
  /\ unread \in BOOLEAN
  /\ starts \in Nat

Blank ==
  /\ stats' = NoStats
  /\ total' = 0
  /\ call' = [c \in Caller |-> None]
  /\ slept' = 0
  /\ faults' = 0
  /\ waiting' = None
  /\ shut' = {}
  /\ unread' = FALSE

Init ==
  /\ up = FALSE
  /\ stats = NoStats /\ total = 0
  /\ call = [c \in Caller |-> None]
  /\ file = None
  /\ slept = 0 /\ waiting = None /\ faults = 0
  /\ shut = {} /\ unread = FALSE /\ starts = 0

----------------------------------------------------------------------------
(***************************************************************************)
(* Choosing a model                                                        *)
(***************************************************************************)

\* An index without the exploration bonus: an untried model counts as a
\* perfect one and ties with those that never failed.
Ucb1_NoBonus(s, M) == M

\* The first of the candidates M that was never invoked, whose index is
\* infinite; else any of them.
Ucb1(s, M) ==
  LET untried == {i \in DOMAIN Pool : Pool[i] \in M /\ Invoked(s, Pool[i]) = 0}
  IN  IF untried = {} THEN M
      ELSE {Pool[CHOOSE i \in untried : \A j \in untried : i <= j]}

\* sync_stats(): the Thompson delegate is given the posterior of every
\* candidate before it draws, and what it had before is overwritten.
SyncStats(s, M) == [m \in M |-> <<s[m].ts_alpha, s[m].ts_beta>>]

\* A draw from Beta(alpha, beta) is defined, and may come out anywhere.
ThompsonSample(posterior) == posterior[1] > 0 /\ posterior[2] > 0

\* The highest of one draw each, whichever that is.
ThompsonSelect(posteriors) ==
  {m \in DOMAIN posteriors : ThompsonSample(posteriors[m])}

\* AdaptiveRouter.select_model(M) by c.  A lone candidate is returned
\* unregistered.
Select(c, M) ==
  /\ call[c] = None
  /\ stats' = IF Cardinality(M) = 1 THEN stats ELSE Ensured(stats, M)
  /\ \E m \in IF Cardinality(M) = 1 THEN M
               ELSE IF total < Threshold THEN Ucb1(stats', M)
               ELSE ThompsonSelect(SyncStats(stats', M)) :
       call' = [call EXCEPT ![c] = m]

SelectModel(c) ==
  /\ up
  /\ Select(c, Model)
  /\ UNCHANGED <<up, total, shut, unread, clock, file, starts>>

\* filter_candidates(): all of them when none passes, or nothing is known.
Passing == {m \in Model : stats[m] # None /\ stats[m].passes}
Filtered == IF Registered = {} \/ Passing = {} THEN Model ELSE Passing

\* select_model_with_policy(): the filter looks every candidate up in _stats,
\* and raises KeyError, with nothing changed, when some but not all of them
\* are registered.
SelectWithPolicy(c) ==
  /\ up
  /\ Registered \in {{}, Model}
  /\ Select(c, Filtered)
  /\ shut' = shut \cup (Model \ Filtered)
  /\ UNCHANGED <<up, total, unread, clock, file, starts>>

\* All the outcomes the statistics hold.
Known == FoldSet(LAMBDA m, n : Invoked(stats, m) + n, 0, Model)

\* record_outcome() of c's model.
RecordOutcome(c) ==
  /\ up /\ call[c] # None
  /\ Known < MaxOutcomes
  /\ \E success, passes \in BOOLEAN :
       stats' = Recorded(stats, call[c], success, passes)
  /\ total' = total + 1
  /\ call' = [call EXCEPT ![c] = None]
  /\ waiting' = IF waiting = None THEN 0 ELSE waiting
  /\ UNCHANGED <<up, shut, unread, slept, faults, file, starts>>

\* The call ends and nobody reports what became of it.
Forget(c) ==
  /\ up /\ call[c] # None
  /\ call' = [call EXCEPT ![c] = None]
  /\ UNCHANGED <<up, stats, total, shut, unread, clock, file, starts>>

----------------------------------------------------------------------------
(***************************************************************************)
(* Saving and loading                                                      *)
(***************************************************************************)

\* dump_state(): an entry for every model that is registered.
DumpState(s) == [m \in {n \in Model : s[n] # None} |-> s[m]]

\* The state that was loaded is written back, without what came since.
SaveRouter_Stale(done) ==
  IF done
  THEN /\ file' = IF file = None THEN DumpState(stats) ELSE file
       /\ faults' = 0 /\ waiting' = None
  ELSE /\ faults < MaxFaults
       /\ faults' = faults + 1
       /\ UNCHANGED <<file, waiting>>

\* save_router(): the temporary file replaces the snapshot, or an exception
\* leaves the snapshot as it was.
SaveRouter(done) ==
  IF done
  THEN file' = DumpState(stats) /\ faults' = 0 /\ waiting' = None
  ELSE /\ faults < MaxFaults
       /\ faults' = faults + 1
       /\ UNCHANGED <<file, waiting>>

\* A turn of _loop(): a save that fails is logged and the loop sleeps again.
SaverWakes ==
  /\ up /\ slept >= Interval
  /\ \E done \in BOOLEAN : SaveRouter(done)
  /\ slept' = 0
  /\ UNCHANGED <<process, starts>>

\* auto_save() is left: the loop is cancelled, which it can only be asleep,
\* and a last save made or logged as failed.
Exit ==
  /\ up
  /\ \E done \in BOOLEAN : file' = IF done THEN DumpState(stats) ELSE file
  /\ up' = FALSE
  /\ Blank
  /\ UNCHANGED starts

Crash ==
  /\ up
  /\ up' = FALSE
  /\ Blank
  /\ UNCHANGED <<file, starts>>

\* The statistics at hand win.
LoadState_Keep(s, saved) ==
  [m \in Model |-> IF s[m] = None /\ m \in DOMAIN saved THEN saved[m] ELSE s[m]]

\* load_state(): what is in the file overwrites what there is, and models
\* that are not in it are left alone.
LoadState(s, saved) ==
  [m \in Model |-> IF m \in DOMAIN saved THEN saved[m] ELSE s[m]]

\* A new process registers the models it knows of, loads the snapshot and
\* enters auto_save().  A snapshot that cannot be read, or of another schema,
\* is passed over with a warning, and the next save will replace it.
Start ==
  /\ ~up /\ starts < MaxStarts
  /\ up' = TRUE
  /\ starts' = starts + 1
  /\ \E known \in SUBSET Model, readable \in BOOLEAN :
       /\ stats' = IF file # None /\ readable
                   THEN LoadState(Ensured(NoStats, known), file)
                   ELSE Ensured(NoStats, known)
       /\ unread' = ~readable
  /\ UNCHANGED <<total, call, shut, clock, file>>

\* The loop is woken no later than Lag after its time.
Tick ==
  /\ up /\ slept < Interval + Lag
  /\ slept' = slept + 1
  /\ waiting' = IF waiting = None THEN None ELSE waiting + 1
  /\ UNCHANGED <<process, faults, file, starts>>

Next ==
  \/ \E c \in Caller :
       SelectModel(c) \/ SelectWithPolicy(c) \/ RecordOutcome(c) \/ Forget(c)
  \/ SaverWakes \/ Exit \/ Crash \/ Start \/ Tick

Spec == Init /\ [][Next]_vars

----------------------------------------------------------------------------
(***************************************************************************)
(* Properties                                                              *)
(***************************************************************************)

Tried == {m \in Model : Invoked(stats, m) > 0}

\* As long as UCB1 is at work, the outcomes recorded are no more than one of
\* each caller for each model that was tried, until every candidate has had its
\* turn or a policy kept it out.  Outcomes only count when they are reported:
\* callers who choose at once may all be given the same untried model, but a
\* model with an outcome is given to nobody while another has none, whatever
\* the snapshot brought (qos.py:317).
Explored ==
  up /\ total <= Threshold =>
    \A m \in Model :
      \/ m \in Tried \cup shut
      \/ total <= Cardinality(Caller) * Cardinality(Tried)

\* When Thompson sampling takes over, UCB1 has tested all candidates, but for
\* those a policy kept out (qos.py:274).
CandidatesTested ==
  up /\ total >= Threshold => Model \subseteq Tried \cup shut

\* What a crash can cost: an outcome is in the file within one interval, and
\* one more for every save that failed since; an outcome counted as saved is
\* there (router_state.py:232).
Saved(m) ==
  IF file # None /\ m \in DOMAIN file THEN file[m].invocation_count ELSE 0
LossBounded ==
  IF waiting = None
  THEN \A m \in Model : Invoked(stats, m) <= Saved(m)
  ELSE waiting <= (faults + 1) * (Interval + Lag)

\* A save loses nothing the file had, across crashes and restarts, unless
\* the process had started without being able to read it
\* (router_state.py:119, routing.py:439).
SnapshotGrows ==
  [][~unread => \A m \in Model : Saved(m)' >= Saved(m)]_vars
=============================================================================
