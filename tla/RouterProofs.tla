----------------------------- MODULE RouterProofs -----------------------------
(***************************************************************************)
(* What TLAPS proves of Router, for any pool of models, number of callers, *)
(* threshold, intervals and bounds: type correctness; how far the outcomes *)
(* can run ahead of a candidate that was not tried, and for which          *)
(* thresholds every candidate has been tried when Thompson sampling takes  *)
(* over; what a crash can cost; and that a save loses nothing the snapshot *)
(* had.                                                                    *)
(***************************************************************************)
EXTENDS Router, FiniteSetTheorems, FunctionTheorems, TLAPS

StatsOK(s) ==
  /\ s \in [Model -> ModelStats \cup {None}]
  /\ \A m \in Model : s[m] # None => Counts(s[m])

FileOK(f) == f # None => IsSnapshot(f) /\ \A m \in DOMAIN f : Counts(f[m])

\* The calls whose model has an outcome already.
Again == {c \in Caller : call[c] \in Tried}

\* A process that is not running has nothing in memory.
Down ==
  ~up => /\ stats = NoStats /\ total = 0 /\ call = [c \in Caller |-> None]
         /\ slept = 0 /\ faults = 0 /\ waiting = None
         /\ shut = {} /\ unread = FALSE

\* The most outcomes that can come before some candidate's turn.
Budget == (Len(Pool) - 1) * Cardinality(Caller)

\* One outcome of every caller for each model that was tried.
Room == Cardinality(Caller) * Cardinality(Tried)

\* While a candidate is still to be tried, every model that was tried has had
\* an outcome of each caller at most, those to come included while UCB1 is at
\* work: no call is given a model that has an outcome before that candidate's
\* turn.  Beyond the threshold nothing is known but that it was too low.
Exploring ==
  \/ Model \subseteq Tried \cup shut
  \/ total > Threshold /\ Threshold <= Budget
  \/ /\ total <= Threshold /\ total <= Room
     /\ total < Threshold => total + Cardinality(Again) <= Room

\* Each failed save adds an interval to the wait, and the one under way what
\* of it has passed.
Waiting ==
  IF waiting = None
  THEN \A m \in Model : Invoked(stats, m) <= Saved(m)
  ELSE waiting <= faults * (Interval + Lag) + slept

\* A process that could read the snapshot knows at least as much.
Remembers ==
  up /\ ~unread => \A m \in Model : Saved(m) <= Invoked(stats, m)

IInv == TypeOK /\ Down /\ Exploring /\ Waiting /\ Remembers

----------------------------------------------------------------------------
(***************************************************************************)
(* Lemmas on numbers and on the pool                                       *)
(***************************************************************************)

\* Every set of numbers that is not empty has a least one.
LEMMA LeastNumber ==
  ASSUME NEW S \in SUBSET Nat, S # {}
  PROVE  \E m \in S : \A k \in S : m <= k
  <1> DEFINE R == StrictSubsetOrdering(Nat)
             T == {0..k : k \in S}
  <1>1. IsWellFoundedOn(R, FiniteSubsetsOf(Nat))
    BY FS_StrictSubsetOrderingWellFounded
  <1>2. T \subseteq FiniteSubsetsOf(Nat) /\ T # {}
    <2>1. ASSUME NEW k \in S PROVE 0..k \in FiniteSubsetsOf(Nat)
      <3>1. IsFiniteSet(0..k)
        BY FS_Interval
      <3> QED
        BY <3>1 DEF FiniteSubsetsOf
    <2> QED
      BY <2>1
  <1>3. PICK I \in T : \A J \in T : ~(<<J, I>> \in R)
    <2> HIDE DEF R, T
    <2> QED BY <1>1, <1>2, WFMin
  <1>4. PICK m \in S : I = 0..m
    OBVIOUS
  <1>5. ASSUME NEW k \in S, k < m PROVE FALSE
    <2>1. 0..k \subseteq 0..m /\ m \in 0..m /\ m \notin 0..k
      BY <1>5
    <2>2. <<0..k, 0..m>> \in R
      BY <2>1 DEF StrictSubsetOrdering
    <2> QED
      BY <1>3, <1>4, <2>2
  <1> QED
    BY <1>5

\* What is known of a product of naturals as one factor shrinks or grows.
LEMMA Products ==
  ASSUME NEW c \in Nat, NEW n \in Nat, NEW k \in 0..n
  PROVE  /\ c * k \in Nat
         /\ c * k <= c * n
         /\ c * (k + 1) = c * k + c
         /\ (k + 1) * c = k * c + c
         /\ c * n = n * c
  <1>1. n = k + (n - k) /\ n - k \in Nat
    OBVIOUS
  <1>2. c * n = c * k + c * (n - k) /\ c * (n - k) \in Nat
    BY <1>1
  <1> QED
    BY <1>2

\* There are no more models than places in the pool, and a place fewer
\* without one of them.
LEMMA PoolSize ==
  /\ IsFiniteSet(Model)
  /\ Len(Pool) \in Nat \ {0}
  /\ \A m \in Model : \A S \in SUBSET (Model \ {m}) :
       /\ IsFiniteSet(S)
       /\ Cardinality(S) \in 0..(Len(Pool) - 1)
  <1>1. Len(Pool) \in Nat \ {0} /\ DOMAIN Pool = 1..Len(Pool) /\ Pool \in [1..Len(Pool) -> Model]
    BY RouterAssumption
  <1>2. Pool \in Surjection(1..Len(Pool), Model)
    <2>1. \A m \in Model : \E i \in 1..Len(Pool) : Pool[i] = m
      BY <1>1 DEF Model
    <2> QED
      BY <1>1, <2>1, Fun_IsSurj
  <1>3. IsFiniteSet(1..Len(Pool)) /\ Cardinality(1..Len(Pool)) = Len(Pool)
    BY <1>1, FS_Interval
  <1>4. IsFiniteSet(Model) /\ Cardinality(Model) <= Len(Pool)
    BY <1>2, <1>3, FS_Surjection
  <1>5. ASSUME NEW m \in Model, NEW S \in SUBSET (Model \ {m})
        PROVE  IsFiniteSet(S) /\ Cardinality(S) \in 0..(Len(Pool) - 1)
    <2>1. IsFiniteSet(Model \ {m}) /\ Cardinality(Model \ {m}) = Cardinality(Model) - 1
      BY <1>4, FS_RemoveElement
    <2>2. IsFiniteSet(S) /\ Cardinality(S) <= Cardinality(Model \ {m})
      BY <2>1, FS_Subset
    <2>3. Cardinality(S) \in Nat /\ Cardinality(Model) \in Nat
      BY <1>4, <2>2, FS_CardinalityType
    <2> QED
      BY <1>1, <1>4, <2>1, <2>2, <2>3
  <1> QED
    BY <1>1, <1>4, <1>5

----------------------------------------------------------------------------
(***************************************************************************)
(* Lemmas on the statistics                                                *)
(***************************************************************************)

LEMMA FreshOK == Fresh \in ModelStats /\ Fresh # None /\ Counts(Fresh) /\ Fresh.invocation_count = 0
  <1>1. FreshPasses \in BOOLEAN
    BY DEF FreshPasses
  <1>2. Fresh \in ModelStats
    BY <1>1 DEF Fresh, ModelStats
  <1> QED
    BY <1>2, RouterAssumption DEF Fresh, Counts

\* Registering models changes no count.
LEMMA EnsuredOK ==
  ASSUME NEW s, StatsOK(s), NEW M
  PROVE  /\ StatsOK(Ensured(s, M))
         /\ \A m \in Model : Invoked(Ensured(s, M), m) = Invoked(s, m)
         /\ \A m \in M \cap Model : Ensured(s, M)[m] # None
  BY FreshOK DEF StatsOK, Ensured, Invoked

\* update() keeps the posterior true to the counts.
LEMMA UpdateOK ==
  ASSUME NEW s \in ModelStats, Counts(s), NEW success \in BOOLEAN, NEW passes \in BOOLEAN
  PROVE  /\ Update(s, success, passes) \in ModelStats
         /\ Counts(Update(s, success, passes))
         /\ Update(s, success, passes).invocation_count = s.invocation_count + 1
  BY DEF Update, Counts, ModelStats

\* record_outcome() counts one outcome, of that model.
LEMMA RecordedOK ==
  ASSUME NEW s, StatsOK(s), NEW m \in Model, NEW success \in BOOLEAN, NEW passes \in BOOLEAN
  PROVE  LET t == Recorded(s, m, success, passes)
         IN  /\ StatsOK(t)
             /\ Invoked(s, m) \in Nat
             /\ Invoked(t, m) = Invoked(s, m) + 1
             /\ \A n \in Model \ {m} : Invoked(t, n) = Invoked(s, n)
  <1> DEFINE e == Ensured(s, {m})[m]
             u == Update(e, success, passes)
             t == [s EXCEPT ![m] = u]
  <1>1. e \in ModelStats /\ Counts(e) /\ e.invocation_count = Invoked(s, m)
    BY FreshOK DEF StatsOK, Ensured, Invoked
  <1> HIDE DEF e
  <1>2. u \in ModelStats /\ Counts(u) /\ u.invocation_count = Invoked(s, m) + 1
    BY <1>1, UpdateOK
  <1>3. Invoked(s, m) \in Nat
    BY <1>1 DEF ModelStats
  <1> HIDE DEF u
  <1>4. u # None
    BY <1>2, RouterAssumption
  <1>5. t = Recorded(s, m, success, passes)
    BY DEF Recorded, u, e
  <1>6. t[m] = u /\ t \in [Model -> ModelStats \cup {None}]
        /\ \A n \in Model \ {m} : t[n] = s[n]
    BY <1>2 DEF StatsOK
  <1> HIDE DEF t
  <1>7. StatsOK(t)
    BY <1>2, <1>6 DEF StatsOK
  <1>8. Invoked(t, m) = Invoked(s, m) + 1 /\ \A n \in Model \ {m} : Invoked(t, n) = Invoked(s, n)
    BY <1>2, <1>4, <1>6 DEF Invoked
  <1> QED
    BY <1>3, <1>5, <1>7, <1>8

\* A count is a number.
LEMMA InvokedNat ==
  ASSUME NEW s, StatsOK(s), NEW m \in Model
  PROVE  Invoked(s, m) \in Nat
  BY DEF StatsOK, Invoked, ModelStats

\* A snapshot holds what was in memory.
LEMMA DumpOK ==
  ASSUME NEW s, StatsOK(s)
  PROVE  LET f == DumpState(s)
         IN  /\ f # None
             /\ FileOK(f)
             /\ \A m \in Model :
                  (IF m \in DOMAIN f THEN f[m].invocation_count ELSE 0) = Invoked(s, m)
  <1> DEFINE M == {n \in Model : s[n] # None}
             f == DumpState(s)
  <1>1. f = [m \in M |-> s[m]] /\ DOMAIN f = M
    BY DEF DumpState
  <1>2. f \in [M -> ModelStats] /\ M \in SUBSET Model
    BY <1>1 DEF StatsOK
  <1>3. IsSnapshot(f)
    BY <1>2 DEF IsSnapshot
  <1>4. f # None
    BY <1>3, RouterAssumption
  <1>5. FileOK(f)
    BY <1>1, <1>3 DEF FileOK, StatsOK
  <1>6. \A m \in Model : (IF m \in DOMAIN f THEN f[m].invocation_count ELSE 0) = Invoked(s, m)
    BY <1>1 DEF Invoked
  <1> HIDE DEF f
  <1> QED
    BY <1>4, <1>5, <1>6 DEF f

\* What is loaded is what the snapshot has, for the models in it.
LEMMA LoadOK ==
  ASSUME NEW s, StatsOK(s), NEW f, FileOK(f), f # None
  PROVE  LET t == LoadState(s, f)
         IN  /\ StatsOK(t)
             /\ \A m \in Model :
                  Invoked(t, m) = IF m \in DOMAIN f THEN f[m].invocation_count
                                  ELSE Invoked(s, m)
  <1> DEFINE t == LoadState(s, f)
  <1>1. PICK M \in SUBSET Model : f \in [M -> ModelStats]
    BY DEF FileOK, IsSnapshot
  <1>2. t = [m \in Model |-> IF m \in M THEN f[m] ELSE s[m]] /\ DOMAIN f = M
    BY <1>1 DEF LoadState
  <1>3. \A m \in M : f[m] \in ModelStats /\ Counts(f[m]) /\ f[m] # None
    BY <1>1, RouterAssumption DEF FileOK
  <1> HIDE DEF t
  <1>4. StatsOK(t)
    BY <1>2, <1>3 DEF StatsOK
  <1>5. \A m \in Model : Invoked(t, m) = IF m \in DOMAIN f THEN f[m].invocation_count ELSE Invoked(s, m)
    BY <1>2, <1>3 DEF Invoked
  <1> QED
    BY <1>4, <1>5 DEF t

\* What the file holds of a model is a number.
LEMMA SavedNat ==
  ASSUME FileOK(file), NEW m \in Model
  PROVE  Saved(m) \in Nat
  <1>1. CASE file = None
    BY <1>1 DEF Saved
  <1>2. CASE file # None
    <2>1. PICK M \in SUBSET Model : file \in [M -> ModelStats]
      BY <1>2 DEF FileOK, IsSnapshot
    <2> QED
      BY <1>2, <2>1 DEF Saved, ModelStats
  <1> QED
    BY <1>1, <1>2

\* TypeOK, said with these words.
LEMMA TypeWords ==
  TypeOK <=> /\ up \in BOOLEAN
             /\ StatsOK(stats)
             /\ total \in Nat
             /\ call \in [Caller -> Model \cup {None}]
             /\ FileOK(file)
             /\ slept \in 0..(Interval + Lag)
             /\ faults \in Nat
             /\ waiting = None \/ waiting \in Nat
             /\ shut \subseteq Model
             /\ unread \in BOOLEAN
             /\ starts \in Nat
  BY DEF TypeOK, StatsOK, FileOK, Registered

----------------------------------------------------------------------------
(***************************************************************************)
(* Choosing a model                                                        *)
(***************************************************************************)

\* What the algorithms return is a candidate; and while UCB1 is at work, one
\* that was never tried, if there is one.
LEMMA Ucb1OK ==
  ASSUME NEW s, StatsOK(s), NEW M \in SUBSET Model, NEW m \in Ucb1(s, M)
  PROVE  /\ m \in M
         /\ (\E u \in M : Invoked(s, u) = 0) => Invoked(s, m) = 0
  <1> DEFINE untried == {i \in DOMAIN Pool : Pool[i] \in M /\ Invoked(s, Pool[i]) = 0}
  <1>1. CASE untried = {}
    <2>1. m \in M
      BY <1>1 DEF Ucb1
    <2>2. ASSUME NEW u \in M, Invoked(s, u) = 0 PROVE FALSE
      <3>1. PICK i \in DOMAIN Pool : u = Pool[i]
        BY DEF Model
      <3> QED
        BY <1>1, <2>2, <3>1
    <2> QED
      BY <2>1, <2>2
  <1>2. CASE untried # {}
    <2>1. untried \in SUBSET Nat
      BY RouterAssumption
    <2>2. \E i \in untried : \A j \in untried : i <= j
      <3> HIDE DEF untried
      <3> QED BY <1>2, <2>1, LeastNumber
    <2>3. m = Pool[CHOOSE i \in untried : \A j \in untried : i <= j]
      BY <1>2 DEF Ucb1
    <2>4. (CHOOSE i \in untried : \A j \in untried : i <= j) \in untried
      <3> HIDE DEF untried
      <3> QED BY <2>2
    <2> QED
      BY <2>3, <2>4
  <1> QED
    BY <1>1, <1>2

LEMMA SelectOK ==
  ASSUME TypeOK, NEW c \in Caller, NEW M \in SUBSET Model, M # {}, Select(c, M)
  PROVE  /\ call[c] = None
         /\ StatsOK(stats')
         /\ \A n \in Model : Invoked(stats', n) = Invoked(stats, n)
         /\ \E m \in M :
              /\ call' = [call EXCEPT ![c] = m]
              /\ total < Threshold /\ (\E u \in M : Invoked(stats, u) = 0)
                   => Invoked(stats, m) = 0
  <1>1. call[c] = None /\ StatsOK(stats) /\ total \in Nat /\ Threshold \in Nat
    BY TypeWords, RouterAssumption DEF Select
  <1>2. StatsOK(stats') /\ \A n \in Model : Invoked(stats', n) = Invoked(stats, n)
    <2>1. stats' = stats \/ stats' = Ensured(stats, M)
      BY DEF Select
    <2> QED
      BY <1>1, <2>1, EnsuredOK
  <1>3. CASE Cardinality(M) = 1
    <2>1. PICK m : M = {m}
      <3>1. IsFiniteSet(M)
        BY PoolSize, FS_Subset
      <3> QED
        BY <1>3, <3>1, FS_Singleton
    <2>2. call' = [call EXCEPT ![c] = m]
      BY <1>3, <2>1 DEF Select
    <2> QED
      BY <1>1, <1>2, <2>1, <2>2
  <1>4. CASE Cardinality(M) # 1 /\ total < Threshold
    <2>1. PICK m \in Ucb1(stats', M) : call' = [call EXCEPT ![c] = m]
      BY <1>4 DEF Select
    <2>2. m \in M /\ ((\E u \in M : Invoked(stats', u) = 0) => Invoked(stats', m) = 0)
      BY <1>2, Ucb1OK
    <2> QED
      BY <1>1, <1>2, <2>1, <2>2
  <1>5. CASE Cardinality(M) # 1 /\ ~(total < Threshold)
    <2>1. PICK m \in ThompsonSelect(SyncStats(stats', M)) : call' = [call EXCEPT ![c] = m]
      BY <1>5 DEF Select
    <2>2. m \in M
      BY DEF ThompsonSelect, SyncStats
    <2> QED
      BY <1>1, <1>2, <1>5, <2>1, <2>2
  <1> QED
    BY <1>3, <1>4, <1>5

\* The sets that are counted are finite, and how their sizes are bounded.
LEMMA Sizes ==
  ASSUME TypeOK
  PROVE  /\ Cardinality(Caller) \in Nat
         /\ Tried \in SUBSET Model /\ IsFiniteSet(Tried) /\ Cardinality(Tried) \in Nat
         /\ Room \in Nat
         /\ IsFiniteSet(Again) /\ Cardinality(Again) \in Nat
         /\ Cardinality(Again) <= Cardinality(Caller)
         /\ \A c \in Caller : IsFiniteSet(Caller \ {c})
                              /\ Cardinality(Caller \ {c}) = Cardinality(Caller) - 1
  <1>1. IsFiniteSet(Caller) /\ Cardinality(Caller) \in Nat
    BY RouterAssumption, FS_CardinalityType
  <1>2. Tried \in SUBSET Model /\ Again \in SUBSET Caller
    BY DEF Tried, Again
  <1>3. IsFiniteSet(Tried) /\ IsFiniteSet(Again) /\ Cardinality(Again) <= Cardinality(Caller)
    BY <1>1, <1>2, PoolSize, FS_Subset
  <1>4. Cardinality(Tried) \in Nat /\ Cardinality(Again) \in Nat
    BY <1>3, FS_CardinalityType
  <1>5. \A c \in Caller : IsFiniteSet(Caller \ {c})
                          /\ Cardinality(Caller \ {c}) = Cardinality(Caller) - 1
    BY <1>1, FS_RemoveElement
  <1>6. Room \in Nat
    BY <1>1, <1>4 DEF Room
  <1> QED
    BY <1>1, <1>2, <1>3, <1>4, <1>5, <1>6

\* While a candidate is still to be tried, there are no more outcomes than
\* the others leave room for.
LEMMA WithinBudget ==
  ASSUME TypeOK, NEW i \in Model, i \notin Tried
  PROVE  /\ Budget \in Nat
         /\ Room <= Budget
  <1> DEFINE C == Cardinality(Caller)
             T == Cardinality(Tried)
             L == Len(Pool) - 1
  <1>1. Tried \in SUBSET (Model \ {i})
    BY Sizes
  <1>2. T \in 0..L /\ L \in Nat /\ C \in Nat
    BY <1>1, PoolSize, Sizes
  <1> HIDE DEF C, T, L
  <1>3. L \in 0..L
    BY <1>2
  <1>4. C * T \in Nat /\ C * L \in Nat /\ C * T <= C * L /\ C * L = L * C
    BY <1>2, <1>3, Products
  <1>5. Budget = L * C /\ Room = C * T
    BY DEF Budget, Room, L, C, T
  <1> QED
    BY <1>4, <1>5

----------------------------------------------------------------------------
(***************************************************************************)
(* Every action keeps the invariant                                        *)
(***************************************************************************)

\* A choice among the candidates that a policy leaves.
LEMMA SelectKeeps ==
  ASSUME IInv, up, NEW c \in Caller, NEW M \in SUBSET Model, M # {}, Select(c, M),
         shut \subseteq shut', shut' \subseteq Model, Model \ M \subseteq shut',
         UNCHANGED <<up, total, unread, clock, file, starts>>
  PROVE  IInv'
  <1>1. TypeOK /\ Down /\ Exploring /\ Waiting /\ Remembers
    BY DEF IInv
  <1>2. PICK m \in M :
          /\ call' = [call EXCEPT ![c] = m]
          /\ total < Threshold /\ (\E u \in M : Invoked(stats, u) = 0)
               => Invoked(stats, m) = 0
    BY <1>1, SelectOK
  <1>3. call[c] = None /\ StatsOK(stats') /\ \A n \in Model : Invoked(stats', n) = Invoked(stats, n)
    BY <1>1, SelectOK
  <1>4. TypeOK'
    <2>1. call' \in [Caller -> Model \cup {None}]
      BY <1>1, <1>2, TypeWords
    <2> QED
      BY <1>1, <1>3, <2>1 DEF TypeOK, StatsOK, Registered, clock
  <1>5. Down'
    BY DEF Down
  <1>6. Exploring'
    <2>1. Tried' = Tried
      BY <1>3 DEF Tried
    <2>2. CASE Model \subseteq Tried \cup shut'
      BY <2>1, <2>2 DEF Exploring
    <2>3. ASSUME NEW i \in Model, i \notin Tried \cup shut' PROVE Exploring'
      <3>1. i \in M /\ i \notin shut
        BY <2>3
      <3>2. Room' = Room /\ total' = total
        BY <2>1 DEF Room
      <3>3. total \in Nat /\ Threshold \in Nat
        BY <1>1, RouterAssumption DEF TypeOK
      <3>4. CASE total < Threshold
        <4>1. Invoked(stats, i) = 0
          BY <1>1, <2>3, InvokedNat, TypeWords DEF Tried
        <4>2. Invoked(stats, m) = 0
          BY <1>2, <3>1, <3>4, <4>1
        <4>3. m \notin Tried /\ None \notin Tried
          BY <4>2, RouterAssumption DEF Tried
        <4>4. Again' = Again
          <5>1. ASSUME NEW d \in Caller PROVE call'[d] \in Tried <=> call[d] \in Tried
            BY <1>1, <1>2, <1>3, <4>3, TypeWords
          <5> QED
            BY <2>1, <5>1 DEF Again
        <4>5. total <= Threshold /\ total <= Room /\ total + Cardinality(Again) <= Room
          BY <1>1, <2>3, <3>1, <3>3, <3>4 DEF Exploring
        <4> QED
          BY <3>2, <4>4, <4>5 DEF Exploring
      <3>5. CASE ~(total < Threshold)
        BY <1>1, <2>3, <3>1, <3>2, <3>5 DEF Exploring
      <3> QED
        BY <3>4, <3>5
    <2> QED
      BY <2>2, <2>3
  <1>7. Waiting' /\ Remembers'
    <2>1. UNCHANGED <<file, slept, waiting, faults, up, unread>>
      BY DEF clock
    <2>2. \A n \in Model : Saved(n)' = Saved(n) /\ Invoked(stats, n)' = Invoked(stats, n)
      BY <1>3, <2>1 DEF Saved
    <2> QED
      BY <1>1, <2>1, <2>2 DEF Waiting, Remembers
  <1> QED
    BY <1>4, <1>5, <1>6, <1>7 DEF IInv

\* record_outcome(): one outcome more, and one call of its model fewer to come.
LEMMA RecordKeeps ==
  ASSUME IInv, NEW c \in Caller, RecordOutcome(c)
  PROVE  IInv'
  <1>1. TypeOK /\ Down /\ Exploring /\ Waiting /\ Remembers
    BY DEF IInv
  <1> DEFINE m == call[c]
  <1>2. m \in Model /\ up /\ call' = [call EXCEPT ![c] = None] /\ total' = total + 1
        /\ waiting' = (IF waiting = None THEN 0 ELSE waiting)
        /\ UNCHANGED <<up, shut, unread, slept, faults, file, starts>>
    BY <1>1 DEF RecordOutcome, TypeOK
  <1>3. PICK success \in BOOLEAN, passes \in BOOLEAN :
          stats' = Recorded(stats, m, success, passes)
    BY DEF RecordOutcome
  <1> HIDE DEF m
  <1>4. /\ StatsOK(stats')
        /\ Invoked(stats, m) \in Nat
        /\ Invoked(stats', m) = Invoked(stats, m) + 1
        /\ \A n \in Model \ {m} : Invoked(stats', n) = Invoked(stats, n)
    <2>1. StatsOK(stats)
      BY <1>1, TypeWords
    <2> QED
      BY <1>2, <1>3, <2>1, RecordedOK
  <1>5. TypeOK'
    <2>1. waiting' \in Nat /\ total' \in Nat /\ call' \in [Caller -> Model \cup {None}]
      BY <1>1, <1>2 DEF TypeOK
    <2> QED
      BY <1>1, <1>2, <1>4, <2>1 DEF TypeOK, StatsOK, Registered
  <1>6. Down'
    BY <1>2 DEF Down
  <1>7. Exploring'
    <2>1. Tried' = Tried \cup {m}
      BY <1>2, <1>4 DEF Tried
    <2>2. None \notin Tried' /\ None \notin Tried
      BY RouterAssumption DEF Tried
    <2>3. \A d \in Caller : call'[d] = IF d = c THEN None ELSE call[d]
      BY <1>1, <1>2 DEF TypeOK
    <2>4. Again' = {d \in Caller \ {c} : call[d] \in Tried \cup {m}}
      BY <2>1, <2>2, <2>3 DEF Again
    <2>5. CASE Model \subseteq Tried \cup shut
      BY <1>2, <2>1, <2>5 DEF Exploring
    <2>6. CASE total > Threshold /\ Threshold <= Budget
      <3>1. total \in Nat /\ Threshold \in Nat
        BY <1>1, RouterAssumption DEF TypeOK
      <3> QED
        BY <1>2, <2>6, <3>1 DEF Exploring
    <2>7. CASE total = Threshold /\ total <= Room
      <3>1. CASE Model \subseteq Tried' \cup shut'
        BY <3>1 DEF Exploring
      <3>2. ASSUME NEW i \in Model, i \notin Tried' \cup shut' PROVE Exploring'
        <4>1. i \notin Tried
          BY <2>1, <3>2
        <4>2. Budget \in Nat /\ Room <= Budget /\ Room \in Nat
          BY <1>1, <4>1, WithinBudget, Sizes
        <4>3. Budget' = Budget /\ total \in Nat /\ Threshold \in Nat
          BY <1>1, RouterAssumption DEF Budget, TypeOK
        <4>4. total' > Threshold /\ Threshold <= Budget
          BY <1>2, <2>7, <4>2, <4>3
        <4> QED
          BY <4>3, <4>4 DEF Exploring
      <3> QED
        BY <3>1, <3>2
    <2>8. CASE total < Threshold /\ total + Cardinality(Again) <= Room
      <3> DEFINE C == Cardinality(Caller)
                 T == Cardinality(Tried)
                 A == Cardinality(Again)
                 A2 == Cardinality(Again')
      <3>1. C \in Nat /\ T \in Nat /\ A \in Nat /\ total \in Nat /\ Room = C * T
        BY <1>1, Sizes DEF TypeOK, Room
      <3>2. A2 \in Nat /\ total' + A2 <= Room'
        <4>1. CASE m \in Tried
          <5>1. Again' = Again \ {c} /\ c \in Again
            BY <2>4, <4>1 DEF Again, m
          <5>2. A2 = A - 1 /\ A2 \in Nat
            BY <1>1, <5>1, Sizes, FS_RemoveElement, FS_CardinalityType
          <5>3. Room' = Room
            BY <2>1, <4>1 DEF Room
          <5>4. total' + A2 = total + A
            BY <1>2, <3>1, <5>2
          <5> QED
            BY <2>8, <5>2, <5>3, <5>4
        <4>2. CASE m \notin Tried
          <5>1. Cardinality(Tried') = T + 1
            BY <1>1, <2>1, <4>2, Sizes, FS_AddElement
          <5>2. Again' \in SUBSET (Caller \ {c})
            BY <2>4
          <5>3. A2 \in Nat /\ A2 <= C - 1
            <6>1. IsFiniteSet(Caller \ {c}) /\ Cardinality(Caller \ {c}) = C - 1
              BY <1>1, Sizes
            <6> QED
              BY <5>2, <6>1, FS_Subset, FS_CardinalityType
          <5>4. C * (T + 1) = C * T + C /\ C * T \in Nat
            <6> HIDE DEF C, T
            <6>1. T \in 0..T
              BY <3>1
            <6> QED
              BY <3>1, <6>1, Products
          <5>5. Room' = Room + C /\ Room \in Nat
            BY <3>1, <5>1, <5>4 DEF Room
          <5>6. total + A <= Room /\ total' = total + 1
            BY <1>2, <2>8
          <5> HIDE DEF A2, C, T, A
          <5> QED
            BY <3>1, <5>3, <5>5, <5>6
        <4> QED
          BY <4>1, <4>2
      <3>3. Room' \in Nat
        <4>1. Tried' \in SUBSET Model
          BY DEF Tried
        <4>2. Cardinality(Tried') \in Nat
          BY <4>1, PoolSize, FS_Subset, FS_CardinalityType
        <4> QED
          BY <3>1, <4>2 DEF Room
      <3>4. total' <= Threshold /\ total' <= Room'
        <4>1. total' = total + 1 /\ Threshold \in Nat
          BY <1>2, RouterAssumption
        <4> HIDE DEF A2
        <4> QED
          BY <2>8, <3>1, <3>2, <3>3, <4>1
      <3> QED
        BY <3>2, <3>4 DEF Exploring
    <2> QED
      <3>1. total \in Nat /\ Threshold \in Nat
        BY <1>1, RouterAssumption DEF TypeOK
      <3> QED
        BY <1>1, <2>5, <2>6, <2>7, <2>8, <3>1 DEF Exploring
  <1>8. Waiting'
    <2>1. waiting' # None /\ faults \in Nat /\ slept \in Nat
      BY <1>1, <1>2, RouterAssumption DEF TypeOK
    <2>2. faults * (Interval + Lag) \in Nat
      BY <2>1, RouterAssumption
    <2> DEFINE W == faults * (Interval + Lag)
    <2>3. waiting' <= W + slept
      <3>1. waiting = None \/ waiting <= W + slept
        BY <1>1 DEF Waiting
      <3>2. W \in Nat
        BY <2>2
      <3> HIDE DEF W
      <3>3. CASE waiting = None
        BY <1>2, <2>1, <3>2, <3>3
      <3>4. CASE waiting # None
        BY <1>2, <3>1, <3>4
      <3> QED
        BY <3>3, <3>4
    <2> QED
      BY <1>2, <2>1, <2>3 DEF Waiting
  <1>9. Remembers'
    <2>1. \A n \in Model : Saved(n)' = Saved(n) /\ Saved(n) \in Nat
      BY <1>1, <1>2, SavedNat, TypeWords DEF Saved
    <2>2. \A n \in Model : Invoked(stats', n) >= Invoked(stats, n) /\ Invoked(stats', n) \in Nat
                           /\ Invoked(stats, n) \in Nat
      BY <1>1, <1>4, InvokedNat, TypeWords
    <2> QED
      BY <1>1, <1>2, <2>1, <2>2 DEF Remembers
  <1> QED
    BY <1>5, <1>6, <1>7, <1>8, <1>9 DEF IInv

\* A call that nobody reports leaves room for no more than it had.
LEMMA ForgetKeeps ==
  ASSUME IInv, NEW c \in Caller, Forget(c)
  PROVE  IInv'
  <1>1. TypeOK /\ Down /\ Exploring /\ Waiting /\ Remembers
    BY DEF IInv
  <1>2. up /\ call' = [call EXCEPT ![c] = None]
        /\ UNCHANGED <<up, stats, total, shut, unread, slept, waiting, faults, file, starts>>
    BY DEF Forget, clock
  <1>3. TypeOK'
    BY <1>1, <1>2 DEF TypeOK, Registered
  <1>4. Down' /\ Waiting' /\ Remembers'
    BY <1>1, <1>2 DEF Down, Waiting, Remembers, Saved
  <1>5. Exploring'
    <2>1. Tried' = Tried /\ None \notin Tried
      BY <1>2, RouterAssumption DEF Tried
    <2>2. Again' \in SUBSET Again
      BY <1>1, <1>2, <2>1 DEF Again, TypeOK
    <2>3. IsFiniteSet(Again') /\ Cardinality(Again') <= Cardinality(Again)
      BY <1>1, <2>2, Sizes, FS_Subset
    <2>4. Cardinality(Again') \in Nat /\ Cardinality(Again) \in Nat /\ total \in Nat
      BY <1>1, <2>3, Sizes, FS_CardinalityType DEF TypeOK
    <2>5. Room' = Room /\ Room \in Nat
      BY <1>1, <2>1, Sizes DEF Room
    <2>6. total + Cardinality(Again) <= Room => total + Cardinality(Again') <= Room
      <3> DEFINE A == Cardinality(Again)
                 A2 == Cardinality(Again')
      <3>1. A \in Nat /\ A2 \in Nat /\ A2 <= A
        BY <2>3, <2>4
      <3> HIDE DEF A, A2
      <3>2. total + A <= Room => total + A2 <= Room
        BY <2>4, <2>5, <3>1
      <3> QED
        BY <3>2 DEF A, A2
    <2> QED
      BY <1>1, <1>2, <2>1, <2>5, <2>6 DEF Exploring
  <1> QED
    BY <1>3, <1>4, <1>5 DEF IInv

\* A save that succeeds writes what is in memory, one that fails nothing.
LEMMA SaverKeeps ==
  ASSUME IInv, SaverWakes
  PROVE  IInv'
  <1>1. TypeOK /\ Down /\ Exploring /\ Waiting /\ Remembers
    BY DEF IInv
  <1>2. up /\ slept' = 0 /\ UNCHANGED <<up, stats, total, call, shut, unread, starts>>
        /\ \E done \in BOOLEAN : SaveRouter(done)
    BY DEF SaverWakes, process
  <1>3. Down' /\ Exploring'
    BY <1>1, <1>2 DEF Down, Exploring, Room, Tried, Again
  <1>4. StatsOK(stats) /\ FileOK(file) /\ slept \in 0..(Interval + Lag) /\ faults \in Nat
        /\ Interval \in Nat /\ Lag \in Nat
    BY <1>1, TypeWords, RouterAssumption
  <1>5. CASE SaveRouter(TRUE)
    <2>1. file' = DumpState(stats) /\ faults' = 0 /\ waiting' = None
      BY <1>5 DEF SaveRouter
    <2>2. file' # None /\ FileOK(file') /\ \A m \in Model : Saved(m)' = Invoked(stats, m)
      BY <1>4, <2>1, DumpOK DEF Saved
    <2>3. TypeOK'
      BY <1>1, <1>2, <1>4, <2>1, <2>2 DEF TypeOK, FileOK, Registered
    <2>4. \A m \in Model : Invoked(stats, m) \in Nat
      BY <1>4, InvokedNat
    <2>5. Waiting' /\ Remembers'
      BY <1>2, <2>1, <2>2, <2>4 DEF Waiting, Remembers
    <2> QED
      BY <1>3, <2>3, <2>5 DEF IInv
  <1>6. CASE SaveRouter(FALSE)
    <2>1. faults' = faults + 1 /\ UNCHANGED <<file, waiting>>
      BY <1>6 DEF SaveRouter
    <2>2. TypeOK'
      BY <1>1, <1>2, <1>4, <2>1 DEF TypeOK, Registered
    <2>3. Remembers'
      BY <1>1, <1>2, <2>1 DEF Remembers, Saved
    <2>4. Waiting'
      <3>1. CASE waiting = None
        BY <1>1, <1>2, <2>1, <3>1 DEF Waiting, Saved
      <3>2. CASE waiting # None
        <4> DEFINE L == Interval + Lag
        <4>1. L \in Nat /\ waiting <= faults * L + slept /\ slept <= L /\ slept \in Nat
              /\ waiting \in Nat
          BY <1>1, <1>4, <3>2 DEF Waiting, TypeOK
        <4>2. (faults + 1) * L = faults * L + L /\ faults * L \in Nat
          BY <1>4, <4>1
        <4>3. waiting <= (faults + 1) * L + 0
          <5> DEFINE F == faults * L
          <5>1. F \in Nat /\ (faults + 1) * L = F + L /\ waiting <= F + slept
            BY <4>1, <4>2
          <5> HIDE DEF F, L
          <5> QED BY <4>1, <5>1
        <4> QED
          BY <1>2, <2>1, <3>2, <4>3 DEF Waiting
      <3> QED
        BY <3>1, <3>2
    <2> QED
      BY <1>3, <2>2, <2>3, <2>4 DEF IInv
  <1> QED
    BY <1>2, <1>5, <1>6

\* What a process has when it is over: nothing.
LEMMA BlankKeeps ==
  ASSUME IInv, Blank, up' = FALSE, UNCHANGED starts,
         file' = file \/ file' = DumpState(stats)
  PROVE  IInv'
  <1>1. TypeOK
    BY DEF IInv
  <1>2. FileOK(file')
    BY <1>1, TypeWords, DumpOK
  <1>3. stats' = NoStats /\ total' = 0 /\ call' = [c \in Caller |-> None] /\ slept' = 0
        /\ faults' = 0 /\ waiting' = None /\ shut' = {} /\ unread' = FALSE
    BY DEF Blank
  <1>4. TypeOK'
    <2>1. 0 \in 0..(Interval + Lag)
      BY RouterAssumption
    <2>2. stats' \in [Model -> ModelStats \cup {None}] /\ Registered' = {}
      BY <1>3 DEF Registered, NoStats
    <2> QED
      BY <1>1, <1>2, <1>3, <2>1, <2>2 DEF TypeOK, FileOK
  <1>5. Down'
    BY <1>3 DEF Down, NoStats
  <1>6. Exploring'
    <2>1. Tried' = {}
      BY <1>3 DEF Tried, Invoked, NoStats
    <2>2. Again' = {}
      BY <2>1 DEF Again
    <2>3. Cardinality(Caller) \in Nat /\ Threshold \in Nat
      BY <1>1, Sizes, RouterAssumption
    <2> QED
      BY <1>3, <2>1, <2>2, <2>3, FS_EmptySet DEF Exploring, Room
  <1>7. Waiting'
    <2>1. \A m \in Model : Invoked(stats', m) = 0
      BY <1>3 DEF Invoked, NoStats
    <2>2. \A m \in Model : Saved(m)' \in Nat
      <3>1. CASE file' = None
        BY <3>1 DEF Saved
      <3>2. CASE file' # None
        <4>1. PICK M \in SUBSET Model : file' \in [M -> ModelStats]
          BY <1>2, <3>2 DEF FileOK, IsSnapshot
        <4> QED
          BY <3>2, <4>1 DEF Saved, ModelStats
      <3> QED
        BY <3>1, <3>2
    <2> QED
      BY <1>3, <2>1, <2>2 DEF Waiting
  <1>8. Remembers'
    BY DEF Remembers
  <1> QED
    BY <1>4, <1>5, <1>6, <1>7, <1>8 DEF IInv

\* A process starts with no more than what the snapshot has.
LEMMA StartKeeps ==
  ASSUME IInv, Start
  PROVE  IInv'
  <1>1. TypeOK /\ Down
    BY DEF IInv
  <1>2. ~up /\ up' /\ up' \in BOOLEAN /\ starts' = starts + 1
        /\ UNCHANGED <<total, call, shut, slept, waiting, faults, file>>
    BY DEF Start, clock
  <1>3. total = 0 /\ waiting = None /\ shut = {} /\ call = [c \in Caller |-> None]
    BY <1>1, <1>2 DEF Down
  <1>4. PICK known \in SUBSET Model, readable \in BOOLEAN :
          /\ stats' = IF file # None /\ readable
                      THEN LoadState(Ensured(NoStats, known), file)
                      ELSE Ensured(NoStats, known)
          /\ unread' = ~readable
    BY DEF Start
  <1> DEFINE s == Ensured(NoStats, known)
  <1>5. StatsOK(s) /\ \A m \in Model : Invoked(s, m) = 0
    <2>1. StatsOK(NoStats) /\ \A m \in Model : Invoked(NoStats, m) = 0
      BY DEF StatsOK, NoStats, Invoked
    <2> QED
      BY <2>1, EnsuredOK
  <1> HIDE DEF s
  <1>6. FileOK(file)
    BY <1>1, TypeWords
  <1>7. /\ StatsOK(stats')
        /\ \A m \in Model : Invoked(stats', m) = IF readable THEN Saved(m) ELSE 0
    <2>1. CASE file # None /\ readable
      <3>1. stats' = LoadState(s, file)
        BY <1>4, <2>1 DEF s
      <3> QED
        BY <1>5, <1>6, <2>1, <3>1, LoadOK DEF Saved
    <2>2. CASE ~(file # None /\ readable)
      <3>1. stats' = s
        BY <1>4, <2>2 DEF s
      <3> QED
        BY <1>5, <2>2, <3>1 DEF Saved
    <2> QED
      BY <2>1, <2>2
  <1>8. \A m \in Model : Saved(m) \in Nat /\ Saved(m)' = Saved(m)
    BY <1>2, <1>6, SavedNat DEF Saved
  <1>9. TypeOK'
    BY <1>1, <1>2, <1>4, <1>7 DEF TypeOK, StatsOK, Registered
  <1>10. Down'
    BY <1>2 DEF Down
  <1>11. Exploring'
    <2>1. Again' = {}
      BY <1>2, <1>3, RouterAssumption DEF Again, Tried
    <2>2. Tried' \in SUBSET Model
      BY DEF Tried
    <2>3. Cardinality(Tried') \in Nat /\ Cardinality(Caller) \in Nat
      BY <1>1, <2>2, Sizes, PoolSize, FS_Subset, FS_CardinalityType
    <2>4. Cardinality(Again') = 0 /\ total' = 0
      BY <1>2, <1>3, <2>1, FS_EmptySet
    <2>5. Room' \in Nat /\ Threshold \in Nat
      BY <2>3, RouterAssumption DEF Room
    <2> QED
      BY <2>4, <2>5 DEF Exploring
  <1>12. Waiting'
    BY <1>2, <1>3, <1>7, <1>8 DEF Waiting
  <1>13. Remembers'
    <2> SUFFICES ASSUME ~unread', NEW m \in Model
                 PROVE  Saved(m)' <= Invoked(stats, m)'
      BY DEF Remembers
    <2>1. readable
      BY <1>4
    <2> QED
      BY <1>7, <1>8, <2>1
  <1> QED
    BY <1>9, <1>10, <1>11, <1>12, <1>13 DEF IInv

\* A tick adds as much to the wait as to the sleep.
LEMMA TickKeeps ==
  ASSUME IInv, Tick
  PROVE  IInv'
  <1>1. TypeOK /\ Down /\ Exploring /\ Waiting /\ Remembers
    BY DEF IInv
  <1>2. up /\ slept < Interval + Lag /\ slept' = slept + 1
        /\ waiting' = (IF waiting = None THEN None ELSE waiting + 1)
        /\ UNCHANGED <<up, stats, total, call, shut, unread, faults, file, starts>>
    BY DEF Tick, process
  <1>3. slept \in Nat /\ faults \in Nat /\ Interval \in Nat /\ Lag \in Nat
        /\ (waiting = None \/ waiting \in Nat)
    BY <1>1, RouterAssumption DEF TypeOK
  <1>4. TypeOK'
    <2>1. slept' \in 0..(Interval + Lag) /\ (waiting' = None \/ waiting' \in Nat)
      BY <1>2, <1>3
    <2> QED
      BY <1>1, <1>2, <2>1 DEF TypeOK, Registered
  <1>5. Down' /\ Exploring' /\ Remembers'
    BY <1>1, <1>2 DEF Down, Exploring, Room, Tried, Again, Remembers, Saved
  <1>6. Waiting'
    <2>1. CASE waiting = None
      BY <1>1, <1>2, <2>1 DEF Waiting, Saved
    <2>2. CASE waiting # None
      <3> DEFINE W == faults * (Interval + Lag)
      <3>1. W \in Nat /\ waiting <= W + slept /\ waiting \in Nat
        BY <1>1, <1>3, <2>2 DEF Waiting
      <3>2. waiting' # None /\ waiting' = waiting + 1
        BY <1>2, <2>2, <3>1, RouterAssumption
      <3>3. waiting' <= W + slept'
        <4> HIDE DEF W
        <4> QED BY <1>2, <1>3, <3>1, <3>2
      <3> QED
        BY <1>2, <3>2, <3>3 DEF Waiting
    <2> QED
      BY <2>1, <2>2
  <1> QED
    BY <1>4, <1>5, <1>6 DEF IInv

LEMMA InitInv == Init => IInv
  <1> SUFFICES ASSUME Init PROVE IInv
    OBVIOUS
  <1>1. TypeOK
    <2>1. 0 \in 0..(Interval + Lag)
      BY RouterAssumption
    <2>2. stats \in [Model -> ModelStats \cup {None}] /\ Registered = {}
      BY DEF Init, Registered, NoStats
    <2> QED
      BY <2>1, <2>2 DEF Init, TypeOK
  <1>2. Down /\ Remembers
    BY DEF Init, Down, Remembers
  <1>3. Tried = {} /\ Again = {} /\ \A m \in Model : Invoked(stats, m) = 0 /\ Saved(m) = 0
    BY DEF Init, Tried, Again, Invoked, NoStats, Saved
  <1>4. Exploring /\ Waiting
    <2>1. Cardinality({}) = 0 /\ Cardinality(Caller) \in Nat /\ Threshold \in Nat
      BY <1>1, Sizes, RouterAssumption, FS_EmptySet
    <2> QED
      BY <1>3, <2>1 DEF Init, Exploring, Room, Waiting
  <1> QED
    BY <1>1, <1>2, <1>4 DEF IInv

\* The candidates that are left to choose from.
LEMMA FilteredOK == Filtered \in SUBSET Model /\ Filtered # {} /\ Model # {}
  <1>1. Model # {}
    BY RouterAssumption DEF Model
  <1> QED
    BY <1>1 DEF Filtered, Passing

LEMMA NextInv == IInv /\ [Next]_vars => IInv'
  <1> SUFFICES ASSUME IInv, [Next]_vars PROVE IInv'
    OBVIOUS
  <1>1. ASSUME NEW c \in Caller, SelectModel(c) PROVE IInv'
    <2>1. up /\ Select(c, Model) /\ UNCHANGED <<up, total, shut, unread, clock, file, starts>>
      BY <1>1 DEF SelectModel
    <2>2. shut \subseteq Model /\ Model \in SUBSET Model
      BY DEF IInv, TypeOK
    <2> QED
      BY <2>1, <2>2, FilteredOK, SelectKeeps
  <1>2. ASSUME NEW c \in Caller, SelectWithPolicy(c) PROVE IInv'
    <2>1. up /\ Select(c, Filtered) /\ shut' = shut \cup (Model \ Filtered)
          /\ UNCHANGED <<up, total, unread, clock, file, starts>>
      BY <1>2 DEF SelectWithPolicy
    <2>2. shut \subseteq Model
      BY DEF IInv, TypeOK
    <2> QED
      BY <2>1, <2>2, FilteredOK, SelectKeeps
  <1>3. ASSUME NEW c \in Caller, RecordOutcome(c) PROVE IInv'
    BY <1>3, RecordKeeps
  <1>4. ASSUME NEW c \in Caller, Forget(c) PROVE IInv'
    BY <1>4, ForgetKeeps
  <1>5. CASE SaverWakes
    BY <1>5, SaverKeeps
  <1>6. CASE Exit
    BY <1>6, BlankKeeps DEF Exit
  <1>7. CASE Crash
    BY <1>7, BlankKeeps DEF Crash
  <1>8. CASE Start
    BY <1>8, StartKeeps
  <1>9. CASE Tick
    BY <1>9, TickKeeps
  <1>10. CASE UNCHANGED vars
    BY <1>10 DEF vars, process, clock, IInv, TypeOK, Registered, Down, Exploring, Room, Tried,
       Again, Waiting, Remembers, Saved
  <1> QED
    BY <1>1, <1>2, <1>3, <1>4, <1>5, <1>6, <1>7, <1>8, <1>9, <1>10 DEF Next

----------------------------------------------------------------------------
(***************************************************************************)
(* The theorems                                                            *)
(***************************************************************************)

LEMMA Invariant == Spec => []IInv
  BY InitInv, NextInv, PTL DEF Spec

\* Every variable stays in its range, and a posterior says what the counts
\* say, in memory and in the snapshot.
THEOREM TypeCorrect == Spec => []TypeOK
  <1>1. IInv => TypeOK
    BY DEF IInv
  <1> QED
    BY <1>1, Invariant, PTL

\* As long as UCB1 is at work, the outcomes recorded are no more than one of
\* each caller for each model that was tried, until every candidate has had its
\* turn or a policy kept it out: for any pool, callers and threshold.
THEOREM AlwaysExplored == Spec => []Explored
  <1>1. IInv => Explored
    <2> SUFFICES ASSUME IInv, total <= Threshold, ~(Model \subseteq Tried \cup shut)
                 PROVE  total <= Room
      BY DEF Explored, Room
    <2>1. total \in Nat /\ Threshold \in Nat
      BY RouterAssumption DEF IInv, TypeOK
    <2> QED
      BY <2>1 DEF IInv, Exploring
  <1> QED
    BY <1>1, Invariant, PTL

\* How high explore_threshold must be for UCB1 to test all candidates before
\* Thompson sampling takes over: above one outcome of every caller for each
\* model but one.  The code enforces no such thing.
THEOREM TestedAboveBudget == Spec => [](Threshold > Budget => CandidatesTested)
  <1>1. IInv => (Threshold > Budget => CandidatesTested)
    <2> SUFFICES ASSUME IInv, Threshold > Budget, total >= Threshold,
                        NEW i \in Model, i \notin Tried \cup shut
                 PROVE  FALSE
      BY DEF CandidatesTested
    <2>1. Budget \in Nat /\ Room <= Budget /\ Room \in Nat
      BY WithinBudget, Sizes DEF IInv
    <2>2. total \in Nat /\ Threshold \in Nat
      BY RouterAssumption DEF IInv, TypeOK
    <2>3. ~(Threshold <= Budget)
      BY <2>1, <2>2
    <2>4. total <= Room
      BY <2>3 DEF IInv, Exploring
    <2> QED
      BY <2>1, <2>2, <2>4
  <1> QED
    BY <1>1, Invariant, PTL

\* An outcome is in the snapshot within an interval, and one more for every
\* save that failed since.
THEOREM LossAlwaysBounded == Spec => []LossBounded
  <1>1. IInv => LossBounded
    <2> SUFFICES ASSUME IInv PROVE LossBounded
      OBVIOUS
    <2>1. CASE waiting = None
      BY <2>1 DEF IInv, Waiting, LossBounded
    <2>2. CASE waiting # None
      <3> DEFINE L == Interval + Lag
                 F == faults * L
      <3>1. L \in Nat /\ faults \in Nat /\ slept \in 0..L /\ waiting \in Nat
            /\ waiting <= F + slept
        BY <2>2, RouterAssumption DEF IInv, TypeOK, Waiting
      <3>2. (faults + 1) * L = F + L /\ F \in Nat
        BY <3>1
      <3>3. waiting <= (faults + 1) * L
        <4> HIDE DEF L, F
        <4> QED BY <3>1, <3>2
      <3> QED
        BY <2>2, <3>3 DEF LossBounded
    <2> QED
      BY <2>1, <2>2
  <1> QED
    BY <1>1, Invariant, PTL

\* A save loses nothing the snapshot had, unless the process had started
\* without being able to read it.
THEOREM SnapshotAlwaysGrows == Spec => SnapshotGrows
  <1>1. IInv /\ [Next]_vars => [~unread => \A m \in Model : Saved(m)' >= Saved(m)]_vars
    <2> SUFFICES ASSUME IInv, Next, ~unread, NEW m \in Model PROVE Saved(m)' >= Saved(m)
      OBVIOUS
    <2>1. Saved(m) \in Nat /\ StatsOK(stats) /\ Remembers
      BY SavedNat, TypeWords DEF IInv
    <2>2. CASE file' = file
      BY <2>1, <2>2 DEF Saved
    <2>3. CASE up /\ file' = DumpState(stats)
      <3>1. Saved(m)' = Invoked(stats, m) /\ Invoked(stats, m) \in Nat
        BY <2>1, <2>3, DumpOK, InvokedNat DEF Saved
      <3>2. Saved(m) <= Invoked(stats, m)
        BY <2>1, <2>3 DEF Remembers
      <3> QED
        BY <2>1, <3>1, <3>2
    <2>4. file' = file \/ (up /\ file' = DumpState(stats))
      BY DEF Next, SelectModel, SelectWithPolicy, RecordOutcome, Forget, SaverWakes,
         SaveRouter, Exit, Crash, Start, Tick
    <2> QED
      BY <2>2, <2>3, <2>4
  <1> QED
    BY <1>1, Invariant, PTL DEF Spec, SnapshotGrows

=============================================================================
