------------------------------ MODULE SdkProofs ------------------------------
(***************************************************************************)
(* What TLAPS proves, for every value of the constants, of what hangs on the *)
(* registries of sdk.py: the registries of agents and the discovery of     *)
(* models that fills them (Discovery), and the registry of workflows with  *)
(* the command that runs them (StepRunner).  The two do not know of each   *)
(* other, and are proved one after the other.                              *)
(***************************************************************************)
EXTENDS Discovery, StepRunner, LoopLemmas, SequenceTheorems, FiniteSetTheorems

----------------------------------------------------------------------------
(***************************************************************************)
(* Registries of agents, and discovery                                     *)
(***************************************************************************)

\* The clocks have their types, and what StaleBounded says.
Clocks ==
  /\ asked \in BOOLEAN
  /\ age \in 0..Stale
  /\ sleep \in NoTask..Interval
  /\ StaleBounded

\* What the assumption says of the clocks.
LEMMA Periods == TTL \in Nat /\ Interval \in Nat /\ Interval > 0
  BY DiscoveryAssumption

LEMMA Shift == \A x, y, z \in Int : x < y => x + z < y + z
  OBVIOUS

LEMMA ClocksAtStart == Init => Clocks
  <1>1. Stale \in 0..Stale /\ NoTask \in NoTask..Interval /\ ~(NoTask > 0)
    BY Periods DEF Stale, NoTask
  <1>2. FALSE \in BOOLEAN
    OBVIOUS
  <1> QED
    BY <1>1, <1>2 DEF Init, Clocks, StaleBounded

\* A refresh only makes the snapshot younger, and leaves a fresh one.
LEMMA RefreshIsFresh ==
  ASSUME Clocks, Refresh
  PROVE  /\ asked' = TRUE
         /\ age' \in 0..Stale
         /\ age' <= age
         /\ age' < TTL \/ age' = 0
  <1>1. CASE IsFresh /\ UNCHANGED <<registry, asked, found, age>>
    BY <1>1 DEF IsFresh, Clocks, Stale
  <1>2. CASE asked' = TRUE /\ age' = 0
    <2>1. 0 \in 0..Stale /\ 0 <= age
      BY Periods DEF Clocks, Stale
    <2> QED
      BY <1>2, <2>1
  <1> QED
    BY <1>1, <1>2 DEF Refresh

LEMMA ClocksStep ==
  ASSUME Clocks, [Next]_vars
  PROVE  Clocks'
  <1>1. CASE CallRefresh
    <2>1. /\ asked' = TRUE
          /\ age' \in 0..Stale
          /\ age' <= age
          /\ sleep' = sleep
      BY <1>1, RefreshIsFresh DEF CallRefresh
    <2>2. age' = age \/ age' = 0
      BY <1>1 DEF CallRefresh, Refresh
    <2>3. age \in Int /\ sleep \in Int /\ sleep <= Interval
      BY Periods DEF Clocks, Stale, NoTask
    <2>4. age' + sleep < TTL + Interval \/ age' + sleep <= Interval
          \/ ~(sleep > 0)
      BY <2>2, <2>3, Periods DEF Clocks, StaleBounded
    <2>5. StaleBounded'
      BY <2>1, <2>4 DEF StaleBounded
    <2> QED
      BY <2>1, <2>5 DEF Clocks, Stale, NoTask
  <1>2. CASE StartBackground
    BY <1>2, Periods DEF StartBackground, Clocks, StaleBounded, Stale, NoTask
  <1>3. CASE StopBackground
    BY <1>3, Periods DEF StopBackground, Clocks, StaleBounded, Stale, NoTask
  <1>4. CASE BackgroundTurn
    <2>1. /\ asked' = TRUE
          /\ age' \in 0..Stale
          /\ age' < TTL \/ age' = 0
          /\ sleep' = Interval
      BY <1>4, RefreshIsFresh DEF BackgroundTurn
    <2>2. Interval \in NoTask..Interval
      BY Periods DEF NoTask
    <2>3. age' \in Int
      BY <2>1, Periods DEF Stale
    <2>4. age' + Interval < TTL + Interval \/ age' + Interval <= Interval
      <3>1. CASE age' < TTL
        <4>1. age' \in Int /\ TTL \in Int /\ Interval \in Int
          BY <2>3, Periods
        <4> QED
          BY <3>1, <4>1, Shift
      <3>2. CASE age' = 0
        BY <3>2, Periods
      <3> QED
        BY <2>1, <3>1, <3>2
    <2>5. StaleBounded'
      BY <2>1, <2>4 DEF StaleBounded
    <2>6. sleep' \in NoTask..Interval
      BY <2>1, <2>2 DEF NoTask
    <2>7. asked' \in BOOLEAN
      BY <2>1
    <2> QED
      BY <2>1, <2>5, <2>6, <2>7 DEF Clocks, Stale, NoTask
  <1>5. CASE Tick
    BY <1>5, Periods DEF Tick, Clocks, StaleBounded, Stale, NoTask
  <1>6. CASE UseRegistry
    <2>1. asked' = asked /\ age' = age /\ sleep' = sleep
      BY <1>6 DEF UseRegistry
    <2> QED
      BY <2>1, Periods DEF Clocks, StaleBounded, Stale, NoTask
  <1>7. CASE DiscoverAndRegister
    <2>1. asked' = asked /\ age' = age /\ sleep' = sleep
      BY <1>7 DEF DiscoverAndRegister
    <2> QED
      BY <2>1, Periods DEF Clocks, StaleBounded, Stale, NoTask
  <1>8. CASE UNCHANGED vars
    BY <1>8, Periods DEF vars, Clocks, StaleBounded, Stale, NoTask
  <1> QED
    BY <1>1, <1>2, <1>3, <1>4, <1>5, <1>6, <1>7, <1>8 DEF Next

\* Whatever the API answers and however often it fails, whatever users call
\* and remove in between, a background task that sleeps wakes up before its
\* snapshot is ttl plus interval old (StaleBounded).
THEOREM StalenessIsBounded == Spec => []StaleBounded
  <1>1. Clocks => StaleBounded
    BY DEF Clocks
  <1>2. Clocks /\ [Next]_vars => Clocks'
    BY ClocksStep
  <1> QED
    BY <1>1, <1>2, ClocksAtStart, PTL DEF Spec

----------------------------------------------------------------------------
\* Of the registries saved by the open contexts, only the outermost may be the
\* one at home, it is not that of another context, and none was missing or
\* left behind by a context unless one was entered without a default.
Scoped ==
  /\ default \in Default /\ scopes \in Seq(Default) /\ unset \in BOOLEAN
  /\ Isolated
  /\ \A i \in DOMAIN scopes :
       /\ scopes[i] = "home" => i = Len(scopes)
       /\ scopes[i] = "open" => i < Len(scopes)
       /\ scopes[i] \in {"none", "left"} => unset

LEMMA ScopedAtStart == Init => Scoped
  <1> SUFFICES ASSUME Init PROVE Scoped
    OBVIOUS
  <1>1. default \in {"home", "none"} /\ scopes = <<>> /\ unset = FALSE
    BY DEF Init, NoAgents
  <1>2. scopes \in Seq(Default) /\ DOMAIN scopes = {}
    BY <1>1, EmptySeq
  <1> QED
    BY <1>1, <1>2 DEF Scoped, Isolated, Default

\* Entering saves the default in front of the others.
LEMMA EnterScoped ==
  ASSUME Scoped, EnterContext
  PROVE  Scoped'
  <1> DEFINE front == <<default>>
             n == Len(scopes)
  <1>1. /\ scopes' = front \o scopes /\ default' = "open"
        /\ unset' = (unset \/ default = "none")
    BY DEF EnterContext
  <1>2. scopes \in Seq(Default) /\ n \in Nat /\ DOMAIN scopes = 1..n
        /\ (n = 0 <=> scopes = <<>>)
    BY LenProperties, EmptySeq DEF Scoped
  <1>3. front \in Seq(Default) /\ Len(front) = 1 /\ front[1] = default
    BY DEF Scoped
  <1> HIDE DEF front, n
  <1>4. /\ scopes' \in Seq(Default) /\ Len(scopes') = 1 + n
        /\ \A i \in 1..(1 + n) : scopes'[i] = IF i <= 1 THEN default ELSE scopes[i - 1]
    <2>1. /\ front \o scopes \in Seq(Default)
          /\ Len(front \o scopes) = Len(front) + Len(scopes)
          /\ \A i \in 1..(Len(front) + Len(scopes)) :
               (front \o scopes)[i] = IF i <= Len(front) THEN front[i] ELSE scopes[i - Len(front)]
      BY <1>2, <1>3, ConcatProperties
    <2>2. \A i \in 1..(1 + Len(scopes)) : i <= 1 => front[i] = default
      <3> SUFFICES ASSUME NEW i \in 1..(1 + Len(scopes)), i <= 1 PROVE front[i] = default
        OBVIOUS
      <3>1. i = 1
        BY <1>2 DEF n
      <3> QED
        BY <1>3, <3>1
    <2> QED
      BY <1>1, <1>3, <2>1, <2>2 DEF n
  <1>5. DOMAIN scopes' = 1..(1 + n)
    BY <1>4, LenProperties
  <1>6. ASSUME NEW i \in DOMAIN scopes'
        PROVE  /\ scopes'[i] = "home" => i = Len(scopes')
               /\ scopes'[i] = "open" => i < Len(scopes')
               /\ scopes'[i] \in {"none", "left"} => unset'
    <2>1. CASE i = 1
      <3>1. scopes'[i] = default
        BY <1>2, <1>4, <2>1
      <3>2. default = "home" => n = 0
        BY <1>2 DEF Scoped, Isolated
      <3>3. default = "open" => n > 0
        BY <1>2 DEF Scoped, Isolated
      <3>4. default \in {"none", "left"} => unset'
        BY <1>1 DEF Scoped, Isolated
      <3> QED
        BY <1>2, <1>4, <2>1, <3>1, <3>2, <3>3, <3>4
    <2>2. CASE i # 1
      <3>1. i - 1 \in DOMAIN scopes /\ scopes'[i] = scopes[i - 1]
        BY <1>2, <1>4, <1>5, <2>2
      <3>2. /\ scopes[i - 1] = "home" => i - 1 = n
            /\ scopes[i - 1] = "open" => i - 1 < n
            /\ scopes[i - 1] \in {"none", "left"} => unset
        BY <3>1 DEF Scoped, n
      <3>3. Len(scopes') = 1 + n /\ i \in Int /\ n \in Int /\ (unset => unset')
        BY <1>1, <1>2, <1>4, <1>5 DEF Scoped
      <3>4. (i - 1 = n => i = 1 + n) /\ (i - 1 < n => i < 1 + n)
        BY <3>3
      <3> QED
        BY <3>1, <3>2, <3>3, <3>4
    <2> QED
      BY <2>1, <2>2
  <1>7. scopes' # <<>> /\ default' \in Default /\ unset' \in BOOLEAN
    <2>1. Len(scopes') # 0
      BY <1>2, <1>4
    <2> QED
      BY <1>1, <2>1, EmptySeq DEF Scoped, Default
  <1> QED
    BY <1>1, <1>4, <1>6, <1>7 DEF Scoped, Isolated

\* Leaving brings back what was saved last, if there was one.
LEMMA LeaveScoped ==
  ASSUME Scoped, LeaveContext
  PROVE  Scoped'
  <1> DEFINE n == Len(scopes)
  <1>1. /\ scopes # <<>> /\ scopes' = Tail(scopes) /\ unset' = unset
        /\ default' = IF scopes[1] # "none" THEN scopes[1]
                      ELSE IF default = "open" THEN "left" ELSE default
    BY DEF LeaveContext
  <1>2. scopes \in Seq(Default) /\ n \in Nat /\ DOMAIN scopes = 1..n /\ n # 0
    BY <1>1, LenProperties, EmptySeq DEF Scoped
  <1>3. /\ scopes' \in Seq(Default) /\ Len(scopes') = n - 1
        /\ \A i \in 1..(n - 1) : scopes'[i] = scopes[i + 1]
    BY <1>1, <1>2, HeadTailProperties
  <1> HIDE DEF n
  <1>4. DOMAIN scopes' = 1..(n - 1) /\ (n = 1 <=> scopes' = <<>>)
    <2>1. DOMAIN scopes' = 1..(n - 1)
      BY <1>2, <1>3, LenProperties
    <2>2. scopes' = <<>> <=> Len(scopes') = 0
      BY <1>3, EmptySeq
    <2> QED
      BY <1>2, <1>3, <2>1, <2>2
  <1>5. 1 \in DOMAIN scopes /\ scopes[1] \in Default
    BY <1>2, ElementOfSeq DEF n
  <1>6. /\ scopes[1] = "home" => n = 1
        /\ scopes[1] = "open" => 1 < n
        /\ scopes[1] \in {"none", "left"} => unset
    BY <1>5 DEF Scoped, n
  <1>7. Isolated /\ default # "home" /\ default \in Default
    BY <1>1 DEF Scoped, Isolated
  <1>8. default' \in Default
    BY <1>1, <1>5, <1>7 DEF Default
  <1>9. Isolated'
    <2>1. scopes' # <<>> => default' # "home"
      BY <1>1, <1>4, <1>6, <1>7
    <2>2. default' = "open" => scopes' # <<>>
      BY <1>1, <1>2, <1>4, <1>6
    <2>3. default' = "left" => unset'
      <3>1. CASE scopes[1] = "none"
        BY <1>1, <1>6, <3>1
      <3>2. CASE scopes[1] # "none"
        <4>1. default' = scopes[1]
          BY <1>1, <3>2
        <4> QED
          BY <1>1, <1>6, <4>1
      <3> QED
        BY <3>1, <3>2
    <2> QED
      BY <2>1, <2>2, <2>3 DEF Isolated
  <1>10. ASSUME NEW i \in DOMAIN scopes'
         PROVE  /\ scopes'[i] = "home" => i = Len(scopes')
                /\ scopes'[i] = "open" => i < Len(scopes')
                /\ scopes'[i] \in {"none", "left"} => unset'
    <2>1. i + 1 \in DOMAIN scopes /\ scopes'[i] = scopes[i + 1] /\ i \in Nat
      BY <1>2, <1>3, <1>4
    <2>2. /\ scopes[i + 1] = "home" => i + 1 = n
          /\ scopes[i + 1] = "open" => i + 1 < n
          /\ scopes[i + 1] \in {"none", "left"} => unset
      BY <2>1 DEF Scoped, n
    <2> QED
      BY <1>1, <1>2, <1>3, <2>1, <2>2
  <1> QED
    BY <1>1, <1>3, <1>8, <1>9, <1>10 DEF Scoped

\* Without a context that is entered or left, at most the default changes: it
\* is made, or is reset.
LEMMA DefaultScoped ==
  ASSUME Scoped, UNCHANGED <<scopes, unset>>, default' \in {default, "none", "fresh"}
  PROVE  Scoped'
  <1>1. default' \in Default
    BY DEF Scoped, Default
  <1>2. Isolated'
    BY DEF Scoped, Isolated
  <1> QED
    BY <1>1, <1>2 DEF Scoped

LEMMA ScopedStep ==
  ASSUME Scoped, [Next]_vars
  PROVE  Scoped'
  <1>1. CASE CallRefresh \/ StartBackground \/ StopBackground \/ BackgroundTurn \/ Tick
             \/ DiscoverAndRegister \/ UNCHANGED vars
    <2>1. UNCHANGED <<default, scopes, unset>>
      BY <1>1 DEF CallRefresh, StartBackground, StopBackground, BackgroundTurn, Tick,
                  DiscoverAndRegister, vars, registries
    <2> QED
      BY <2>1, DefaultScoped
  <1>2. CASE UseRegistry
    <2>1. CASE EnterContext
      BY <2>1, EnterScoped
    <2>2. CASE LeaveContext
      BY <2>2, LeaveScoped
    <2>3. CASE Clear \/ GetDefault \/ ResetDefault
      BY <2>3, DefaultScoped DEF Clear, GetDefault, ResetDefault, Ensured
    <2>4. ASSUME NEW name \in Name,
                 \/ Register(name, Own) \/ RegisterOrUpdate(name, Own) \/ RemoveAgent(name)
                 \/ Decorate(name, Own) \/ BuildAndRegister(name, Own)
          PROVE  Scoped'
      BY <2>4, DefaultScoped DEF Register, RegisterOrUpdate, RemoveAgent, Decorate,
                                 BuildAndRegister, Ensured
    <2> QED
      BY <1>2, <2>1, <2>2, <2>3, <2>4 DEF UseRegistry
  <1> QED
    BY <1>1, <1>2 DEF Next

\* However deep contexts nest, and however often the default is asked for and
\* reset among them, nothing is registered at home from within a context, and
\* nothing in a context's registry once it was left (Isolated).
THEOREM ContextsIsolate == Spec => []Isolated
  <1>1. Scoped => Isolated
    BY DEF Scoped
  <1>2. Scoped /\ [Next]_vars => Scoped'
    BY ScopedStep
  <1> QED
    BY <1>1, <1>2, ScopedAtStart, PTL DEF Spec

----------------------------------------------------------------------------
\* What Merged() has made of the registry after each model of the listing, as
\* its LET defines it.
MergedTo(listing) ==
  CHOOSE merged : merged = [i \in 0..Len(listing) |->
    IF i = 0 THEN [agents |-> registry, found |-> 0]
    ELSE Seen(merged[i - 1], listing[i])]

LEMMA MergedIsMergedTo ==
  \A listing : Merged(listing) = MergedTo(listing)[Len(listing)]
  BY DEF Merged, MergedTo

Agents == [Name -> Agent \cup {None}]
Seenable == [agents : Agents, found : 0..MaxModels]

LEMMA ConvertedType == \A m \in Model : Converted(m) \in Agent
  BY DEF Converted, Agent

\* The loop body registers at most what it counts, and counts to max_models.
LEMMA SeenType ==
  ASSUME NEW acc \in Seenable, NEW m \in Model
  PROVE  Seen(acc, m) \in Seenable
  <1>1. MaxModels \in Nat /\ NameOf[m] \in Name /\ Converted(m) \in Agent
    BY DiscoveryAssumption, ConvertedType
  <1>2. acc.agents \in Agents /\ acc.found \in 0..MaxModels
    BY DEF Seenable
  <1>3. CASE acc.found >= MaxModels
    BY <1>3 DEF Seen
  <1>4. CASE ~(acc.found >= MaxModels)
    <2>1. acc.found + 1 \in 0..MaxModels
      BY <1>1, <1>2, <1>4
    <2>2. [acc EXCEPT !.found = acc.found + 1] \in Seenable
      BY <2>1 DEF Seenable
    <2>3. [acc.agents EXCEPT ![NameOf[m]] = Converted(m)] \in Agents
      BY <1>1, <1>2 DEF Agents
    <2>4. [agents |-> [acc.agents EXCEPT ![NameOf[m]] = Converted(m)],
           found |-> acc.found + 1] \in Seenable
      BY <2>1, <2>3 DEF Seenable
    <2> QED
      BY <1>4, <2>2, <2>4 DEF Seen
  <1> QED
    BY <1>3, <1>4

LEMMA ListingIsSeq ==
  ASSUME NEW listing \in Listing
  PROVE  Len(listing) \in Nat /\ \A i \in 1..Len(listing) : listing[i] \in Model
  <1>1. Cardinality(Model) \in Nat
    BY DiscoveryAssumption, FS_CardinalityType
  <1>2. PICK n \in 0..Cardinality(Model) : listing \in [1..n -> Model]
    BY DEF Listing
  <1>3. n \in Nat
    BY <1>1, <1>2
  <1>4. listing \in Seq(Model)
    BY <1>2, <1>3, SeqDef
  <1> QED
    BY <1>4, LenProperties

LEMMA MergedTurns ==
  ASSUME registry \in Agents, NEW listing \in Listing
  PROVE  /\ MergedTo(listing)[0] = [agents |-> registry, found |-> 0]
         /\ \A i \in 1..Len(listing) :
              MergedTo(listing)[i] = Seen(MergedTo(listing)[i - 1], listing[i])
  <1> DEFINE N == Len(listing)
             first == [agents |-> registry, found |-> 0]
             turn == [x \in (1..N) \X Seenable |-> Seen(x[2], listing[x[1]])]
             Is(g) == g = [i \in 0..N |-> IF i = 0 THEN first ELSE Seen(g[i - 1], listing[i])]
  <1>1. N \in Nat /\ first \in Seenable /\ \A i \in 1..N : listing[i] \in Model
    BY ListingIsSeq, DiscoveryAssumption DEF Seenable
  <1>2. turn \in [(1..N) \X Seenable -> Seenable]
    BY <1>1, SeenType
  <1>3. Turns(N, Seenable, first, turn) # {}
    <2> HIDE DEF N, first, turn
    <2> QED
      BY <1>1, <1>2, TurnsExist
  <1>4. PICK g \in [0..N -> Seenable] :
          g[0] = first /\ \A i \in 1..N : g[i] = turn[<<i, g[i - 1]>>]
    BY <1>3 DEF Turns
  <1>5. ASSUME NEW i \in 0..N
        PROVE  g[i] = IF i = 0 THEN first ELSE Seen(g[i - 1], listing[i])
    <2>1. CASE i = 0
      BY <1>4, <2>1
    <2>2. CASE i # 0
      <3>1. i \in 1..N /\ i - 1 \in 0..N /\ g[i - 1] \in Seenable
        BY <1>1, <1>4, <2>2
      <3> QED
        BY <1>4, <2>2, <3>1
    <2> QED
      BY <2>1, <2>2
  <1> DEFINE merged == MergedTo(listing)
  <1>6. Is(g)
    BY <1>4, <1>5
  <1>7. Is(merged)
    BY <1>6 DEF MergedTo
  <1> HIDE DEF merged
  <1>8. 0 \in 0..N /\ \A i \in 1..N : i \in 0..N /\ i # 0
    BY <1>1
  <1>9. merged[0] = first /\ \A i \in 1..N : merged[i] = Seen(merged[i - 1], listing[i])
    BY <1>7, <1>8
  <1> QED
    BY <1>9 DEF merged

\* A pin of m that is in the registry is kept.
Pin(agents, m) == agents[NameOf[m]] = registry[NameOf[m]]

LEMMA SeenKeepsPin ==
  ASSUME mode = "exact", NEW m \in Pinned, Unshared(m), registry[NameOf[m]] # None,
         NEW acc \in Seenable, Pin(acc.agents, m), NEW w \in Model
  PROVE  Pin(Seen(acc, w).agents, m)
  <1>1. acc.agents \in Agents /\ NameOf[m] \in Name /\ NameOf[w] \in Name
    BY DiscoveryAssumption DEF Seenable
  <1>2. CASE w = m
    <2>1. KeepsPin(acc.agents, w)
      BY <1>2 DEF KeepsPin, Pin
    <2>2. Seen(acc, w).agents = acc.agents
      BY <2>1 DEF Seen, Seenable
    <2> QED
      BY <2>2
  <1>3. CASE w # m
    <2>1. CASE NameOf[w] = NameOf[m]
      <3>1. w \notin Wanted
        BY <1>3, <2>1 DEF Unshared
      <3>2. Seen(acc, w).agents = acc.agents
        BY <3>1 DEF Seen, Seenable
      <3> QED
        BY <3>2
    <2>2. CASE NameOf[w] # NameOf[m]
      <3>1. [acc.agents EXCEPT ![NameOf[w]] = Converted(w)][NameOf[m]] = acc.agents[NameOf[m]]
        BY <1>1, <2>2 DEF Agents
      <3>2. \/ Seen(acc, w).agents = acc.agents
            \/ Seen(acc, w).agents = [acc.agents EXCEPT ![NameOf[w]] = Converted(w)]
        BY DEF Seen, Seenable
      <3> QED
        BY <3>1, <3>2 DEF Pin
    <2> QED
      BY <2>1, <2>2
  <1> QED
    BY <1>2, <1>3

\* What a whole fetch leaves in the registry.
LEMMA MergedIs ==
  ASSUME registry \in Agents, NEW listing \in Listing
  PROVE  /\ Merged(listing) \in Seenable
         /\ mode = "exact" =>
              \A m \in Pinned : registry[NameOf[m]] # None /\ Unshared(m) =>
                Pin(Merged(listing).agents, m)
  <1> DEFINE N == Len(listing)
             merged == MergedTo(listing)
             Holds(i) ==
               /\ merged[i] \in Seenable
               /\ mode = "exact" =>
                    \A m \in Pinned : registry[NameOf[m]] # None /\ Unshared(m) =>
                      Pin(merged[i].agents, m)
             S == {i \in 0..N : Holds(i)}
  <1>1. N \in Nat /\ \A i \in 1..N : listing[i] \in Model
    BY ListingIsSeq
  <1>2. /\ merged[0] = [agents |-> registry, found |-> 0]
        /\ \A i \in 1..N : merged[i] = Seen(merged[i - 1], listing[i])
    BY MergedTurns
  <1> HIDE DEF merged, N
  <1>3. 0 \in S
    <2>1. merged[0] \in Seenable /\ merged[0].agents = registry /\ 0 \in 0..N
      BY <1>1, <1>2, DiscoveryAssumption DEF Seenable
    <2> QED
      BY <2>1 DEF Pin
  <1>4. ASSUME NEW i \in 1..N, i - 1 \in S PROVE i \in S
    <2>1. i \in 0..N /\ listing[i] \in Model /\ merged[i] = Seen(merged[i - 1], listing[i])
      BY <1>1, <1>2
    <2>2. merged[i] \in Seenable
      BY <1>4, <2>1, SeenType
    <2>3. ASSUME mode = "exact", NEW m \in Pinned, registry[NameOf[m]] # None, Unshared(m)
          PROVE  Pin(merged[i].agents, m)
      BY <1>4, <2>1, <2>3, SeenKeepsPin
    <2> QED
      BY <2>1, <2>2, <2>3
  <1> HIDE DEF S
  <1>5. N \in S
    BY <1>1, <1>3, <1>4, Throughout
  <1>6. Merged(listing) = merged[N]
    BY MergedIsMergedTo DEF merged, N
  <1> QED
    BY <1>5, <1>6 DEF S

----------------------------------------------------------------------------
\* The rest of the types.
Filled ==
  /\ mode \in {"latest", "minor", "exact"}
  /\ registry \in Agents
  /\ found \in 0..MaxModels
  /\ Len(scopes) <= MaxDepth

LEMMA FilledAtStart == Init => Filled
  <1> SUFFICES ASSUME Init PROVE Filled
    OBVIOUS
  <1>1. scopes = <<>> /\ Len(<<>>) = 0
    BY EmptySeq DEF Init, NoAgents
  <1>2. 0 \in 0..MaxModels /\ 0 <= MaxDepth
    BY DiscoveryAssumption, DepthAssumption
  <1> QED
    BY <1>1, <1>2 DEF Init, NoAgents, Filled, Agents

LEMMA RefreshFills ==
  ASSUME Filled, Refresh
  PROVE  registry' \in Agents /\ found' \in 0..MaxModels
  <1>1. ASSUME NEW listing \in Listing,
               registry' = Merged(listing).agents, found' = Merged(listing).found
        PROVE  registry' \in Agents /\ found' \in 0..MaxModels
    BY <1>1, MergedIs DEF Filled, Seenable
  <1> QED
    BY <1>1 DEF Refresh, Filled

LEMMA FilledStep ==
  ASSUME Filled, Scoped, [Next]_vars
  PROVE  Filled'
  <1>1. CASE CallRefresh \/ BackgroundTurn
    BY <1>1, RefreshFills DEF CallRefresh, BackgroundTurn, Filled
  <1>2. CASE DiscoverAndRegister
    <2>1. registry' \in Agents
      BY <1>2, MergedIs DEF DiscoverAndRegister, Filled, Seenable
    <2> QED
      BY <1>2, <2>1 DEF DiscoverAndRegister, Filled
  <1>3. CASE StartBackground \/ StopBackground \/ Tick \/ UNCHANGED vars
    BY <1>3 DEF StartBackground, StopBackground, Tick, vars, registries, Filled
  <1>4. CASE UseRegistry
    <2>1. Own \in Agent /\ UNCHANGED <<mode, found>>
      BY <1>4 DEF UseRegistry, Own, Agent
    <2>2. ASSUME NEW n \in Name,
                 \/ Register(n, Own) \/ RegisterOrUpdate(n, Own) \/ RemoveAgent(n)
                 \/ Decorate(n, Own) \/ BuildAndRegister(n, Own)
          PROVE  Filled'
      BY <2>1, <2>2 DEF Register, RegisterOrUpdate, RemoveAgent, Decorate, BuildAndRegister,
                        Filled, Agents
    <2>3. CASE Clear \/ GetDefault \/ ResetDefault
      BY <2>1, <2>3 DEF Clear, GetDefault, ResetDefault, Filled, Agents
    <2>4. scopes \in Seq(Default) /\ Len(scopes) \in Nat /\ MaxDepth \in Nat
      BY LenProperties, DepthAssumption DEF Scoped
    <2>5. CASE EnterContext
      <3>1. <<default>> \in Seq(Default) /\ Len(<<default>>) = 1
        BY DEF Scoped
      <3>2. Len(<<default>> \o scopes) = Len(<<default>>) + Len(scopes)
        BY <2>4, <3>1, ConcatProperties
      <3>3. Len(scopes') <= MaxDepth
        BY <2>4, <2>5, <3>1, <3>2 DEF EnterContext
      <3> QED
        BY <2>1, <2>5, <3>3 DEF EnterContext, Filled
    <2>6. CASE LeaveContext
      <3>1. Len(scopes') = Len(scopes) - 1
        BY <2>4, <2>6, HeadTailProperties DEF LeaveContext
      <3>2. Len(scopes') <= MaxDepth
        BY <2>4, <3>1 DEF Filled
      <3> QED
        BY <2>1, <2>6, <3>2 DEF LeaveContext, Filled
    <2> QED
      BY <1>4, <2>2, <2>3, <2>5, <2>6 DEF UseRegistry
  <1> QED
    BY <1>1, <1>2, <1>3, <1>4 DEF Next

\* A discovery never counts more than max_models, nor puts anything but an
\* agent into a registry, whatever listings the API gives (TypeOK).
THEOREM TypeCorrect == Spec => []TypeOK
  <1>1. Clocks /\ Scoped /\ Filled => TypeOK
    BY DEF Clocks, Scoped, Filled, Agents, RegistriesOK, TypeOK
  <1>2. Clocks /\ [Next]_vars => Clocks'
    BY ClocksStep
  <1>3. Scoped /\ [Next]_vars => Scoped'
    BY ScopedStep
  <1>4. Filled /\ Scoped /\ [Next]_vars => Filled'
    BY FilledStep
  <1> QED
    BY <1>1, <1>2, <1>3, <1>4, ClocksAtStart, ScopedAtStart, FilledAtStart, PTL DEF Spec

LEMMA PinStep ==
  ASSUME Filled, [Next]_vars, mode = "exact",
         NEW m \in Pinned, registry[NameOf[m]] # None, Unshared(m)
  PROVE  registry'[NameOf[m]] = registry[NameOf[m]] \/ UseRegistry
  <1>1. ASSUME NEW listing \in Listing, registry' = Merged(listing).agents
        PROVE  registry'[NameOf[m]] = registry[NameOf[m]]
    BY <1>1, MergedIs DEF Filled, Pin
  <1>2. ASSUME Refresh PROVE registry'[NameOf[m]] = registry[NameOf[m]]
    BY <1>1, <1>2 DEF Refresh
  <1>3. CASE UNCHANGED registry
    BY <1>3
  <1> QED
    BY <1>1, <1>2, <1>3 DEF Next, CallRefresh, StartBackground, StopBackground,
       BackgroundTurn, Tick, DiscoverAndRegister, vars, registries

\* Under EXACT no refresh, of this discovery or another, and whatever listing
\* it got, takes away or changes an agent registered for a pinned model whose
\* safe_name is its own (PinsHold).
THEOREM PinsAreHeld == Spec => PinsHold
  <1>1. Filled /\ [Next]_vars =>
          [ mode = "exact" =>
              \A m \in Pinned : registry[NameOf[m]] # None /\ Unshared(m) =>
                registry'[NameOf[m]] = registry[NameOf[m]] \/ UseRegistry ]_vars
    BY PinStep
  <1>2. Scoped /\ [Next]_vars => Scoped'
    BY ScopedStep
  <1>3. Filled /\ Scoped /\ [Next]_vars => Filled'
    BY FilledStep
  <1> QED
    BY <1>1, <1>2, <1>3, ScopedAtStart, FilledAtStart, PTL DEF Spec, PinsHold

----------------------------------------------------------------------------
(***************************************************************************)
(* Registries of workflows, and their runs                                 *)
(***************************************************************************)

----------------------------------------------------------------------------
\* The steps before k that a run which began at the step from goes through.
Between(from, k) == {j \in Step : from <= j /\ j < k}

\* A state that the step k may start from: it was made by steps before k, by
\* all of them unless --json was given, and the outputs of those that gave one
\* went in in order.
SoundAt(state, k) ==
  /\ state \in State
  /\ state.from <= k
  /\ state.made \subseteq Between(state.from, k)
  /\ state.gave \subseteq state.made
  /\ ToSet(state.fed) \subseteq state.gave
  /\ \A i, j \in DOMAIN state.fed : i < j => state.fed[i] < state.fed[j]
  /\ ~state.json => state.made = Between(state.from, k) /\ ToSet(state.fed) = state.gave

\* A run carries a state that its step may start from, and when that is over,
\* one that the next may.
SoundRun(r) ==
  /\ r \in Run
  /\ r.step < r.steps
  /\ r.json => r.state.json
  /\ SoundAt(r.state, IF r.ended THEN r.step + 1 ELSE r.step)

RunsSound ==
  /\ run \in [Session -> Run \cup {Absent}]
  /\ \A s \in Session : run[s] # Absent => SoundRun(run[s])

\* A file holds a state that the step after its own may start from.
FilesSound ==
  /\ file \in [Workflow -> [Step -> State \cup {Absent}]]
  /\ \A w \in Workflow, k \in Step : file[w][k] # Absent => SoundAt(file[w][k], k + 1)

Registered ==
  /\ workflows \in [Session -> [Workflow -> (0..MaxSteps) \cup {Absent}]]
  /\ runs \in 0..MaxRuns

Sound == RunsSound /\ FilesSound /\ Registered

LEMMA StepType ==
  /\ MaxSteps \in Nat /\ MaxSteps > 0 /\ MaxRuns \in Nat
  /\ \A k \in Step : k \in Nat /\ k < MaxSteps
  /\ \A k \in Nat : k < MaxSteps => k \in Step
  BY StepRunnerAssumption DEF Step

LEMMA SoundAtStart == RunnerInit => Sound
  BY StepType DEF RunnerInit, Sound, RunsSound, FilesSound, Registered, NoWorkflows

\* A run with --json may leave a step out.
LEMMA JsonSkips ==
  ASSUME NEW state, NEW k \in Step, SoundAt(state, k), state.json
  PROVE  SoundAt(state, k + 1)
  <1>1. k \in Nat /\ state.from \in Nat
    BY StepType DEF SoundAt, State
  <1>2. Between(state.from, k) \subseteq Between(state.from, k + 1)
    <2>1. \A j \in Step : j < k => j < k + 1
      BY <1>1, StepType
    <2> QED
      BY <2>1 DEF Between
  <1>3. state.from <= k + 1
    BY <1>1 DEF SoundAt
  <1> QED
    BY <1>2, <1>3 DEF SoundAt

\* What the end of step k makes of the state it started from.
After(state, k, output, json) ==
  [state EXCEPT !.made = state.made \cup {k},
                !.gave = IF output THEN state.gave \cup {k} ELSE state.gave,
                !.fed = IF output /\ ~json THEN Append(state.fed, k) ELSE state.fed]

LEMMA FedInOrder ==
  ASSUME NEW fed \in Seq(Step), NEW k \in Step,
         \A j \in ToSet(fed) : j < k,
         \A i, j \in DOMAIN fed : i < j => fed[i] < fed[j]
  PROVE  /\ Append(fed, k) \in Seq(Step)
         /\ ToSet(Append(fed, k)) = ToSet(fed) \cup {k}
         /\ \A i, j \in DOMAIN Append(fed, k) :
              i < j => Append(fed, k)[i] < Append(fed, k)[j]
  <1> DEFINE n == Len(fed)
             t == Append(fed, k)
  <1>1. n \in Nat /\ DOMAIN fed = 1..n
    BY LenProperties
  <1>2. /\ t \in Seq(Step) /\ Len(t) = n + 1
        /\ \A j \in 1..n : t[j] = fed[j]
        /\ t[n + 1] = k
    BY AppendProperties
  <1> HIDE DEF n, t
  <1>3. DOMAIN t = 1..(n + 1) /\ 1..(n + 1) = 1..n \cup {n + 1}
    BY <1>1, <1>2, LenProperties
  <1>4. ToSet(t) = ToSet(fed) \cup {k}
    BY <1>1, <1>2, <1>3 DEF ToSet
  <1>5. ASSUME NEW i \in DOMAIN t, NEW j \in DOMAIN t, i < j PROVE t[i] < t[j]
    <2>1. i \in 1..n
      BY <1>1, <1>3, <1>5
    <2>2. t[i] = fed[i] /\ fed[i] \in ToSet(fed)
      BY <1>1, <1>2, <2>1 DEF ToSet
    <2>3. CASE j \in 1..n
      BY <1>1, <1>2, <1>5, <2>1, <2>3
    <2>4. CASE j = n + 1
      BY <1>2, <2>2, <2>4
    <2> QED
      BY <1>3, <2>3, <2>4
  <1> QED
    BY <1>2, <1>4, <1>5 DEF t

LEMMA StepIsSound ==
  ASSUME NEW state, NEW k \in Step, SoundAt(state, k),
         NEW output \in BOOLEAN, NEW json \in BOOLEAN, json => state.json
  PROVE  /\ SoundAt(After(state, k, output, json), k + 1)
         /\ After(state, k, output, json).json = state.json
  <1> DEFINE a == After(state, k, output, json)
             gave == IF output THEN state.gave \cup {k} ELSE state.gave
             fed == IF output /\ ~json THEN Append(state.fed, k) ELSE state.fed
  <1>1. /\ state \in State /\ state.from \in Nat /\ k \in Nat /\ state.from <= k
        /\ state.made \subseteq Step /\ state.gave \subseteq Step /\ state.fed \in Seq(Step)
    BY StepType DEF SoundAt, State
  <1>2. Between(state.from, k + 1) = Between(state.from, k) \cup {k}
    <2>1. \A j \in Step : j < k + 1 <=> j < k \/ j = k
      BY <1>1, StepType
    <2> QED
      BY <1>1, <2>1 DEF Between
  <1>3. \A j \in ToSet(state.fed) : j < k
    BY DEF SoundAt, Between
  <1>4. /\ fed \in Seq(Step)
        /\ ToSet(fed) = IF output /\ ~json THEN ToSet(state.fed) \cup {k} ELSE ToSet(state.fed)
        /\ \A i, j \in DOMAIN fed : i < j => fed[i] < fed[j]
    BY <1>1, <1>3, FedInOrder DEF SoundAt
  <1>5. gave \subseteq Step /\ state.made \cup {k} \subseteq Step
    BY <1>1
  <1> HIDE DEF gave, fed
  <1>6. /\ a.from = state.from /\ a.made = state.made \cup {k} /\ a.gave = gave
        /\ a.fed = fed /\ a.json = state.json
    BY <1>1 DEF After, State, gave, fed
  <1>7. a \in State
    BY <1>1, <1>4, <1>5 DEF After, State, gave, fed
  <1>8. a.from <= k + 1
    BY <1>1, <1>6
  <1>9. a.made \subseteq Between(a.from, k + 1)
    BY <1>2, <1>6 DEF SoundAt
  <1>10. a.gave \subseteq a.made
    BY <1>6 DEF SoundAt, gave
  <1>11. ToSet(a.fed) \subseteq a.gave
    BY <1>4, <1>6 DEF SoundAt, gave
  <1>12. ASSUME ~a.json
         PROVE  a.made = Between(a.from, k + 1) /\ ToSet(a.fed) = a.gave
    <2>1. ~json /\ state.made = Between(state.from, k) /\ ToSet(state.fed) = state.gave
      BY <1>6, <1>12 DEF SoundAt
    <2> QED
      BY <1>2, <1>4, <1>6, <2>1 DEF gave
  <1> HIDE DEF a
  <1>13. \A i, j \in DOMAIN a.fed : i < j => a.fed[i] < a.fed[j]
    BY <1>4, <1>6
  <1> QED
    BY <1>6, <1>7, <1>8, <1>9, <1>10, <1>11, <1>12, <1>13 DEF SoundAt, a

\* What --input may give a run.
LEMMA GivenIsSound ==
  ASSUME FilesSound, NEW w \in Workflow, NEW k \in Step, NEW state \in Given(w, k),
         NEW json \in BOOLEAN
  PROVE  SoundAt([state EXCEPT !.json = state.json \/ json], k)
  <1>1. SoundAt(state, k)
    <2>1. CASE state = [from |-> k, made |-> {}, gave |-> {}, fed |-> <<>>, json |-> FALSE]
      <3>1. <<>> \in Seq(Step) /\ ToSet(<<>>) = {} /\ DOMAIN <<>> = {}
        BY EmptySeq DEF ToSet
      <3>2. k \in 0..MaxSteps /\ k <= k
        BY StepType
      <3>3. Between(k, k) = {}
        BY StepType DEF Between
      <3>4. /\ state.from = k /\ state.made = {} /\ state.gave = {} /\ state.fed = <<>>
            /\ state.json = FALSE /\ state \in State
        BY <2>1, <3>1, <3>2 DEF State
      <3> QED
        BY <3>1, <3>2, <3>3, <3>4 DEF SoundAt
    <2>2. CASE k > 0 /\ state = file[w][k - 1] /\ state # Absent
      <3>1. k - 1 \in Step /\ (k - 1) + 1 = k
        BY <2>2, StepType
      <3>2. SoundAt(state, (k - 1) + 1)
        BY <2>2, <3>1 DEF FilesSound
      <3> QED
        BY <3>1, <3>2
    <2> QED
      BY <2>1, <2>2 DEF Given
  <1> DEFINE a == [state EXCEPT !.json = state.json \/ json]
  <1>2. /\ a \in State /\ a.from = state.from /\ a.made = state.made /\ a.gave = state.gave
        /\ a.fed = state.fed /\ (state.json => a.json)
    BY <1>1 DEF SoundAt, State
  <1> HIDE DEF a
  <1>3. SoundAt(a, k)
    BY <1>1, <1>2 DEF SoundAt
  <1> QED
    BY <1>3 DEF a

----------------------------------------------------------------------------
\* A step that gives a session a sound run, or ends its run, and leaves the
\* others alone.
LEMMA RunReplaced ==
  ASSUME RunsSound, NEW s \in Session, NEW r, run' = [run EXCEPT ![s] = r],
         r # Absent => SoundRun(r)
  PROVE  RunsSound'
  <1>1. r \in Run \cup {Absent}
    BY DEF SoundRun
  <1>2. run' \in [Session -> Run \cup {Absent}]
    BY <1>1 DEF RunsSound
  <1>3. ASSUME NEW t \in Session, run'[t] # Absent PROVE SoundRun(run'[t])
    BY <1>3 DEF RunsSound
  <1> QED
    BY <1>2, <1>3 DEF RunsSound

LEMMA RunWorkflowSound ==
  ASSUME Sound, NEW s \in Session, NEW w \in Workflow, NEW k \in Step, RunWorkflow(s, w, k)
  PROVE  Sound'
  <1>1. PICK state \in Given(w, k), dir \in BOOLEAN, json \in BOOLEAN :
          run' = [run EXCEPT ![s] =
            [name |-> w, steps |-> workflows[s][w], step |-> k,
             state |-> [state EXCEPT !.json = state.json \/ json],
             json |-> json, dir |-> dir, ended |-> FALSE]]
    BY DEF RunWorkflow
  <1> DEFINE a == [state EXCEPT !.json = state.json \/ json]
             n == workflows[s][w]
             r == [name |-> w, steps |-> n, step |-> k, state |-> a,
                   json |-> json, dir |-> dir, ended |-> FALSE]
  <1>2. SoundAt(a, k) /\ (json => a.json)
    <2>1. SoundAt(a, k)
      BY GivenIsSound DEF Sound
    <2>2. state \in State
      <3>1. \A f \in State : f.json \in BOOLEAN
        BY DEF State
      <3>2. CASE state = [from |-> k, made |-> {}, gave |-> {}, fed |-> <<>>, json |-> FALSE]
        <4>1. <<>> \in Seq(Step) /\ k \in 0..MaxSteps
          BY EmptySeq, StepType
        <4> QED
          BY <3>2, <4>1 DEF State
      <3>3. CASE k > 0 /\ state = file[w][k - 1] /\ state # Absent
        <4>1. k - 1 \in Step
          BY <3>3, StepType
        <4> QED
          BY <3>3, <4>1 DEF Sound, FilesSound
      <3> QED
        BY <3>2, <3>3 DEF Given
    <2>3. a.json = (state.json \/ json)
      BY <2>2 DEF State
    <2> QED
      BY <2>1, <2>3
  <1>3. n \in 0..MaxSteps /\ k < n
    BY DEF RunWorkflow, Sound, Registered
  <1>4. a \in State
    BY <1>2 DEF SoundAt
  <1> HIDE DEF a, n
  <1>5. r \in Run
    BY <1>3, <1>4 DEF Run
  <1>6. SoundRun(r)
    BY <1>2, <1>3, <1>5 DEF SoundRun
  <1>7. run' = [run EXCEPT ![s] = r]
    BY <1>1 DEF a, n
  <1> HIDE DEF r
  <1>8. RunsSound'
    BY <1>6, <1>7, RunReplaced DEF Sound
  <1>9. runs' \in 0..MaxRuns /\ UNCHANGED <<workflows, file>>
    BY StepType DEF RunWorkflow, Sound, Registered
  <1> QED
    BY <1>8, <1>9 DEF Sound, FilesSound, Registered

\* What is sound of a run whose step is not over.
LEMMA BusyRun ==
  ASSUME RunsSound, NEW s \in Session, Busy(s)
  PROVE  /\ run[s] \in Run /\ run[s].step \in Step /\ run[s].step < run[s].steps
         /\ run[s].json \in BOOLEAN /\ (run[s].json => run[s].state.json)
         /\ SoundAt(run[s].state, run[s].step)
  BY DEF Busy, RunsSound, SoundRun, Run

\* Its step over, the run carries the state a.
LEMMA EndedIsSound ==
  ASSUME RunsSound, NEW s \in Session, Busy(s), NEW a,
         SoundAt(a, run[s].step + 1), a.json = run[s].state.json
  PROVE  SoundRun([run[s] EXCEPT !.state = a, !.ended = TRUE])
  <1> DEFINE q == run[s]
             r == [q EXCEPT !.state = a, !.ended = TRUE]
  <1>1. q \in Run /\ q.step < q.steps /\ (q.json => q.state.json)
    BY BusyRun
  <1>2. a \in State
    BY DEF SoundAt
  <1> HIDE DEF q
  <1>3. /\ r \in Run /\ r.step = q.step /\ r.steps = q.steps /\ r.json = q.json
        /\ r.state = a /\ r.ended
    BY <1>1, <1>2 DEF Run
  <1>4. SoundAt(a, q.step + 1) /\ a.json = q.state.json
    BY DEF q
  <1> HIDE DEF r
  <1>5. SoundRun(r)
    BY <1>1, <1>3, <1>4 DEF SoundRun
  <1> QED
    BY <1>5 DEF r, q

LEMMA StepEndsSound ==
  ASSUME Sound, NEW s \in Session, StepEnds(s)
  PROVE  RunsSound'
  <1>1. Busy(s)
    BY DEF StepEnds
  <1> DEFINE q == run[s]
             k == q.step
  <1>2. PICK output \in BOOLEAN :
          LET state == [q.state EXCEPT
                          !.made = @ \cup {k},
                          !.gave = IF output THEN @ \cup {k} ELSE @,
                          !.fed = IF output /\ ~q.json THEN Append(@, k) ELSE @]
          IN  run' = [run EXCEPT ![s].state = state, ![s].ended = TRUE]
    BY DEF StepEnds
  <1> DEFINE a == After(q.state, k, output, q.json)
  <1>3. q \in Run /\ q.state \in State
    BY <1>1, BusyRun DEF Run, Sound
  <1>4. run \in [Session -> Run \cup {Absent}]
    BY DEF Sound, RunsSound
  <1>5. run' = [run EXCEPT ![s] = [q EXCEPT !.state = a, !.ended = TRUE]]
    BY <1>2, <1>3, <1>4 DEF After, Run, State
  <1>6. SoundAt(a, k + 1) /\ a.json = q.state.json
    BY <1>1, BusyRun, StepIsSound DEF Sound
  <1> HIDE DEF a
  <1>7. SoundRun([q EXCEPT !.state = a, !.ended = TRUE])
    BY <1>1, <1>6, EndedIsSound DEF Sound
  <1> QED
    BY <1>5, <1>7, RunReplaced DEF Sound

LEMMA StepTimesOutSound ==
  ASSUME Sound, NEW s \in Session, StepTimesOut(s)
  PROVE  RunsSound'
  <1>1. Busy(s)
    BY DEF StepTimesOut
  <1> DEFINE q == run[s]
  <1>2. CASE q.json
    <2>1. q.step \in Step /\ SoundAt(q.state, q.step) /\ q.state.json /\ q \in Run
      BY <1>1, <1>2, BusyRun DEF Sound
    <2>2. SoundAt(q.state, q.step + 1)
      BY <2>1, JsonSkips
    <2>3. SoundRun([q EXCEPT !.state = q.state, !.ended = TRUE])
      BY <1>1, <2>2, EndedIsSound DEF Sound
    <2>4. [q EXCEPT !.state = q.state, !.ended = TRUE] = [q EXCEPT !.ended = TRUE]
      BY <2>1 DEF Run
    <2>5. run' = [run EXCEPT ![s] = [q EXCEPT !.ended = TRUE]]
      BY <1>2 DEF StepTimesOut
    <2> QED
      BY <2>3, <2>4, <2>5, RunReplaced DEF Sound
  <1>3. CASE ~q.json
    <2>1. run' = [run EXCEPT ![s] = Absent]
      BY <1>3 DEF StepTimesOut
    <2> QED
      BY <2>1, RunReplaced DEF Sound
  <1> QED
    BY <1>2, <1>3

LEMMA SaveCheckpointSound ==
  ASSUME Sound, NEW s \in Session, SaveCheckpoint(s)
  PROVE  RunsSound' /\ FilesSound'
  <1> DEFINE q == run[s]
  <1>1. /\ q \in Run /\ q.step \in Step /\ q.step < q.steps /\ (q.json => q.state.json)
        /\ SoundAt(q.state, q.step + 1) /\ q.name \in Workflow /\ q.steps \in 0..MaxSteps
        /\ q.state \in State
    BY DEF SaveCheckpoint, Sound, RunsSound, SoundRun, Run
  <1>2. /\ run' = [run EXCEPT ![s] = Advanced(q)]
        /\ file' = IF q.dir THEN [file EXCEPT ![q.name][q.step] = q.state] ELSE file
    BY DEF SaveCheckpoint
  <1>3. Advanced(q) # Absent => SoundRun(Advanced(q))
    <2> SUFFICES ASSUME Advanced(q) # Absent PROVE SoundRun(Advanced(q))
      OBVIOUS
    <2> DEFINE r == [q EXCEPT !.step = q.step + 1, !.ended = FALSE]
    <2>1. q.step + 1 # q.steps /\ Advanced(q) = r
      BY <1>1 DEF Advanced, Run
    <2> HIDE DEF q
    <2>2. q.step + 1 < q.steps /\ q.step + 1 \in Step
      BY <1>1, <2>1, StepType
    <2>3. /\ r \in Run /\ r.step = q.step + 1 /\ r.steps = q.steps /\ r.json = q.json
          /\ r.state = q.state /\ r.ended = FALSE
      BY <1>1, <2>2 DEF Run
    <2> HIDE DEF r
    <2>4. SoundRun(r)
      BY <1>1, <2>2, <2>3 DEF SoundRun
    <2> QED
      BY <2>1, <2>4
  <1>4. RunsSound'
    BY <1>2, <1>3, RunReplaced DEF Sound
  <1> HIDE DEF q
  <1>5. ASSUME q.dir PROVE FilesSound'
    <2>1. file' = [file EXCEPT ![q.name][q.step] = q.state]
      BY <1>2, <1>5
    <2>2. file \in [Workflow -> [Step -> State \cup {Absent}]]
      BY DEF Sound, FilesSound
    <2>3. file' \in [Workflow -> [Step -> State \cup {Absent}]]
      BY <1>1, <2>1, <2>2
    <2>4. ASSUME NEW w \in Workflow, NEW k \in Step, file'[w][k] # Absent
          PROVE  SoundAt(file'[w][k], k + 1)
      <3>1. CASE w = q.name /\ k = q.step
        <4>1. file'[w][k] = q.state
          BY <1>1, <2>1, <2>2, <3>1
        <4> QED
          BY <1>1, <3>1, <4>1
      <3>2. CASE ~(w = q.name /\ k = q.step)
        <4>1. file'[w][k] = file[w][k]
          BY <1>1, <2>1, <2>2, <3>2
        <4> QED
          BY <2>4, <4>1 DEF Sound, FilesSound
      <3> QED
        BY <3>1, <3>2
    <2> QED
      BY <2>3, <2>4 DEF FilesSound
  <1>6. ASSUME ~q.dir PROVE FilesSound'
    BY <1>2, <1>6 DEF Sound, FilesSound
  <1> QED
    BY <1>4, <1>5, <1>6

----------------------------------------------------------------------------
LEMMA LoadedType ==
  ASSUME NEW known \in [Workflow -> (0..MaxSteps) \cup {Absent}], NEW defs \in YamlFile
  PROVE  Loaded(known, defs) \in [Workflow -> (0..MaxSteps) \cup {Absent}]
  <1>1. defs \in Seq(Definition \cup {Broken})
    BY StepRunnerAssumption
  <1>2. \A i \in DOMAIN defs : defs[i] \in Definition \cup {Broken}
    BY <1>1, LenProperties
  <1>3. \A i \in DOMAIN defs : defs[i].steps \in 0..MaxSteps
    BY <1>2, StepType DEF Definition, Broken
  <1> DEFINE broken == {i \in DOMAIN defs : defs[i] = Broken}
             good == {i \in DOMAIN defs :
                        Built(defs[i].steps) /\ \A j \in broken : i < j}
             Latest(w) == {i \in good : defs[i].name = w
                                        /\ \A j \in good : j > i => defs[j].name # w}
  <1>4. Loaded(known, defs) =
          [w \in Workflow |->
            IF Latest(w) = {} THEN known[w] ELSE defs[CHOOSE i \in Latest(w) : TRUE].steps]
    BY DEF Loaded
  <1>5. \A w \in Workflow : Latest(w) \subseteq DOMAIN defs
    OBVIOUS
  <1> HIDE DEF Latest
  <1>6. \A w \in Workflow :
          Latest(w) # {} => defs[CHOOSE i \in Latest(w) : TRUE].steps \in 0..MaxSteps
    BY <1>3, <1>5
  <1> QED
    BY <1>4, <1>6

LEMMA SoundStep ==
  ASSUME Sound, [RunnerNext]_runnerVars
  PROVE  Sound'
  <1>1. ASSUME NEW s \in Session, NEW w \in Workflow, NEW n \in 0..MaxSteps,
               RegisterWorkflow(s, w, n)
        PROVE  Sound'
    <2>1. workflows' \in [Session -> [Workflow -> (0..MaxSteps) \cup {Absent}]]
      BY <1>1 DEF RegisterWorkflow, Sound, Registered
    <2> QED
      BY <1>1, <2>1 DEF RegisterWorkflow, Sound, RunsSound, FilesSound, Registered
  <1>2. ASSUME NEW s \in Session, ResetWorkflows(s) \/ Exit(s)
        PROVE  Registered' /\ file' = file
    <2>1. NoWorkflows \in [Workflow -> (0..MaxSteps) \cup {Absent}]
      BY DEF NoWorkflows
    <2>2. /\ workflows' = [workflows EXCEPT ![s] = NoWorkflows]
          /\ UNCHANGED <<file, runs>>
      BY <1>2 DEF ResetWorkflows, Exit
    <2> QED
      BY <2>1, <2>2 DEF Sound, Registered
  <1>3. ASSUME NEW s \in Session, ResetWorkflows(s) PROVE Sound'
    BY <1>2, <1>3 DEF ResetWorkflows, Sound, RunsSound, FilesSound
  <1>4. ASSUME NEW s \in Session, Exit(s) PROVE Sound'
    <2>1. RunsSound'
      BY <1>4, RunReplaced DEF Exit, Sound
    <2> QED
      BY <1>2, <1>4, <2>1 DEF Sound, FilesSound
  <1>5. ASSUME NEW s \in Session, LoadWorkflowsFile(s) PROVE Sound'
    <2>1. PICK defs \in YamlFile : workflows' = [workflows EXCEPT ![s] = Loaded(workflows[s], defs)]
      BY <1>5 DEF LoadWorkflowsFile, Sound, Registered
    <2>2. Loaded(workflows[s], defs) \in [Workflow -> (0..MaxSteps) \cup {Absent}]
      BY LoadedType DEF Sound, Registered
    <2>3. workflows' \in [Session -> [Workflow -> (0..MaxSteps) \cup {Absent}]]
      BY <2>1, <2>2 DEF Sound, Registered
    <2> QED
      BY <1>5, <2>3 DEF LoadWorkflowsFile, Sound, RunsSound, FilesSound, Registered
  <1>6. ASSUME NEW s \in Session, NEW w \in Workflow, NEW k \in Step, RunWorkflow(s, w, k)
        PROVE  Sound'
    BY <1>6, RunWorkflowSound
  <1>7. ASSUME NEW s \in Session, StepEnds(s) \/ StepTimesOut(s) \/ StepRaises(s) PROVE Sound'
    <2>1. CASE StepEnds(s) \/ StepTimesOut(s)
      BY <2>1, StepEndsSound, StepTimesOutSound
         DEF StepEnds, StepTimesOut, Sound, FilesSound, Registered
    <2>2. CASE StepRaises(s)
      <3>1. RunsSound'
        BY <2>2, RunReplaced DEF StepRaises, Sound
      <3> QED
        BY <2>2, <3>1 DEF StepRaises, Sound, FilesSound, Registered
    <2> QED
      BY <1>7, <2>1, <2>2
  <1>8. ASSUME NEW s \in Session, SaveCheckpoint(s) PROVE Sound'
    <2>1. RunsSound' /\ FilesSound'
      BY <1>8, SaveCheckpointSound
    <2>2. UNCHANGED <<workflows, runs>>
      BY <1>8 DEF SaveCheckpoint
    <2> QED
      BY <2>1, <2>2 DEF Sound, Registered
  <1>9. CASE UNCHANGED runnerVars
    BY <1>9 DEF runnerVars, Sound, RunsSound, FilesSound, Registered
  <1> QED
    BY <1>1, <1>3, <1>4, <1>5, <1>6, <1>7, <1>8, <1>9 DEF RunnerNext, Progress

\* A command is never at a step its workflow does not have (RunnerTypeOK).
THEOREM RunnerTypeCorrect == RunnerSpec => []RunnerTypeOK
  <1>1. Sound => RunnerTypeOK
    BY DEF Sound, RunsSound, SoundRun, FilesSound, SoundAt, Registered, RunnerTypeOK
  <1>2. Sound /\ [RunnerNext]_runnerVars => Sound'
    BY SoundStep
  <1> QED
    BY <1>1, <1>2, SoundAtStart, PTL DEF RunnerSpec

\* However many sessions run, time out, are killed and are resumed over the
\* same files, every file holds what its step and those before it made
\* (CheckpointsTrue).
THEOREM CheckpointsAreTrue == RunnerSpec => []CheckpointsTrue
  <1>1. Sound => CheckpointsTrue
    <2> SUFFICES ASSUME Sound, NEW w \in Workflow, NEW k \in Step, file[w][k] # Absent
                 PROVE  TrueAt(file[w][k], k)
      BY DEF CheckpointsTrue
    <2> DEFINE state == file[w][k]
    <2>1. SoundAt(state, k + 1)
      BY DEF Sound, FilesSound
    <2> HIDE DEF state
    <2>2. state.from \in Nat /\ k \in Nat
      BY <2>1, StepType DEF SoundAt, State
    <2>3. Between(state.from, k + 1) = state.from..k
      <3>1. \A j \in Step : j < k + 1 <=> j <= k
        BY <2>2, StepType
      <3>2. \A j \in state.from..k : j \in Step
        BY <2>2, StepType
      <3>3. \A j \in Step : j \in state.from..k <=> state.from <= j /\ j <= k
        BY <2>2, StepType
      <3> QED
        BY <3>1, <3>2, <3>3 DEF Between
    <2>4. TrueAt(state, k)
      BY <2>1, <2>3 DEF SoundAt, TrueAt
    <2> QED
      BY <2>4 DEF state
  <1>2. Sound /\ [RunnerNext]_runnerVars => Sound'
    BY SoundStep
  <1> QED
    BY <1>1, <1>2, SoundAtStart, PTL DEF RunnerSpec

=============================================================================
