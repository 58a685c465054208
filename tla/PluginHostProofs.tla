--------------------------- MODULE PluginHostProofs ---------------------------
(***************************************************************************)
(* What TLAPS proves of PluginHost, for any calls, agents, retries, caps   *)
(* and lists of plugins: type correctness, by how much the calls whose     *)
(* estimate the cost cap could judge, and which it let through, can        *)
(* overspend a session, and that no trace is sent twice or ended by        *)
(* another agent's error.                                                  *)
(***************************************************************************)
EXTENDS PluginHost, FiniteSetTheorems, SequenceTheorems, TLAPS

\* The calls under way that the cap judged and let through: their charge is to
\* come.
ToCharge == UnderWay \cap through

\* A plugin that is not loaded has no session, and a call has its estimate
\* looked at when it begins.
Budget ==
  /\ Cardinality(UnderWay) <= MaxUnderWay
  /\ \A c \in through : phase[c] # "new"
  /\ ~Loaded(CostCap) => owed = 0
  /\ OvershootBounded

\* A trace that was sent from the ones kept has an end.
Posted ==
  /\ TracesMatch
  /\ \A c \in Call : posts[c] = 0 \/ \E e \in ended : e[1] = c

\* Only a call that is over may have failed for the last time.
Attempts == \A c \in Call : phase[c] # "over" => tries[c] <= Retries

IInv == TypeOK /\ Attempts /\ Budget /\ Posted

----------------------------------------------------------------------------
(***************************************************************************)
(* Lemmas on the registry                                                  *)
(***************************************************************************)

\* Plugins loaded behind the others, none of them there already.
LEMMA LoadedBehind ==
  ASSUME NEW s \in Seq(Plugin), NEW t \in Seq(Plugin), IsInjective(s), IsInjective(t),
         \A i \in DOMAIN t : t[i] \notin ToSet(s)
  PROVE  /\ s \o t \in Seq(Plugin)
         /\ IsInjective(s \o t)
         /\ ToSet(s \o t) = ToSet(s) \cup ToSet(t)
  <1> DEFINE n == Len(s)
             m == Len(t)
             q == s \o t
  <1>1. /\ q \in Seq(Plugin) /\ Len(q) = n + m /\ n \in Nat /\ m \in Nat
        /\ \A i \in 1..n + m : q[i] = IF i <= n THEN s[i] ELSE t[i - n]
        /\ DOMAIN s = 1..n /\ DOMAIN t = 1..m
    BY ConcatProperties, LenProperties
  <1>2. DOMAIN q = 1..(n + m)
    BY <1>1, LenProperties
  <1> HIDE DEF n, m, q
  <1>3. \A i \in DOMAIN q :
          \/ i \in DOMAIN s /\ q[i] = s[i]
          \/ i \notin DOMAIN s /\ i - n \in DOMAIN t /\ q[i] = t[i - n]
    BY <1>1, <1>2
  <1>4. \A i \in DOMAIN s : s[i] \in ToSet(s) /\ i \in DOMAIN q /\ q[i] = s[i]
    BY <1>1, <1>2 DEF ToSet
  <1>5. \A i \in DOMAIN t : t[i] \in ToSet(t) /\ i + n \in DOMAIN q /\ q[i + n] = t[i]
    BY <1>1, <1>2 DEF ToSet
  <1>6. ASSUME NEW i \in DOMAIN q, NEW j \in DOMAIN q, q[i] = q[j] PROVE i = j
    <2>1. CASE i \in DOMAIN s /\ j \in DOMAIN s
      BY <1>4, <1>6, <2>1 DEF IsInjective
    <2>2. CASE i \notin DOMAIN s /\ j \notin DOMAIN s
      <3>1. i - n \in DOMAIN t /\ j - n \in DOMAIN t /\ t[i - n] = t[j - n]
        BY <1>3, <1>6, <2>2
      <3>2. i - n = j - n
        BY <3>1 DEF IsInjective
      <3> QED
        BY <1>1, <1>2, <3>2
    <2>3. CASE ~(i \in DOMAIN s <=> j \in DOMAIN s)
      BY <1>3, <1>4, <1>6, <2>3
    <2> QED
      BY <2>1, <2>2, <2>3
  <1>7. IsInjective(q)
    BY <1>6 DEF IsInjective
  <1>8. ASSUME NEW x PROVE x \in ToSet(q) <=> x \in ToSet(s) \cup ToSet(t)
    <2>1. x \in ToSet(q) => x \in ToSet(s) \cup ToSet(t)
      BY <1>3 DEF ToSet
    <2>2. x \in ToSet(s) => x \in ToSet(q)
      BY <1>4 DEF ToSet
    <2>3. x \in ToSet(t) => x \in ToSet(q)
      BY <1>5 DEF ToSet
    <2> QED
      BY <2>1, <2>2, <2>3
  <1> QED
    BY <1>1, <1>7, <1>8 DEF q

\* A plugin that is taken out leaves the others in their order.
LEMMA TakenOut ==
  ASSUME NEW s \in Seq(Plugin), IsInjective(s), NEW i \in DOMAIN s
  PROVE  /\ RemoveAt(s, i) \in Seq(Plugin)
         /\ IsInjective(RemoveAt(s, i))
         /\ ToSet(RemoveAt(s, i)) = ToSet(s) \ {s[i]}
  <1> DEFINE n == Len(s)
             front == SubSeq(s, 1, i - 1)
             back == SubSeq(s, i + 1, n)
             q == RemoveAt(s, i)
  <1>1. n \in Nat /\ DOMAIN s = 1..n /\ i \in 1..n
    BY LenProperties
  <1>2. \A j \in 1..n : s[j] \in Plugin
    BY ElementOfSeq
  <1>3. /\ front \in Seq(Plugin) /\ Len(front) = i - 1
        /\ \A j \in 1..(i - 1) : front[j] = s[j]
    <2>1. 1 \in Int /\ i - 1 \in Int /\ \A j \in 1..(i - 1) : s[j] \in Plugin
      BY <1>1, <1>2
    <2>2. /\ front \in Seq(Plugin) /\ Len(front) = IF 1 <= i - 1 THEN (i - 1) - 1 + 1 ELSE 0
          /\ \A j \in 1..((i - 1) - 1 + 1) : front[j] = s[1 + j - 1]
      BY <2>1, SubSeqProperties
    <2> HIDE DEF front
    <2> QED
      BY <1>1, <2>2
  <1>4. /\ back \in Seq(Plugin) /\ Len(back) = n - i
        /\ \A j \in 1..(n - i) : back[j] = s[i + j]
    <2>1. i + 1 \in Int /\ n \in Int /\ \A j \in (i + 1)..n : s[j] \in Plugin
      BY <1>1, <1>2
    <2>2. /\ back \in Seq(Plugin) /\ Len(back) = IF i + 1 <= n THEN n - (i + 1) + 1 ELSE 0
          /\ \A j \in 1..(n - (i + 1) + 1) : back[j] = s[(i + 1) + j - 1]
      BY <2>1, SubSeqProperties
    <2>3. n - (i + 1) + 1 = n - i /\ (i + 1 <= n \/ n - i = 0)
      BY <1>1
    <2>4. \A j \in 1..(n - i) : (i + 1) + j - 1 = i + j
      BY <1>1
    <2> HIDE DEF back, n
    <2> QED
      BY <2>2, <2>3, <2>4
  <1>5. q = front \o back
    BY DEF RemoveAt
  <1> HIDE DEF front, back, q, n
  <1>6. /\ q \in Seq(Plugin) /\ Len(q) = (i - 1) + (n - i)
        /\ \A j \in 1..((i - 1) + (n - i)) :
             q[j] = IF j <= i - 1 THEN front[j] ELSE back[j - (i - 1)]
    <2>1. /\ front \o back \in Seq(Plugin) /\ Len(front \o back) = Len(front) + Len(back)
          /\ \A j \in 1..(Len(front) + Len(back)) :
               (front \o back)[j] = IF j <= Len(front) THEN front[j] ELSE back[j - Len(front)]
      BY <1>3, <1>4, ConcatProperties
    <2>2. Len(front) = i - 1 /\ Len(back) = n - i
      BY <1>3, <1>4
    <2> QED
      BY <1>5, <2>1, <2>2, Zenon
  <1>7. DOMAIN q = 1..(n - 1)
    BY <1>1, <1>6, LenProperties
  <1>8. ASSUME NEW j \in DOMAIN q
        PROVE  q[j] = s[IF j < i THEN j ELSE j + 1]
    <2>1. q[j] = IF j <= i - 1 THEN front[j] ELSE back[j - (i - 1)]
      BY <1>1, <1>6, <1>7
    <2>2. CASE j < i
      BY <1>1, <1>3, <1>7, <2>1, <2>2
    <2>3. CASE ~(j < i)
      <3>1. j - (i - 1) \in 1..(n - i) /\ i + (j - (i - 1)) = j + 1 /\ ~(j <= i - 1)
        BY <1>1, <1>7, <2>3
      <3> QED
        BY <1>4, <2>1, <2>3, <3>1
    <2> QED
      BY <2>2, <2>3
  <1>9. IsInjective(q)
    <2> SUFFICES ASSUME NEW j \in DOMAIN q, NEW k \in DOMAIN q, q[j] = q[k] PROVE j = k
      BY DEF IsInjective
    <2> DEFINE f == IF j < i THEN j ELSE j + 1
               g == IF k < i THEN k ELSE k + 1
    <2>1. f \in DOMAIN s /\ g \in DOMAIN s /\ (f = g => j = k)
      BY <1>1, <1>7
    <2>2. s[f] = s[g]
      BY <1>8
    <2> HIDE DEF f, g
    <2> QED
      BY <2>1, <2>2 DEF IsInjective
  <1>10. ASSUME NEW x \in ToSet(q) PROVE x \in ToSet(s) /\ x # s[i]
    <2>1. PICK j \in DOMAIN q : x = q[j]
      BY DEF ToSet
    <2> DEFINE f == IF j < i THEN j ELSE j + 1
    <2>2. f \in DOMAIN s /\ f # i
      BY <1>1, <1>7
    <2>3. x = s[f]
      BY <1>8, <2>1
    <2> HIDE DEF f
    <2> QED
      BY <2>2, <2>3 DEF ToSet, IsInjective
  <1>11. ASSUME NEW x \in ToSet(s), x # s[i] PROVE x \in ToSet(q)
    <2>1. PICK k \in DOMAIN s : x = s[k]
      BY DEF ToSet
    <2> DEFINE j == IF k < i THEN k ELSE k - 1
    <2>2. k # i
      BY <1>11, <2>1
    <2>3. j \in DOMAIN q /\ (IF j < i THEN j ELSE j + 1) = k
      BY <1>1, <1>7, <2>2
    <2>4. q[j] = x
      BY <1>8, <2>1, <2>3
    <2> HIDE DEF j
    <2> QED
      BY <2>3, <2>4 DEF ToSet
  <1>12. ToSet(q) = ToSet(s) \ {s[i]}
    BY <1>10, <1>11
  <1> QED
    BY <1>6, <1>9, <1>12 DEF q

----------------------------------------------------------------------------
(***************************************************************************)
(* Lemmas on the budget                                                    *)
(***************************************************************************)

LEMMA Settings ==
  /\ IsFiniteSet(Call)
  /\ {MaxUnderWay, Retries, MaxLoads, InvocationCap, SessionCap, MaxCost} \subseteq Nat
  BY PluginHostAssumption

LEMMA CallsFinite ==
  ASSUME NEW S \in SUBSET Call
  PROVE  IsFiniteSet(S) /\ Cardinality(S) \in Nat
  BY Settings, FS_Subset, FS_CardinalityType

\* What more calls may cost, and what one more may.
LEMMA Costs ==
  /\ \A n \in Nat : MaxCost * n \in Nat /\ MaxCost * (n + 1) = MaxCost * n + MaxCost
  /\ \A n, m \in Nat : n <= m => MaxCost * n <= MaxCost * m
  /\ MaxCost * MaxUnderWay = MaxUnderWay * MaxCost /\ MaxUnderWay * MaxCost \in Nat
  <1>1. MaxCost \in Nat /\ MaxUnderWay \in Nat
    BY Settings
  <1>2. \A n \in Nat : MaxCost * n \in Nat /\ MaxCost * (n + 1) = MaxCost * n + MaxCost
    BY <1>1
  <1>3. ASSUME NEW n \in Nat, NEW m \in Nat, n <= m PROVE MaxCost * n <= MaxCost * m
    <2>1. PICK d \in Nat : m = n + d
      BY <1>3
    <2>2. MaxCost * m = MaxCost * n + MaxCost * d /\ MaxCost * d \in Nat /\ MaxCost * n \in Nat
      BY <1>1, <2>1
    <2> QED
      BY <2>2
  <1> QED
    BY <1>1, <1>2, <1>3

\* Fewer calls to charge, and nothing more charged: the bound still holds.
LEMMA LessToCharge ==
  ASSUME TypeOK, TypeOK', OvershootBounded, owed' <= owed, ToCharge' \subseteq ToCharge
  PROVE  OvershootBounded'
  <1> DEFINE n == Cardinality(ToCharge)
             m == Cardinality(ToCharge')
  <1>1. ToCharge \in SUBSET Call /\ ToCharge' \in SUBSET Call
    BY DEF ToCharge, UnderWay
  <1>2. n \in Nat /\ m \in Nat /\ IsFiniteSet(ToCharge)
    BY <1>1, CallsFinite
  <1>3. m <= n
    BY <1>2, FS_Subset
  <1>4. owed \in Int /\ owed' \in Int /\ SessionCap \in Int
    BY Settings DEF TypeOK
  <1>5. owed + MaxCost * n <= SessionCap + MaxUnderWay * MaxCost
    BY DEF OvershootBounded, ToCharge
  <1> HIDE DEF n, m
  <1>6. MaxCost * m <= MaxCost * n /\ MaxCost * m \in Int /\ MaxCost * n \in Int
        /\ MaxUnderWay * MaxCost \in Int
    BY <1>2, <1>3, Costs
  <1>7. owed' + MaxCost * m <= SessionCap + MaxUnderWay * MaxCost
    BY <1>4, <1>5, <1>6
  <1> QED
    BY <1>7 DEF OvershootBounded, ToCharge, m

\* Nothing over the cap is charged, and no more calls than may be are under way.
LEMMA WithinBounds ==
  ASSUME TypeOK', owed' <= SessionCap, Cardinality(UnderWay') <= MaxUnderWay
  PROVE  OvershootBounded'
  <1> DEFINE m == Cardinality(ToCharge')
             u == Cardinality(UnderWay')
  <1>1. ToCharge' \in SUBSET UnderWay' /\ UnderWay' \in SUBSET Call /\ ToCharge' \in SUBSET Call
    BY DEF ToCharge, UnderWay
  <1>2. u \in Nat /\ m \in Nat /\ IsFiniteSet(UnderWay')
    BY <1>1, CallsFinite
  <1>3. m <= u
    BY <1>1, <1>2, FS_Subset
  <1>4. owed' \in Int /\ SessionCap \in Int /\ MaxUnderWay \in Nat
    BY Settings DEF TypeOK
  <1>5. u <= MaxUnderWay
    OBVIOUS
  <1> HIDE DEF m, u
  <1>6. m <= MaxUnderWay
    BY <1>2, <1>3, <1>4, <1>5
  <1>7. MaxCost * m <= MaxUnderWay * MaxCost /\ MaxCost * m \in Int /\ MaxUnderWay * MaxCost \in Int
    <2>1. MaxCost * m <= MaxCost * MaxUnderWay
      BY <1>2, <1>4, <1>6, Costs
    <2> QED
      BY <1>2, <2>1, Costs
  <1>8. owed' + MaxCost * m <= SessionCap + MaxUnderWay * MaxCost
    BY <1>4, <1>7
  <1> QED
    BY <1>8 DEF OvershootBounded, ToCharge, m

\* A call that ends, whatever it is charged up to MaxCost.
LEMMA Charged ==
  ASSUME TypeOK, TypeOK', OvershootBounded, NEW c \in ToCharge, ToCharge' = ToCharge \ {c},
         owed' <= owed + MaxCost
  PROVE  OvershootBounded'
  <1> DEFINE n == Cardinality(ToCharge)
             m == Cardinality(ToCharge')
  <1>1. ToCharge \in SUBSET Call /\ ToCharge' \in SUBSET Call
    BY DEF ToCharge, UnderWay
  <1>2. n \in Nat /\ m \in Nat /\ IsFiniteSet(ToCharge)
    BY <1>1, CallsFinite
  <1>3. m = n - 1
    BY <1>2, FS_RemoveElement
  <1>4. owed \in Int /\ owed' \in Int /\ SessionCap \in Int /\ MaxCost \in Int
    BY Settings DEF TypeOK
  <1>5. owed + MaxCost * n <= SessionCap + MaxUnderWay * MaxCost
    BY DEF OvershootBounded, ToCharge
  <1> HIDE DEF n, m
  <1>6. n = m + 1
    BY <1>2, <1>3
  <1>7. MaxCost * n = MaxCost * m + MaxCost /\ MaxCost * m \in Int /\ MaxUnderWay * MaxCost \in Int
    BY <1>2, <1>6, Costs
  <1>8. owed' + MaxCost * m <= SessionCap + MaxUnderWay * MaxCost
    BY <1>4, <1>5, <1>7
  <1> QED
    BY <1>8 DEF OvershootBounded, ToCharge, m

\* The calls under way in a step of c that begins none.
LEMMA NoneBegins ==
  ASSUME TypeOK, TypeOK', Budget, UNCHANGED through,
         \A c \in Call : phase'[c] # phase[c] => phase[c] = "trying" /\ phase'[c] = "over"
  PROVE  /\ Cardinality(UnderWay') <= MaxUnderWay
         /\ \A c \in through' : phase'[c] # "new"
         /\ ToCharge' \subseteq ToCharge
  <1>1. UnderWay' \subseteq UnderWay
    BY DEF UnderWay
  <1>2. UnderWay \in SUBSET Call /\ UnderWay' \in SUBSET Call
    BY DEF UnderWay
  <1>3. /\ IsFiniteSet(UnderWay) /\ Cardinality(UnderWay) \in Nat
        /\ IsFiniteSet(UnderWay') /\ Cardinality(UnderWay') \in Nat
    BY <1>2, CallsFinite
  <1>4. Cardinality(UnderWay') <= Cardinality(UnderWay)
    BY <1>1, <1>3, FS_Subset
  <1>5. Cardinality(UnderWay') <= MaxUnderWay
    BY <1>3, <1>4, Settings DEF Budget
  <1>6. \A c \in through' : phase'[c] # "new"
    BY DEF Budget, TypeOK
  <1> QED
    BY <1>1, <1>5, <1>6 DEF ToCharge

----------------------------------------------------------------------------
(***************************************************************************)
(* Every action keeps the invariant                                        *)
(***************************************************************************)

LEMMA InitInv == Init => IInv
  <1> SUFFICES ASSUME Init PROVE IInv
    OBVIOUS
  <1>1. /\ loaded = <<>> /\ ready = {} /\ loads = 0
        /\ phase = [c \in Call |-> "new"] /\ tries = [c \in Call |-> 0]
        /\ through = {} /\ spend = 0 /\ owed = 0 /\ tracing = TRUE
        /\ active = {} /\ ended = {} /\ tasks = 0 /\ posts = [c \in Call |-> 0]
    BY DEF Init
  <1>2. <<>> \in Seq(Plugin) /\ IsInjective(<<>>) /\ ToSet(<<>>) = {}
    BY EmptySeq DEF IsInjective, ToSet
  <1>3. 0 \in 0..(Retries + 1) /\ 0 \in 0..MaxLoads /\ 0 \in 0..0 /\ 0 \in Nat
        /\ 0 <= MaxUnderWay /\ 0 <= SessionCap
    BY Settings
  <1>4. TypeOK
    BY <1>1, <1>2, <1>3 DEF TypeOK
  <1>5. UnderWay = {} /\ UnderWay \cap through = {}
    BY <1>1 DEF UnderWay
  <1>6. Cardinality({}) = 0
    BY FS_EmptySet
  <1>7. OvershootBounded
    <2>1. MaxCost * 0 = 0 /\ MaxUnderWay * MaxCost \in Nat /\ SessionCap \in Nat
      BY Costs, Settings
    <2>2. 0 + MaxCost * 0 <= SessionCap + MaxUnderWay * MaxCost
      BY <2>1
    <2> QED
      BY <1>1, <1>5, <1>6, <2>2 DEF OvershootBounded
  <1>8. Budget
    BY <1>1, <1>3, <1>5, <1>6, <1>7 DEF Budget
  <1>9. Posted
    BY <1>1 DEF Posted, TracesMatch
  <1>10. Attempts
    BY <1>1, Settings DEF Attempts
  <1> QED
    BY <1>4, <1>8, <1>9, <1>10 DEF IInv

\* What loading and unloading plugins P has to show: no call moves, and the
\* cap's session stays, or begins anew with the plugin.
LEMMA RegistryKeeps ==
  ASSUME IInv, NEW P, SetUpOrTornDown(P),
         loaded' \in Seq(Plugin), IsInjective(loaded'), ready' = ToSet(loaded'),
         ToSet(loaded) \ P \subseteq ToSet(loaded'),
         loads' \in 0..MaxLoads, active' \subseteq Call,
         UNCHANGED <<phase, tries, through, tracing, ended, tasks, posts>>
  PROVE  IInv'
  <1>1. TypeOK /\ Budget /\ Posted
    BY DEF IInv
  <1>2. spend' \in Nat /\ owed' \in 0..spend' /\ owed' <= owed
    <2>1. owed \in 0..spend /\ spend \in Nat
      BY <1>1 DEF TypeOK
    <2> QED
      BY <2>1 DEF SetUpOrTornDown
  <1>3. ready' \subseteq Plugin
    <2>1. \A i \in DOMAIN loaded' : loaded'[i] \in Plugin
      BY LenProperties, ElementOfSeq
    <2> QED
      BY <2>1 DEF ToSet
  <1>4. TypeOK'
    BY <1>1, <1>2, <1>3 DEF TypeOK
  <1>5. /\ Cardinality(UnderWay') <= MaxUnderWay
        /\ \A c \in through' : phase'[c] # "new"
        /\ ToCharge' \subseteq ToCharge
    BY <1>1, <1>4, NoneBegins
  <1>6. ~Loaded(CostCap)' => owed' = 0
    <2>1. CASE CostCap \in P
      BY <2>1 DEF SetUpOrTornDown
    <2>2. CASE CostCap \notin P
      <3>1. ~Loaded(CostCap)' => ~Loaded(CostCap)
        BY <2>2 DEF Loaded
      <3> QED
        BY <1>1, <2>2, <3>1 DEF Budget, SetUpOrTornDown
    <2> QED
      BY <2>1, <2>2
  <1>7. OvershootBounded'
    BY <1>1, <1>2, <1>4, <1>5, LessToCharge DEF Budget
  <1>8. Posted'
    BY <1>1 DEF Posted, TracesMatch
  <1>9. Attempts'
    BY DEF IInv, Attempts
  <1> QED
    BY <1>4, <1>5, <1>6, <1>7, <1>8, <1>9 DEF IInv, Budget

LEMMA LoadManyKeeps ==
  ASSUME IInv, NEW ps \in Lists, NEW k \in 0..Len(ps), LoadMany(ps, k)
  PROVE  IInv'
  <1> DEFINE begun == SubSeq(ps, 1, k)
  <1>1. TypeOK /\ ps \in Seq(Plugin) /\ Len(ps) \in Nat /\ MaxLoads \in Nat
    BY PluginHostAssumption, LenProperties DEF IInv
  <1>2. /\ loads < MaxLoads /\ loads' = loads + 1
        /\ \A i \in 1..k : ~Loaded(ps[i])
        /\ IsInjective(begun)
        /\ loaded' = loaded \o begun /\ ready' = ready \cup ToSet(begun)
        /\ SetUpOrTornDown(ToSet(begun))
        /\ UNCHANGED <<phase, tries, through, tracing, active, ended, tasks, posts>>
    BY DEF LoadMany, traces
  <1>3. /\ begun \in Seq(Plugin) /\ DOMAIN begun = 1..k
        /\ \A i \in 1..k : begun[i] = ps[i]
    <2>1. /\ 1 \in Int /\ k \in Int /\ k \in Nat
          /\ \A i \in 1..k : ps[i] \in Plugin
      BY <1>1, ElementOfSeq
    <2>2. /\ begun \in Seq(Plugin)
          /\ Len(begun) = IF 1 <= k THEN k - 1 + 1 ELSE 0
          /\ \A i \in 1..(k - 1 + 1) : begun[i] = ps[1 + i - 1]
      BY <2>1, SubSeqProperties
    <2>3. DOMAIN begun = 1..Len(begun)
      BY <2>2, LenProperties
    <2> HIDE DEF begun
    <2>4. Len(begun) = k /\ \A i \in 1..k : begun[i] = ps[i]
      BY <2>1, <2>2
    <2> QED
      BY <2>2, <2>3, <2>4
  <1> HIDE DEF begun
  <1>4. loaded \in Seq(Plugin) /\ IsInjective(loaded) /\ ready = ToSet(loaded)
    BY <1>1 DEF TypeOK
  <1>5. \A i \in DOMAIN begun : begun[i] \notin ToSet(loaded)
    BY <1>2, <1>3 DEF Loaded
  <1>6. /\ loaded' \in Seq(Plugin) /\ IsInjective(loaded')
        /\ ToSet(loaded') = ToSet(loaded) \cup ToSet(begun)
    BY <1>2, <1>3, <1>4, <1>5, LoadedBehind
  <1>7. loads' \in 0..MaxLoads /\ active' \subseteq Call
    BY <1>1, <1>2 DEF TypeOK
  <1>8. ready' = ToSet(loaded') /\ ToSet(loaded) \ ToSet(begun) \subseteq ToSet(loaded')
    BY <1>2, <1>4, <1>6
  <1> QED
    BY <1>2, <1>6, <1>7, <1>8, RegistryKeeps

LEMMA UnloadKeeps ==
  ASSUME IInv, NEW p \in Plugin, Unload(p)
  PROVE  IInv'
  <1>1. PICK i \in DOMAIN loaded : loaded[i] = p /\ loaded' = RemoveAt(loaded, i)
    BY DEF Unload
  <1>2. /\ ready' = ready \ {p} /\ SetUpOrTornDown({p}) /\ Forgotten({p})
        /\ UNCHANGED <<loads, phase, tries, through, tracing, ended, tasks, posts>>
    BY DEF Unload, TornDown
  <1>3. loaded \in Seq(Plugin) /\ IsInjective(loaded) /\ ready = ToSet(loaded)
        /\ active \subseteq Call /\ loads \in 0..MaxLoads
    BY DEF IInv, TypeOK
  <1>4. /\ loaded' \in Seq(Plugin) /\ IsInjective(loaded')
        /\ ToSet(loaded') = ToSet(loaded) \ {p}
    BY <1>1, <1>3, TakenOut
  <1>5. active' \subseteq Call /\ loads' \in 0..MaxLoads
    BY <1>2, <1>3 DEF Forgotten
  <1>6. ready' = ToSet(loaded') /\ ToSet(loaded) \ {p} \subseteq ToSet(loaded')
    BY <1>2, <1>3, <1>4
  <1> QED
    BY <1>2, <1>4, <1>5, <1>6, RegistryKeeps

LEMMA UnloadAllKeeps ==
  ASSUME IInv, UnloadAll
  PROVE  IInv'
  <1>1. /\ loaded' = <<>> /\ ready' = ready \ ToSet(loaded)
        /\ SetUpOrTornDown(ToSet(loaded)) /\ Forgotten(ToSet(loaded))
        /\ UNCHANGED <<loads, phase, tries, through, tracing, ended, tasks, posts>>
    BY DEF UnloadAll, TornDown
  <1>2. ready = ToSet(loaded) /\ active \subseteq Call /\ loads \in 0..MaxLoads
    BY DEF IInv, TypeOK
  <1>3. loaded' \in Seq(Plugin) /\ IsInjective(loaded') /\ ToSet(loaded') = {}
    BY <1>1, EmptySeq DEF IsInjective, ToSet
  <1>4. active' \subseteq Call /\ loads' \in 0..MaxLoads
    BY <1>1, <1>2 DEF Forgotten
  <1>5. ready' = ToSet(loaded') /\ ToSet(loaded) \ ToSet(loaded) \subseteq ToSet(loaded')
    BY <1>1, <1>2, <1>3
  <1> QED
    BY <1>1, <1>3, <1>4, <1>5, RegistryKeeps

\* The cap looks at what was spent and at how many calls are under way.
LEMMA BeginKeeps ==
  ASSUME IInv, NEW c \in Call, Begin(c)
  PROVE  IInv'
  <1>1. TypeOK /\ Budget /\ Posted
    BY DEF IInv
  <1>2. /\ phase[c] = "new" /\ Cardinality(UnderWay) < MaxUnderWay /\ KeepTrace(c)
        /\ UNCHANGED <<loaded, ready, loads, tries, spend, owed, tracing, ended, tasks, posts>>
    BY DEF Begin, registry
  <1>3. PICK p \in {"over", "trying"} : phase' = [phase EXCEPT ![c] = p]
    BY DEF Begin
  <1>4. PICK estimate \in Estimate :
          LET judged == Loaded(CostCap) => estimate \in Nat IN
            /\ through' = IF LetsBy(estimate) /\ judged THEN through \cup {c} ELSE through
    BY DEF Begin
  <1>5. active' \subseteq Call /\ through' \subseteq Call
    BY <1>1, <1>2, <1>4 DEF TypeOK, KeepTrace
  <1>6. TypeOK'
    BY <1>1, <1>2, <1>3, <1>5 DEF TypeOK
  <1>7. phase'[c] = p /\ \A d \in Call \ {c} : phase'[d] = phase[d]
    BY <1>1, <1>3 DEF TypeOK
  <1>8. UnderWay' \subseteq UnderWay \cup {c}
    BY <1>7 DEF UnderWay
  <1>9. Cardinality(UnderWay') <= MaxUnderWay
    <2>1. UnderWay \in SUBSET Call /\ UnderWay' \in SUBSET Call
          /\ UnderWay \cup {c} \in SUBSET Call /\ c \notin UnderWay
      BY <1>2 DEF UnderWay
    <2>2. /\ IsFiniteSet(UnderWay) /\ Cardinality(UnderWay) \in Nat
          /\ Cardinality(UnderWay') \in Nat
          /\ IsFiniteSet(UnderWay \cup {c}) /\ Cardinality(UnderWay \cup {c}) \in Nat
      BY <2>1, CallsFinite
    <2>3. Cardinality(UnderWay \cup {c}) = Cardinality(UnderWay) + 1
      BY <2>1, <2>2, FS_AddElement
    <2>4. Cardinality(UnderWay') <= Cardinality(UnderWay \cup {c})
      BY <1>8, <2>2, FS_Subset
    <2>5. MaxUnderWay \in Nat
      BY Settings
    <2> QED
      BY <1>2, <2>2, <2>3, <2>4, <2>5
  <1>10. \A d \in through' : phase'[d] # "new"
    BY <1>1, <1>3, <1>4, <1>7 DEF Budget, TypeOK
  <1>11. ~Loaded(CostCap)' => owed' = 0
    BY <1>1, <1>2 DEF Budget, Loaded
  <1>12. OvershootBounded'
    <2>1. CASE c \in through'
      <3>1. LetsBy(estimate) /\ (Loaded(CostCap) => estimate \in Nat)
        BY <1>1, <1>2, <1>4, <2>1 DEF Budget
      <3>2. owed <= SessionCap
        <4>1. CASE ~Loaded(CostCap)
          BY <1>1, <4>1, Settings DEF Budget
        <4>2. CASE Loaded(CostCap)
          <5>1. estimate \in Nat /\ spend \in Nat /\ owed \in 0..spend /\ SessionCap \in Nat
            BY <1>1, <3>1, <4>2, PluginHostAssumption DEF TypeOK
          <5>2. estimate # NaN /\ estimate # Unreadable
            BY <5>1, PluginHostAssumption
          <5>3. spend + estimate <= SessionCap
            BY <3>1, <4>2, <5>2 DEF LetsBy, WithinCap
          <5> QED
            BY <5>1, <5>3
        <4> QED
          BY <4>1, <4>2
      <3> QED
        BY <1>2, <1>6, <1>9, <3>2, WithinBounds
    <2>2. CASE c \notin through'
      <3>1. through' = through
        BY <1>4, <2>2
      <3>2. ToCharge' \subseteq ToCharge
        BY <1>8, <2>2, <3>1 DEF ToCharge
      <3>3. owed' <= owed
        BY <1>1, <1>2 DEF TypeOK
      <3> QED
        BY <1>1, <1>6, <3>2, <3>3, LessToCharge DEF Budget
    <2> QED
      BY <2>1, <2>2
  <1>13. Posted'
    BY <1>1, <1>2 DEF Posted, TracesMatch
  <1>14. Attempts'
    BY <1>2, <1>3, <1>7 DEF IInv, Attempts
  <1> QED
    BY <1>6, <1>9, <1>10, <1>11, <1>12, <1>13, <1>14 DEF IInv, Budget

\* A charge comes with a call less to charge.
LEMMA SucceedKeeps ==
  ASSUME IInv, NEW c \in Call, Succeed(c)
  PROVE  IInv'
  <1>1. TypeOK /\ Budget /\ Posted
    BY DEF IInv
  <1>2. /\ phase[c] = "trying" /\ phase' = [phase EXCEPT ![c] = "over"]
        /\ SendNewTrace
        /\ UNCHANGED <<loaded, ready, loads, tries, through, tracing, active, ended, posts>>
    BY DEF Succeed, registry
  <1>3. PICK cost \in 0..MaxCost : Charge(c, cost)
    BY Settings DEF Succeed, Cost
  <1>4. owed \in 0..spend /\ spend \in Nat /\ cost \in Nat /\ MaxCost \in Nat /\ cost <= MaxCost
    BY <1>1, Settings DEF TypeOK
  <1>5. /\ spend' \in Nat /\ owed' \in 0..spend'
        /\ owed' <= owed + MaxCost
        /\ c \notin through => owed' = owed
    BY <1>3, <1>4 DEF Charge
  <1>6. tasks' \in Nat
    BY <1>1, <1>2 DEF TypeOK, SendNewTrace
  <1>7. TypeOK'
    BY <1>1, <1>2, <1>5, <1>6 DEF TypeOK
  <1>8. phase'[c] = "over" /\ \A d \in Call \ {c} : phase'[d] = phase[d]
    BY <1>1, <1>2 DEF TypeOK
  <1>9. /\ Cardinality(UnderWay') <= MaxUnderWay
        /\ \A d \in through' : phase'[d] # "new"
        /\ ToCharge' \subseteq ToCharge
    BY <1>1, <1>2, <1>7, <1>8, NoneBegins
  <1>10. ~Loaded(CostCap)' => owed' = 0
    BY <1>1, <1>2, <1>3 DEF Budget, Loaded, Charge
  <1>11. OvershootBounded'
    <2>1. CASE c \in through
      <3>1. c \in ToCharge /\ ToCharge' = ToCharge \ {c}
        BY <1>2, <1>8, <2>1 DEF ToCharge, UnderWay
      <3> QED
        BY <1>1, <1>5, <1>7, <3>1, Charged DEF Budget
    <2>2. CASE c \notin through
      <3>1. owed' <= owed
        BY <1>4, <1>5, <2>2
      <3> QED
        BY <1>1, <1>7, <1>9, <3>1, LessToCharge DEF Budget
    <2> QED
      BY <2>1, <2>2
  <1>12. Posted'
    BY <1>1, <1>2 DEF Posted, TracesMatch
  <1>13. Attempts'
    BY <1>2, <1>8 DEF IInv, Attempts
  <1> QED
    BY <1>7, <1>9, <1>10, <1>11, <1>12, <1>13 DEF IInv, Budget

\* A call that fails again or ends, and a task that ends: nothing is charged.
LEMMA UnchargedKeeps ==
  ASSUME IInv, TypeOK', Attempts', Posted', UNCHANGED <<loaded, through, spend, owed>>,
         \A c \in Call : phase'[c] # phase[c] => phase[c] = "trying" /\ phase'[c] = "over"
  PROVE  IInv'
  <1>1. TypeOK /\ Budget
    BY DEF IInv
  <1>2. /\ Cardinality(UnderWay') <= MaxUnderWay
        /\ \A d \in through' : phase'[d] # "new"
        /\ ToCharge' \subseteq ToCharge
    BY <1>1, NoneBegins
  <1>3. owed' <= owed
    BY <1>1 DEF TypeOK
  <1>4. OvershootBounded'
    BY <1>1, <1>2, <1>3, LessToCharge DEF Budget
  <1>5. ~Loaded(CostCap)' => owed' = 0
    BY <1>1 DEF Budget, Loaded
  <1> QED
    BY <1>2, <1>4, <1>5 DEF IInv, Budget

\* The traces that an error ends had no end, and are those of its agent.
LEMMA FailKeeps ==
  ASSUME IInv, NEW c \in Call, Fail(c)
  PROVE  IInv'
  <1>1. TypeOK /\ Posted
    BY DEF IInv
  <1>2. /\ phase[c] = "trying" /\ tries' = [tries EXCEPT ![c] = tries[c] + 1]
        /\ phase' = [phase EXCEPT ![c] = IF tries[c] = Retries THEN "over" ELSE phase[c]]
        /\ UNCHANGED <<loaded, ready, loads, through, spend, owed, tracing, active>>
    BY DEF Fail, registry, budget
  <1>3. PICK D \in SUBSET Told(c) :
          /\ ended' = ended \cup {<<d, c>> : d \in D}
          /\ tasks' = tasks + Cardinality(D)
          /\ posts' = [d \in Call |-> IF d \in D THEN posts[d] + 1 ELSE posts[d]]
    BY DEF Fail, SendErrors
  <1>4. /\ D \subseteq Call
        /\ \A d \in D : AgentOf[d] = AgentOf[c] /\ ~\E e \in ended : e[1] = d
    BY <1>1, <1>3 DEF Told, TypeOK
  <1>5. \A d \in Call : posts[d] \in Nat /\ posts[d] <= 1
    BY <1>1 DEF Posted, TracesMatch, TypeOK
  <1>6. \A d \in D : posts[d] = 0
    BY <1>1, <1>4 DEF Posted
  <1>7. posts' \in [Call -> Nat] /\ ended' \subseteq Call \X Call /\ tasks' \in Nat
    <2>1. Cardinality(D) \in Nat
      BY <1>4, CallsFinite
    <2> QED
      <3>1. posts' \in [Call -> Nat]
        BY <1>3, <1>5
      <3>2. ended' \subseteq Call \X Call
        BY <1>1, <1>3, <1>4 DEF TypeOK
      <3>3. tasks' \in Nat
        BY <1>1, <1>3, <2>1 DEF TypeOK
      <3> QED
        BY <3>1, <3>2, <3>3
  <1>8. tries' \in [Call -> 0..(Retries + 1)]
    <2>1. tries[c] \in 0..(Retries + 1) /\ Retries \in Nat /\ tries[c] <= Retries
      BY <1>1, <1>2, Settings DEF TypeOK, IInv, Attempts
    <2> QED
      BY <1>1, <1>2, <2>1 DEF TypeOK
  <1>9. TypeOK'
    BY <1>1, <1>2, <1>7, <1>8 DEF TypeOK
  <1>10. \A d \in Call : posts'[d] <= 1
    BY <1>3, <1>5, <1>6
  <1>11. \A e \in ended' : AgentOf[e[1]] = AgentOf[e[2]]
    <2>1. \A e \in ended : AgentOf[e[1]] = AgentOf[e[2]]
      BY <1>1 DEF Posted, TracesMatch
    <2>2. \A d \in D : AgentOf[<<d, c>>[1]] = AgentOf[<<d, c>>[2]]
      BY <1>4
    <2> QED
      BY <1>3, <2>1, <2>2
  <1>12. \A d \in Call : posts'[d] = 0 \/ \E e \in ended' : e[1] = d
    <2> SUFFICES ASSUME NEW d \in Call, posts'[d] # 0 PROVE \E e \in ended' : e[1] = d
      OBVIOUS
    <2>1. CASE d \in D
      <3>1. <<d, c>> \in ended' /\ <<d, c>>[1] = d
        BY <1>3, <2>1
      <3> QED
        BY <3>1
    <2>2. CASE d \notin D
      <3>1. posts[d] # 0
        BY <1>3, <2>2
      <3>2. PICK e \in ended : e[1] = d
        BY <1>1, <3>1 DEF Posted
      <3> QED
        BY <1>3, <3>2
    <2> QED
      BY <2>1, <2>2
  <1>13. Posted'
    BY <1>10, <1>11, <1>12 DEF Posted, TracesMatch
  <1>14. \A d \in Call : phase'[d] # phase[d] => phase[d] = "trying" /\ phase'[d] = "over"
    BY <1>1, <1>2 DEF TypeOK
  <1>15. Attempts'
    <2>1. tries[c] \in 0..(Retries + 1) /\ Retries \in Nat /\ tries[c] <= Retries
      BY <1>1, <1>2, Settings DEF TypeOK, IInv, Attempts
    <2>2. phase'[c] # "over" => tries'[c] <= Retries
      BY <1>1, <1>2, <2>1 DEF TypeOK
    <2>3. \A d \in Call \ {c} : phase'[d] = phase[d] /\ tries'[d] = tries[d]
      BY <1>1, <1>2 DEF TypeOK
    <2> QED
      BY <2>2, <2>3 DEF IInv, Attempts
  <1> QED
    BY <1>2, <1>9, <1>13, <1>14, <1>15, UnchargedKeeps

LEMMA EndKeeps ==
  ASSUME IInv, NEW c \in Call, End(c)
  PROVE  IInv'
  <1>1. TypeOK /\ Posted /\ Attempts
    BY DEF IInv
  <1>2. /\ phase[c] = "trying" /\ phase' = [phase EXCEPT ![c] = "over"]
        /\ UNCHANGED <<loaded, ready, loads, tries, through, spend, owed, tracing, active, ended,
                       tasks, posts>>
    BY DEF End, registry, budget, traces
  <1>3. TypeOK'
    BY <1>1, <1>2 DEF TypeOK
  <1>4. Posted'
    BY <1>1, <1>2 DEF Posted, TracesMatch
  <1>5. \A d \in Call : phase'[d] # phase[d] => phase[d] = "trying" /\ phase'[d] = "over"
    BY <1>1, <1>2 DEF TypeOK
  <1>6. Attempts'
    BY <1>1, <1>2, <1>5 DEF Attempts
  <1> QED
    BY <1>2, <1>3, <1>4, <1>5, <1>6, UnchargedKeeps

LEMMA EndTraceKeeps ==
  ASSUME IInv, EndTrace \/ UNCHANGED vars
  PROVE  IInv'
  <1>1. TypeOK /\ Posted /\ Attempts
    BY DEF IInv
  <1>2. /\ tasks' = tasks \/ (tasks > 0 /\ tasks' = tasks - 1)
        /\ tracing' \in BOOLEAN
        /\ UNCHANGED <<loaded, ready, loads, phase, tries, through, spend, owed, active, ended,
                       posts>>
    BY <1>1 DEF EndTrace, vars, registry, budget, traces, TypeOK
  <1>3. TypeOK'
    BY <1>1, <1>2 DEF TypeOK
  <1>4. Posted'
    BY <1>1, <1>2 DEF Posted, TracesMatch
  <1>5. Attempts'
    BY <1>1, <1>2 DEF Attempts
  <1> QED
    BY <1>2, <1>3, <1>4, <1>5, UnchargedKeeps

LEMMA NextInv == IInv /\ [Next]_vars => IInv'
  <1> SUFFICES ASSUME IInv, [Next]_vars PROVE IInv'
    OBVIOUS
  <1>1. ASSUME NEW ps \in Lists, NEW k \in 0..Len(ps), LoadMany(ps, k) PROVE IInv'
    BY <1>1, LoadManyKeeps
  <1>2. ASSUME NEW p \in Plugin, Unload(p) PROVE IInv'
    BY <1>2, UnloadKeeps
  <1>3. ASSUME NEW c \in Call, Begin(c) \/ Succeed(c) \/ Fail(c) \/ End(c) PROVE IInv'
    BY <1>3, BeginKeeps, SucceedKeeps, FailKeeps, EndKeeps
  <1> QED
    BY <1>1, <1>2, <1>3, UnloadAllKeeps, EndTraceKeeps DEF Next

----------------------------------------------------------------------------
(***************************************************************************)
(* The theorems                                                            *)
(***************************************************************************)

\* IInv holds in every state of the plugin host.
THEOREM Invariant == Spec => []IInv
  BY InitInv, NextInv, PTL DEF Spec

\* The variables keep their types; the registry holds each plugin once, and
\* just those that are set up.
THEOREM TypeCorrect == Spec => []TypeOK
  <1>1. IInv => TypeOK
    BY DEF IInv
  <1> QED
    BY <1>1, Invariant, PTL

\* Between the check of the cap and the charge anything may come: other
\* checks, other charges, a new session, calls that go by with an estimate the
\* cap cannot judge.  What was charged to the calls that it did judge and let
\* through exceeds it by what the calls under way can cost at most.
THEOREM OvershootIsBounded == Spec => []OvershootBounded
  <1>1. IInv => OvershootBounded
    BY DEF IInv, Budget
  <1> QED
    BY <1>1, Invariant, PTL

\* However the calls of an agent fail and fail again beside each other, a
\* trace is posted once, and for an error of its own agent.
THEOREM TracesAlwaysMatch == Spec => []TracesMatch
  <1>1. IInv => TracesMatch
    BY DEF IInv, Posted
  <1> QED
    BY <1>1, Invariant, PTL

=============================================================================
