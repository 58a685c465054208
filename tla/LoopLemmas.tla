----------------------------- MODULE LoopLemmas ------------------------------
(***************************************************************************)
(* Lemmas that proofs about several components need: a loop over a list is *)
(* a recursive function over 0..N in the models, and what it comes to is   *)
(* proved here by induction over the sets of numbers it holds for; and the *)
(* elements of a sequence that grows.                                      *)
(***************************************************************************)
EXTENDS Integers, SequencesExt, SequenceTheorems, WellFoundedInduction, TLAPS

\* Induction over the natural numbers, for a set of them.
LEMMA SetInduction ==
  ASSUME NEW S, 0 \in S, \A n \in Nat : n \in S => n + 1 \in S
  PROVE  Nat \subseteq S
  <1> SUFFICES ASSUME Nat \ S # {} PROVE FALSE
    OBVIOUS
  <1>1. PICK m \in Nat \ S : \A k \in Nat \ S : <<k, m>> \notin OpToRel(<, Nat)
    BY WFMin, NatLessThanWellFounded, Zenon
  <1>2. \A k \in Nat \ S : ~(k < m)
    BY <1>1, Zenon DEF OpToRel
  <1>3. m # 0 /\ m - 1 \in Nat /\ m - 1 < m
    OBVIOUS
  <1>4. m - 1 \in S
    BY <1>2, <1>3
  <1>5. (m - 1) + 1 = m
    OBVIOUS
  <1> QED
    BY <1>3, <1>4, <1>5

\* What a loop over 1..N has come to after each of its turns.
Turns(N, V, first, turn) ==
  {g \in [0..N -> V] : g[0] = first /\ \A i \in 1..N : g[i] = turn[<<i, g[i - 1]>>]}

LEMMA TurnsExist ==
  ASSUME NEW N, NEW V, NEW first, NEW turn,
         N \in Nat, first \in V, turn \in [(1..N) \X V -> V]
  PROVE  Turns(N, V, first, turn) # {}
  <1> DEFINE Is(g, n) ==
               /\ g \in [0..n -> V]
               /\ g[0] = first
               /\ \A i \in 1..n : g[i] = turn[<<i, g[i - 1]>>]
             S == {n \in Nat : n <= N => \E g : Is(g, n)}
  <1>1. 0 \in S
    <2>1. Is([i \in 0..0 |-> first], 0)
      OBVIOUS
    <2> QED
      BY <2>1
  <1>2. ASSUME NEW n \in Nat, n \in S PROVE n + 1 \in S
    <2> SUFFICES ASSUME n + 1 <= N PROVE \E g : Is(g, n + 1)
      OBVIOUS
    <2>1. PICK g : Is(g, n)
      BY <1>2
    <2> DEFINE h == [i \in 0..(n + 1) |-> IF i = n + 1 THEN turn[<<i, g[n]>>] ELSE g[i]]
    <2>2. g[n] \in V /\ n + 1 \in 1..N
      BY <2>1
    <2>3. turn[<<n + 1, g[n]>>] \in V
      BY <2>2
    <2>4. h \in [0..(n + 1) -> V]
      BY <2>1, <2>3
    <2>5. h[0] = first
      BY <2>1
    <2>6. ASSUME NEW i \in 1..(n + 1) PROVE h[i] = turn[<<i, h[i - 1]>>]
      <3>1. CASE i = n + 1
        BY <3>1
      <3>2. CASE i # n + 1
        <4>1. i \in 1..n /\ i \in 0..(n + 1) /\ i - 1 \in 0..(n + 1) /\ i - 1 # n + 1
          BY <3>2
        <4>2. h[i] = g[i] /\ h[i - 1] = g[i - 1]
          BY <3>2, <4>1
        <4> QED
          BY <2>1, <4>1, <4>2
      <3> QED
        BY <3>1, <3>2
    <2> QED
      BY <2>4, <2>5, <2>6
  <1> HIDE DEF S
  <1>3. N \in S
    BY <1>1, <1>2, SetInduction
  <1> QED
    BY <1>3 DEF S, Turns

\* What holds at first, and after a turn if it did before, holds throughout.
LEMMA Throughout ==
  ASSUME NEW N \in Nat, NEW S, 0 \in S, \A i \in 1..N : i - 1 \in S => i \in S
  PROVE  0..N \subseteq S
  <1> DEFINE T == {n \in Nat : n <= N => n \in S}
  <1>1. ASSUME NEW n \in Nat, n \in T PROVE n + 1 \in T
    <2> SUFFICES ASSUME n + 1 <= N PROVE n + 1 \in S
      OBVIOUS
    <2>1. n + 1 \in 1..N /\ (n + 1) - 1 = n /\ n \in S
      BY <1>1
    <2> QED
      BY <2>1
  <1>2. 0 \in T
    OBVIOUS
  <1> HIDE DEF T
  <1>3. Nat \subseteq T
    BY <1>1, <1>2, SetInduction
  <1> QED
    BY <1>3 DEF T

\* Appending to a sequence adds one element to its set.
LEMMA SetOfAppend ==
  ASSUME NEW S, NEW s \in Seq(S), NEW x \in S
  PROVE  /\ Append(s, x) \in Seq(S)
         /\ ToSet(Append(s, x)) = ToSet(s) \cup {x}
         /\ Len(Append(s, x)) = Len(s) + 1
  <1> DEFINE a == Append(s, x)
  <1>1. /\ a \in Seq(S)
        /\ Len(s) \in Nat
        /\ Len(a) = Len(s) + 1
        /\ \A i \in 1..Len(s) : a[i] = s[i]
        /\ a[Len(s) + 1] = x
    BY AppendProperties, LenProperties
  <1>2. DOMAIN a = 1..(Len(s) + 1) /\ DOMAIN s = 1..Len(s)
    BY <1>1, LenProperties
  <1>3. 1..(Len(s) + 1) = 1..Len(s) \cup {Len(s) + 1}
    BY <1>1
  <1>4. ASSUME NEW y \in ToSet(a) PROVE y \in ToSet(s) \cup {x}
    <2>1. PICK i \in DOMAIN a : y = a[i]
      BY <1>4 DEF ToSet
    <2> HIDE DEF a
    <2> QED
      BY <1>1, <1>2, <1>3, <2>1 DEF ToSet
  <1>5. ASSUME NEW y \in ToSet(s) \cup {x} PROVE y \in ToSet(a)
    <2>1. CASE y = x
      <3> HIDE DEF a
      <3> QED
        BY <1>1, <1>2, <1>3, <2>1 DEF ToSet
    <2>2. CASE y \in ToSet(s)
      <3>1. PICK i \in 1..Len(s) : y = s[i]
        BY <1>2, <2>2 DEF ToSet
      <3>2. y = a[i] /\ i \in DOMAIN a
        <4> HIDE DEF a
        <4> QED
          BY <1>1, <1>2, <1>3, <3>1
      <3> QED
        BY <3>2 DEF ToSet
    <2> QED
      BY <1>5, <2>1, <2>2
  <1>6. ToSet(a) = ToSet(s) \cup {x}
    BY <1>4, <1>5
  <1> QED
    BY <1>1, <1>6

=============================================================================
