--------------------------- MODULE WorkflowProofs ----------------------------
(***************************************************************************)
(* What TLAPS proves of Workflow, for any agents and edges, any number of  *)
(* runs and any bounds: that the depth-first search finds a cycle just if  *)
(* there is one, and Kahn's algorithm sorts just if there is none; that    *)
(* every graph that can be built is sound; type correctness; and that a    *)
(* run which resumes where the checkpoint leads up to misses no output.    *)
(***************************************************************************)
EXTENDS Workflow, LoopLemmas, SequenceTheorems, FiniteSetTheorems

----------------------------------------------------------------------------
(***************************************************************************)
(* The depth-first search of detect_cycle                                  *)
(***************************************************************************)

\* What a search from some path may be called with, and what it may come to.
Call(N) == [path : Seq(N) \ {<<>>}, black : SUBSET N]
Outcome(N) == [cycle : Seq(N), black : SUBSET N]

\* The states of the loop that visits the nodes of a list, as the LETs of Dfs
\* and DetectCycle define it.
VisitAll(search, path, black, list) ==
  CHOOSE after : after = [i \in 0..Len(list) |->
    IF i = 0 THEN [cycle |-> <<>>, black |-> black]
    ELSE Visit(search, path, after[i - 1], list[i])]

\* _dfs() is such a loop over the successors of the path's last node, which is
\* explored then.
LEMMA DfsVisitsAll ==
  ASSUME NEW search, NEW A, NEW path, NEW black
  PROVE  Dfs(search, A, path, black) =
           [VisitAll(search, path, black, A[Last(path)])[Len(A[Last(path)])]
              EXCEPT !.black = @ \cup {Last(path)}]
  BY DEF Dfs, VisitAll

\* detect_cycle() is one over all nodes, from no path.
LEMMA DetectCycleVisitsAll ==
  ASSUME NEW N, NEW A
  PROVE  DetectCycle(N, A) =
           VisitAll(Search(N, A), <<>>, {}, SetToSeq(N))[Len(SetToSeq(N))].cycle
  BY DEF DetectCycle, VisitAll

\* A function that does what the search does if it is called with more.
IsSearch(g, N, A) ==
  g = [call \in Call(N) |-> Dfs(g, A, call.path, call.black)]

\* The search is a function that calls itself.
LEMMA SearchChosen ==
  ASSUME NEW N, NEW A
  PROVE  Search(N, A) = CHOOSE search : IsSearch(search, N, A)
  BY DEF Search, IsSearch, Call

\* The nodes of the path from v on, and v again.
LEMMA CycleToIs ==
  ASSUME NEW N, NEW path \in Seq(N), NEW v \in ToSet(path)
  PROVE  \E i \in 1..Len(path) :
           LET c == CycleTo(path, v)
               n == Len(path) - i + 1
           IN  /\ path[i] = v
               /\ n \in Nat \ {0}
               /\ c \in Seq(N)
               /\ Len(c) = n + 1
               /\ \A j \in 1..n : c[j] = path[i + j - 1]
               /\ c[n + 1] = v
  <1> DEFINE m == Len(path)
             i == CHOOSE k \in DOMAIN path : path[k] = v
             tail == SubSeq(path, i, m)
             n == m - i + 1
  <1>1. m \in Nat /\ DOMAIN path = 1..m /\ path \in [1..m -> N]
    BY LenProperties
  <1>2. i \in 1..m /\ path[i] = v
    BY <1>1 DEF ToSet
  <1>3. CycleTo(path, v) = Append(tail, v)
    BY DEF CycleTo
  <1> HIDE DEF i
  <1>4. n \in Nat \ {0} /\ v \in N
    BY <1>1, <1>2
  <1>5. \A j \in i..m : path[j] \in N
    BY <1>1, <1>2
  <1> HIDE DEF m
  <1>6. /\ tail \in Seq(N) /\ Len(tail) = n
        /\ \A j \in 1..n : tail[j] = path[i + j - 1]
    BY <1>1, <1>2, <1>5, SubSeqProperties
  <1> HIDE DEF tail, n
  <1>7. /\ Append(tail, v) \in Seq(N) /\ Len(Append(tail, v)) = n + 1
        /\ \A j \in 1..n : Append(tail, v)[j] = tail[j]
        /\ Append(tail, v)[n + 1] = v
    BY <1>4, <1>6, AppendProperties
  <1> QED
    BY <1>2, <1>3, <1>4, <1>6, <1>7 DEF n, m

\* What the search gives for a call from the path.
Called(search, path, v, black) == search[[path |-> Append(path, v), black |-> black]]
Answers(search, N, path) ==
  \A v \in N \ ToSet(path), black \in SUBSET N :
    Called(search, path, v, black) \in Outcome(N)

\* A visit comes to what a search may come to.
LEMMA VisitType ==
  ASSUME NEW N, NEW path \in Seq(N), NEW search, Answers(search, N, path),
         NEW s \in Outcome(N), NEW v \in N
  PROVE  Visit(search, path, s, v) \in Outcome(N)
  <1>1. s.black \in SUBSET N /\ s.cycle \in Seq(N)
    BY DEF Outcome
  <1>2. v \notin ToSet(path) =>
          search[[path |-> Append(path, v), black |-> s.black]] \in Outcome(N)
    BY <1>1 DEF Answers, Called
  <1>3. v \in ToSet(path) => CycleTo(path, v) \in Seq(N)
    BY CycleToIs
  <1>4. v \in ToSet(path) => [s EXCEPT !.cycle = CycleTo(path, v)] \in Outcome(N)
    BY <1>1, <1>3 DEF Outcome
  <1> QED
    BY <1>2, <1>4 DEF Visit

\* That definition of the loop is one: it starts, and visits node by node.
LEMMA VisitAllRuns ==
  ASSUME NEW N, NEW path \in Seq(N), NEW search, Answers(search, N, path),
         NEW black \in SUBSET N, NEW list \in Seq(N)
  PROVE  LET after == VisitAll(search, path, black, list) IN
           /\ after \in [0..Len(list) -> Outcome(N)]
           /\ after[0] = [cycle |-> <<>>, black |-> black]
           /\ \A i \in 1..Len(list) :
                after[i] = Visit(search, path, after[i - 1], list[i])
  <1> DEFINE n == Len(list)
             V == Outcome(N)
             first == [cycle |-> <<>>, black |-> black]
             turn == [x \in (1..n) \X V |-> Visit(search, path, x[2], list[x[1]])]
             Is(g) == g = [i \in 0..n |-> IF i = 0 THEN first
                                          ELSE Visit(search, path, g[i - 1], list[i])]
  <1>1. n \in Nat /\ list \in [1..n -> N]
    BY LenProperties
  <1>2. first \in V
    <2>1. <<>> \in Seq(N)
      BY EmptySeq
    <2> QED
      BY <2>1 DEF Outcome
  <1>3. turn \in [(1..n) \X V -> V]
    <2>1. ASSUME NEW x \in (1..n) \X V PROVE Visit(search, path, x[2], list[x[1]]) \in V
      <3>1. x[2] \in V /\ list[x[1]] \in N
        BY <1>1
      <3> QED
        BY <3>1, VisitType
    <2> QED
      BY <2>1
  <1> HIDE DEF V
  <1>4. Turns(n, V, first, turn) # {}
    <2> HIDE DEF n, first, turn
    <2> QED
      BY <1>1, <1>2, <1>3, TurnsExist
  <1>5. PICK g \in [0..n -> V] :
          g[0] = first /\ \A i \in 1..n : g[i] = turn[<<i, g[i - 1]>>]
    BY <1>4 DEF Turns
  <1>6. ASSUME NEW i \in 1..n PROVE g[i] = Visit(search, path, g[i - 1], list[i])
    <2> HIDE DEF turn, first, n
    <2>1. i - 1 \in 0..n
      BY <1>1
    <2>2. g[i - 1] \in V
      BY <1>5, <2>1
    <2>3. <<i, g[i - 1]>> \in (1..n) \X V
      BY <2>2
    <2>4. g[i] = turn[<<i, g[i - 1]>>]
      BY <1>5
    <2>5. turn[<<i, g[i - 1]>>] = Visit(search, path, g[i - 1], list[i])
      BY <2>3 DEF turn
    <2> QED
      BY <2>4, <2>5
  <1>7. Is(g)
    <2> HIDE DEF first, turn, n
    <2>1. \A i \in 0..n : i # 0 => i \in 1..n
      BY <1>1
    <2>2. \A i \in 0..n : g[i] = IF i = 0 THEN first ELSE Visit(search, path, g[i - 1], list[i])
      BY <1>5, <1>6, <2>1
    <2> QED
      BY <1>5, <2>2
  <1> DEFINE after == VisitAll(search, path, black, list)
  <1>8. Is(after)
    BY <1>7 DEF VisitAll
  <1> HIDE DEF after, first, turn
  <1>9. after[0] = first /\ \A i \in 1..n : after[i] = Visit(search, path, after[i - 1], list[i])
    <2>1. 0 \in 0..n /\ \A i \in 1..n : i \in 0..n /\ i # 0
      BY <1>1
    <2> HIDE DEF n
    <2> QED
      BY <1>8, <2>1
  <1>10. \A i \in 0..n : after[i] \in V
    <2> DEFINE S == {i \in 0..n : after[i] \in V}
    <2>1. 0 \in S
      BY <1>1, <1>2, <1>9
    <2>2. ASSUME NEW i \in 1..n, i - 1 \in S PROVE i \in S
      <3>1. list[i] \in N /\ after[i - 1] \in V
        BY <1>1, <2>2
      <3>2. Visit(search, path, after[i - 1], list[i]) \in V
        BY <3>1, VisitType DEF V
      <3> QED
        BY <1>9, <3>2
    <2> HIDE DEF S
    <2>3. 0..n \subseteq S
      <3> HIDE DEF n
      <3> QED
        BY <1>1, <2>1, <2>2, Throughout
    <2> QED
      BY <2>3 DEF S
  <1>11. after \in [0..n -> V]
    BY <1>8, <1>10
  <1> QED
    BY <1>9, <1>11 DEF after, first, V, n

\* The loop visits as its search answers, whatever that does elsewhere.
LEMMA SameVisits ==
  ASSUME NEW N, NEW path \in Seq(N), NEW f, NEW g, Answers(f, N, path),
         \A v \in N \ ToSet(path), b \in SUBSET N :
           Called(f, path, v, b) = Called(g, path, v, b),
         NEW black \in SUBSET N, NEW list \in Seq(N)
  PROVE  VisitAll(f, path, black, list) = VisitAll(g, path, black, list)
  <1> DEFINE n == Len(list)
             F == VisitAll(f, path, black, list)
             G == VisitAll(g, path, black, list)
             V == Outcome(N)
             S == {i \in 0..n : F[i] = G[i]}
  <1>1. n \in Nat /\ list \in [1..n -> N]
    BY LenProperties
  <1>2. Answers(g, N, path)
    BY DEF Answers
  <1>3. /\ F \in [0..n -> V] /\ F[0] = [cycle |-> <<>>, black |-> black]
        /\ \A i \in 1..n : F[i] = Visit(f, path, F[i - 1], list[i])
    BY VisitAllRuns
  <1>4. /\ G \in [0..n -> V] /\ G[0] = [cycle |-> <<>>, black |-> black]
        /\ \A i \in 1..n : G[i] = Visit(g, path, G[i - 1], list[i])
    BY <1>2, VisitAllRuns
  <1> HIDE DEF n, F, G
  <1>5. ASSUME NEW s \in V, NEW v \in N
        PROVE  Visit(f, path, s, v) = Visit(g, path, s, v)
    <2>1. s.black \in SUBSET N
      BY DEF Outcome
    <2> QED
      BY <2>1 DEF Visit, Called
  <1>6. ASSUME NEW i \in 1..n, i - 1 \in S PROVE i \in S
    <2>1. i - 1 \in 0..n /\ i \in 0..n
      BY <1>1
    <2>2. F[i - 1] = G[i - 1] /\ F[i - 1] \in V /\ list[i] \in N
      BY <1>1, <1>3, <1>6, <2>1
    <2> QED
      BY <1>3, <1>4, <1>5, <2>1, <2>2
  <1>7. 0 \in S
    BY <1>1, <1>3, <1>4
  <1> HIDE DEF S
  <1>8. 0..n \subseteq S
    BY <1>1, <1>6, <1>7, Throughout
  <1>9. \A i \in 0..n : F[i] = G[i]
    BY <1>8 DEF S
  <1> HIDE DEF V
  <1>10. F = G
    <2> DEFINE D == 0..n
    <2>1. F \in [D -> V] /\ G \in [D -> V] /\ \A i \in D : F[i] = G[i]
      BY <1>3, <1>4, <1>9
    <2> HIDE DEF D
    <2>2. F = [i \in D |-> F[i]] /\ G = [i \in D |-> G[i]]
      BY <2>1
    <2> QED
      BY <2>1, <2>2
  <1> QED
    BY <1>10 DEF F, G

\* The graphs the search is for: every list of successors is one of nodes.
IsGraph(N, A) == IsFiniteSet(N) /\ \A n \in N : A[n] \in Seq(N)

\* The end of a path is a node of the path.
LEMMA LastOfPath ==
  ASSUME NEW N, NEW path \in Seq(N), path # <<>>
  PROVE  /\ Last(path) = path[Len(path)] /\ Len(path) \in Nat \ {0}
         /\ Last(path) \in N /\ Last(path) \in ToSet(path) /\ ToSet(path) \subseteq N
  <1>1. Len(path) \in Nat \ {0} /\ path \in [1..Len(path) -> N] /\ DOMAIN path = 1..Len(path)
    BY EmptySeq, LenProperties
  <1>2. Len(path) \in 1..Len(path)
    BY <1>1
  <1> QED
    BY <1>1, <1>2 DEF Last, ToSet

\* _dfs() comes to what a search may come to.
LEMMA DfsType ==
  ASSUME NEW N, NEW A, IsGraph(N, A), NEW path \in Seq(N), path # <<>>,
         NEW search, Answers(search, N, path), NEW black \in SUBSET N
  PROVE  Dfs(search, A, path, black) \in Outcome(N)
  <1> DEFINE u == Last(path)
             list == A[u]
             after == VisitAll(search, path, black, list)
  <1>1. u \in N /\ list \in Seq(N)
    BY LastOfPath DEF IsGraph
  <1>2. Len(list) \in Nat
    BY <1>1, LenProperties
  <1>3. after \in [0..Len(list) -> Outcome(N)]
    <2> HIDE DEF u, list
    <2> QED
      BY <1>1, VisitAllRuns
  <1>4. Dfs(search, A, path, black) = [after[Len(list)] EXCEPT !.black = @ \cup {u}]
    BY DfsVisitsAll
  <1> HIDE DEF u, list, after
  <1>5. after[Len(list)] \in Outcome(N)
    BY <1>2, <1>3
  <1> QED
    BY <1>1, <1>4, <1>5 DEF Outcome

\* So does _dfs(): it depends on the calls it makes and no others.
LEMMA SameDfs ==
  ASSUME NEW N, NEW A, IsGraph(N, A), NEW path \in Seq(N), path # <<>>,
         NEW f, NEW g, Answers(f, N, path),
         \A v \in N \ ToSet(path), b \in SUBSET N :
           Called(f, path, v, b) = Called(g, path, v, b),
         NEW black \in SUBSET N
  PROVE  Dfs(f, A, path, black) = Dfs(g, A, path, black)
  <1>1. A[Last(path)] \in Seq(N)
    BY LastOfPath DEF IsGraph
  <1>2. VisitAll(f, path, black, A[Last(path)]) = VisitAll(g, path, black, A[Last(path)])
    BY <1>1, SameVisits
  <1> QED
    BY <1>2, DfsVisitsAll

\* A path that goes on leaves one node less off it.
Rest(N, path) == Cardinality(N \ ToSet(path))

\* Every path but the empty one leaves off fewer nodes than there are, and a
\* node that a path goes on to is one less.
LEMMA RestFalls ==
  ASSUME NEW N, IsFiniteSet(N), NEW path \in Seq(N)
  PROVE  /\ Rest(N, path) \in Nat
         /\ path # <<>> => Rest(N, path) < Cardinality(N)
         /\ \A v \in N \ ToSet(path) :
              Rest(N, Append(path, v)) = Rest(N, path) - 1
  <1>1. IsFiniteSet(N \ ToSet(path)) /\ Cardinality(N) \in Nat
    BY FS_Subset, FS_CardinalityType
  <1>2. Rest(N, path) \in Nat
    BY <1>1, FS_CardinalityType DEF Rest
  <1>3. ASSUME path # <<>> PROVE Rest(N, path) < Cardinality(N)
    <2>1. Last(path) \in N /\ Last(path) \in ToSet(path)
      BY <1>3, LastOfPath
    <2>2. /\ Cardinality(N \ ToSet(path)) <= Cardinality(N)
          /\ Cardinality(N) = Cardinality(N \ ToSet(path)) => N = N \ ToSet(path)
      BY FS_Subset
    <2> QED
      BY <1>1, <1>2, <2>1, <2>2 DEF Rest
  <1>4. ASSUME NEW v \in N \ ToSet(path)
        PROVE  Rest(N, Append(path, v)) = Rest(N, path) - 1
    <2>1. N \ ToSet(Append(path, v)) = (N \ ToSet(path)) \ {v}
      BY SetOfAppend
    <2> QED
      BY <1>1, <2>1, FS_RemoveElement DEF Rest
  <1> QED
    BY <1>2, <1>3, <1>4

\* There is a function that calls itself as the search does.
LEMMA SearchExists ==
  ASSUME NEW N, NEW A, IsGraph(N, A)
  PROVE  \E g : IsSearch(g, N, A)
  <1> DEFINE n == Cardinality(N)
             D == Call(N)
             V == [D -> Outcome(N)]
             first == [c \in D |-> [cycle |-> <<>>, black |-> {}]]
             turn == [x \in (1..n) \X V |-> [c \in D |-> Dfs(x[2], A, c.path, c.black)]]
  <1>1. n \in Nat /\ IsFiniteSet(N)
    BY FS_CardinalityType DEF IsGraph
  <1>2. ASSUME NEW g \in V, NEW path \in Seq(N) PROVE Answers(g, N, path)
    <2>1. ASSUME NEW v \in N, NEW black \in SUBSET N PROVE Called(g, path, v, black) \in Outcome(N)
      <3>1. [path |-> Append(path, v), black |-> black] \in D
        BY AppendProperties DEF Call
      <3> QED
        BY <3>1 DEF Called
    <2> QED
      BY <2>1 DEF Answers
  <1>3. ASSUME NEW g \in V, NEW c \in D PROVE Dfs(g, A, c.path, c.black) \in Outcome(N)
    <2>1. c.path \in Seq(N) /\ c.path # <<>> /\ c.black \in SUBSET N
      BY DEF Call
    <2> QED
      BY <1>2, <2>1, DfsType
  <1>4. first \in V
    <2>1. [cycle |-> <<>>, black |-> {}] \in Outcome(N)
      BY EmptySeq DEF Outcome
    <2> QED
      BY <2>1
  <1>5. turn \in [(1..n) \X V -> V]
    <2>1. ASSUME NEW x \in (1..n) \X V PROVE [c \in D |-> Dfs(x[2], A, c.path, c.black)] \in V
      BY <1>3
    <2> QED
      BY <2>1
  <1>6. Turns(n, V, first, turn) # {}
    <2> HIDE DEF n, V, first, turn
    <2> QED
      BY <1>1, <1>4, <1>5, TurnsExist
  <1>7. PICK G \in [0..n -> V] : \A i \in 1..n : G[i] = turn[<<i, G[i - 1]>>]
    BY <1>6 DEF Turns
  <1>8. ASSUME NEW i \in 1..n
        PROVE  G[i] = [c \in D |-> Dfs(G[i - 1], A, c.path, c.black)]
    <2>1. i - 1 \in 0..n /\ G[i - 1] \in V
      BY <1>1, <1>7
    <2>2. <<i, G[i - 1]>> \in (1..n) \X V
      BY <2>1
    <2> HIDE DEF n, V, D
    <2> QED
      BY <1>7, <2>2
  <1> DEFINE Does(g, i) == \A c \in D : Rest(N, c.path) < i => g[c] = Dfs(g, A, c.path, c.black)
             S == {i \in 0..n : Does(G[i], i)}
  <1> HIDE DEF turn, first
  <1>9. 0 \in S
    <2>1. ASSUME NEW c \in D PROVE ~(Rest(N, c.path) < 0)
      <3>1. c.path \in Seq(N)
        BY DEF Call
      <3>2. Rest(N, c.path) \in Nat
        BY <1>1, <3>1, RestFalls
      <3> QED
        BY <3>2
    <2> QED
      BY <1>1, <2>1
  <1>10. ASSUME NEW i \in 1..n, i - 1 \in S PROVE i \in S
    <2>1. i \in 0..n /\ i - 1 \in 0..n /\ i \in Nat
      BY <1>1
    <2> SUFFICES ASSUME NEW c \in D, Rest(N, c.path) < i
                 PROVE  G[i][c] = Dfs(G[i], A, c.path, c.black)
      BY <2>1
    <2>2. c.path \in Seq(N) /\ c.path # <<>> /\ c.black \in SUBSET N
      BY DEF Call
    <2>3. G[i - 1] \in V /\ G[i] \in V
      BY <1>7, <2>1
    <2>4. ASSUME NEW v \in N \ ToSet(c.path), NEW b \in SUBSET N
          PROVE  Called(G[i - 1], c.path, v, b) = Called(G[i], c.path, v, b)
      <3> DEFINE d == [path |-> Append(c.path, v), black |-> b]
      <3>1. d \in D /\ d.path = Append(c.path, v) /\ d.black = b
        BY <2>2, AppendProperties DEF Call
      <3>2. Rest(N, c.path) \in Nat /\ Rest(N, d.path) = Rest(N, c.path) - 1
        BY <1>1, <2>2, <3>1, RestFalls
      <3>3. Rest(N, d.path) < i - 1
        BY <2>1, <3>2
      <3> HIDE DEF d
      <3>4. G[i - 1][d] = Dfs(G[i - 1], A, d.path, d.black)
        BY <1>10, <3>1, <3>3
      <3>5. G[i][d] = Dfs(G[i - 1], A, d.path, d.black)
        BY <1>8, <3>1
      <3> QED
        BY <3>4, <3>5 DEF Called, d
    <2>5. G[i][c] = Dfs(G[i - 1], A, c.path, c.black)
      BY <1>8
    <2> HIDE DEF D, V
    <2>6. Dfs(G[i - 1], A, c.path, c.black) = Dfs(G[i], A, c.path, c.black)
      BY <1>2, <2>2, <2>3, <2>4, SameDfs
    <2> QED
      BY <2>5, <2>6
  <1> HIDE DEF S
  <1>11. 0..n \subseteq S
    <2> HIDE DEF n
    <2> QED
      BY <1>1, <1>9, <1>10, Throughout
  <1>12. Does(G[n], n) /\ G[n] \in V
    BY <1>1, <1>7, <1>11 DEF S
  <1>13. ASSUME NEW c \in D PROVE G[n][c] = Dfs(G[n], A, c.path, c.black)
    <2>1. c.path \in Seq(N) /\ c.path # <<>>
      BY DEF Call
    <2>2. Rest(N, c.path) < n
      BY <1>1, <2>1, RestFalls
    <2> QED
      BY <1>12, <2>2
  <1>14. IsSearch(G[n], N, A)
    BY <1>12, <1>13 DEF IsSearch
  <1> QED
    BY <1>14

\* The search calls itself, and answers every call.
LEMMA SearchRuns ==
  ASSUME NEW N, NEW A, IsGraph(N, A)
  PROVE  /\ Search(N, A) \in [Call(N) -> Outcome(N)]
         /\ \A c \in Call(N) :
              Search(N, A)[c] = Dfs(Search(N, A), A, c.path, c.black)
  <1> DEFINE search == Search(N, A)
             n == Cardinality(N)
             S == {i \in 0..n : \A c \in Call(N) : Rest(N, c.path) < i => search[c] \in Outcome(N)}
  <1>1. n \in Nat /\ IsFiniteSet(N)
    BY FS_CardinalityType DEF IsGraph
  <1>2. IsSearch(search, N, A)
    BY SearchExists, SearchChosen
  <1> HIDE DEF search
  <1>3. \A c \in Call(N) : search[c] = Dfs(search, A, c.path, c.black)
    BY <1>2 DEF IsSearch
  <1>4. 0 \in S
    <2>1. ASSUME NEW c \in Call(N) PROVE ~(Rest(N, c.path) < 0)
      <3>1. c.path \in Seq(N)
        BY DEF Call
      <3>2. Rest(N, c.path) \in Nat
        BY <1>1, <3>1, RestFalls
      <3> QED
        BY <3>2
    <2> QED
      BY <1>1, <2>1
  <1>5. ASSUME NEW i \in 1..n, i - 1 \in S PROVE i \in S
    <2>1. i \in 0..n /\ i - 1 \in 0..n /\ i \in Nat
      BY <1>1
    <2> SUFFICES ASSUME NEW c \in Call(N), Rest(N, c.path) < i
                 PROVE  search[c] \in Outcome(N)
      BY <2>1
    <2>2. c.path \in Seq(N) /\ c.path # <<>> /\ c.black \in SUBSET N
      BY DEF Call
    <2>3. ASSUME NEW v \in N \ ToSet(c.path), NEW b \in SUBSET N
          PROVE  Called(search, c.path, v, b) \in Outcome(N)
      <3> DEFINE d == [path |-> Append(c.path, v), black |-> b]
      <3>1. d \in Call(N) /\ d.path = Append(c.path, v)
        BY <2>2, AppendProperties DEF Call
      <3>2. Rest(N, c.path) \in Nat /\ Rest(N, d.path) = Rest(N, c.path) - 1
        BY <1>1, <2>2, <3>1, RestFalls
      <3>3. Rest(N, d.path) < i - 1
        BY <2>1, <3>2
      <3> QED
        BY <1>5, <3>1, <3>3 DEF Called
    <2>4. Answers(search, N, c.path)
      BY <2>3 DEF Answers
    <2> QED
      BY <1>3, <2>2, <2>4, DfsType
  <1> HIDE DEF S
  <1>6. 0..n \subseteq S
    <2> HIDE DEF n
    <2> QED
      BY <1>1, <1>4, <1>5, Throughout
  <1>7. ASSUME NEW c \in Call(N) PROVE search[c] \in Outcome(N)
    <2>1. c.path \in Seq(N) /\ c.path # <<>>
      BY DEF Call
    <2>2. Rest(N, c.path) < n
      BY <1>1, <2>1, RestFalls
    <2>3. n \in S
      BY <1>1, <1>6
    <2> QED
      BY <2>2, <2>3 DEF S
  <1>8. search \in [Call(N) -> Outcome(N)]
    BY <1>2, <1>7 DEF IsSearch
  <1> QED
    BY <1>3, <1>8 DEF search

\* Every set of nodes of X0 has one with no predecessor in it: no cycle.
Acyclic(A, X0) ==
  \A X \in SUBSET X0 : X # {} => \E x \in X : \A p \in X : x \notin Successors(A, p)
\* Nothing reachable from the explored nodes is on a cycle.
Explored(A, B) == Acyclic(A, B) /\ \A n \in B : Successors(A, n) \subseteq B

IsPath(A, path) == \A i \in 1..(Len(path) - 1) : path[i + 1] \in Successors(A, path[i])

\* A node the search may go to from the path.
Leads(A, path, v) == path # <<>> => v \in Successors(A, Last(path))
\* Where the search may stand.
Stands(A, path, black) == Explored(A, black) /\ black \cap ToSet(path) = {}
Sound(A, path, s) ==
  IF s.cycle = <<>> THEN Stands(A, path, s.black) ELSE IsCycle(A, s.cycle)
Covers(s, B) == s.cycle = <<>> => B \subseteq s.black

\* What the search finds when it goes on from the path is right.
FindsRight(search, N, A, path) ==
  \A v \in N \ ToSet(path), black \in SUBSET N :
    Leads(A, path, v) /\ Stands(A, path, black) /\ v \notin black =>
      LET o == Called(search, path, v, black)
      IN Sound(A, path, o) /\ Covers(o, black \cup {v})

\* A node of the path that the path leads to closes a cycle.
LEMMA CycleToIsCycle ==
  ASSUME NEW N, NEW A, NEW path \in Seq(N), IsPath(A, path),
         NEW v \in ToSet(path), Leads(A, path, v)
  PROVE  IsCycle(A, CycleTo(path, v)) /\ CycleTo(path, v) # <<>>
  <1> DEFINE c == CycleTo(path, v)
             m == Len(path)
  <1>1. PICK i \in 1..m :
          LET n == m - i + 1
          IN  /\ path[i] = v
              /\ n \in Nat \ {0}
              /\ c \in Seq(N)
              /\ Len(c) = n + 1
              /\ \A j \in 1..n : c[j] = path[i + j - 1]
              /\ c[n + 1] = v
    BY CycleToIs
  <1> DEFINE n == m - i + 1
  <1>2. m \in Nat /\ path # <<>>
    BY LenProperties DEF ToSet
  <1> HIDE DEF c
  <1>3. v \in Successors(A, path[m])
    BY <1>2 DEF Leads, Last
  <1>4. Len(c) > 1 /\ Last(c) = v /\ c[1] = v
    <2>1. c[1] = path[i + 1 - 1] /\ i + 1 - 1 = i
      BY <1>1, <1>2
    <2> QED
      BY <1>1, <2>1 DEF Last
  <1>5. ASSUME NEW j \in 1..(Len(c) - 1) PROVE c[j + 1] \in Successors(A, c[j])
    <2>1. j \in 1..n /\ Len(c) = n + 1
      BY <1>1
    <2>2. c[j] = path[i + j - 1]
      BY <1>1, <2>1
    <2>3. CASE j = n
      <3>1. i + j - 1 = m /\ c[j + 1] = v
        BY <1>1, <1>2, <2>3
      <3> QED
        BY <1>3, <2>2, <3>1
    <2>4. CASE j # n
      <3>1. j + 1 \in 1..n
        <4>1. n \in Nat
          BY <1>1
        <4> HIDE DEF n
        <4> QED
          BY <2>1, <2>4, <4>1
      <3>2. c[j + 1] = path[i + (j + 1) - 1]
        BY <1>1, <3>1
      <3>3. i + j - 1 \in 1..(m - 1) /\ i + (j + 1) - 1 = (i + j - 1) + 1
        BY <1>1, <1>2, <3>1, <2>1
      <3> QED
        BY <2>2, <3>2, <3>3 DEF IsPath
    <2> QED
      BY <2>3, <2>4
  <1>6. c # <<>>
    BY <1>4, EmptySeq
  <1> QED
    BY <1>4, <1>5, <1>6 DEF IsCycle, c

\* A visit finds a cycle if it closes one, and else the node explored.
LEMMA VisitSound ==
  ASSUME NEW N, NEW A, NEW path \in Seq(N), IsPath(A, path),
         NEW search, Answers(search, N, path), FindsRight(search, N, A, path),
         NEW s \in Outcome(N), Sound(A, path, s),
         NEW v \in N, Leads(A, path, v)
  PROVE  LET t == Visit(search, path, s, v) IN
           /\ Sound(A, path, t)
           /\ t.cycle = <<>> => s.cycle = <<>> /\ s.black \cup {v} \subseteq t.black
  <1> DEFINE t == Visit(search, path, s, v)
  <1>1. CASE s.cycle # <<>> \/ v \in s.black
    <2>1. t = s
      BY <1>1 DEF Visit
    <2> QED
      BY <1>1, <2>1
  <1>2. CASE s.cycle = <<>> /\ v \notin s.black /\ v \in ToSet(path)
    <2>1. t = [s EXCEPT !.cycle = CycleTo(path, v)]
      BY <1>2 DEF Visit
    <2>2. t.cycle = CycleTo(path, v)
      BY <2>1 DEF Outcome
    <2> QED
      BY <1>2, <2>2, CycleToIsCycle DEF Sound
  <1>3. CASE s.cycle = <<>> /\ v \notin s.black /\ v \notin ToSet(path)
    <2>1. t = Called(search, path, v, s.black)
      BY <1>3 DEF Visit, Called
    <2>2. s.black \in SUBSET N /\ Stands(A, path, s.black)
      BY <1>3 DEF Outcome, Sound
    <2> HIDE DEF t
    <2>3. Sound(A, path, t) /\ Covers(t, s.black \cup {v})
      BY <1>3, <2>1, <2>2 DEF FindsRight
    <2> QED
      BY <1>3, <2>3 DEF Covers, t
  <1> QED
    BY <1>1, <1>2, <1>3

\* A loop of visits finds a cycle, or else explores every node of its list.
LEMMA VisitAllSound ==
  ASSUME NEW N, NEW A, NEW path \in Seq(N), IsPath(A, path),
         NEW search, Answers(search, N, path), FindsRight(search, N, A, path),
         NEW black \in SUBSET N, Stands(A, path, black),
         NEW list \in Seq(N), \A v \in ToSet(list) : Leads(A, path, v)
  PROVE  LET t == VisitAll(search, path, black, list)[Len(list)] IN
           t \in Outcome(N) /\ Sound(A, path, t) /\ Covers(t, black \cup ToSet(list))
  <1> DEFINE n == Len(list)
             after == VisitAll(search, path, black, list)
             Good(i) == /\ Sound(A, path, after[i])
                        /\ after[i].cycle = <<>> =>
                             /\ black \subseteq after[i].black
                             /\ \A j \in 1..i : list[j] \in after[i].black
             S == {i \in 0..n : Good(i)}
  <1>1. n \in Nat /\ list \in [1..n -> N] /\ ToSet(list) = {list[j] : j \in 1..n}
    BY LenProperties DEF ToSet
  <1>2. /\ after \in [0..n -> Outcome(N)]
        /\ after[0] = [cycle |-> <<>>, black |-> black]
        /\ \A i \in 1..n : after[i] = Visit(search, path, after[i - 1], list[i])
    BY VisitAllRuns
  <1> HIDE DEF after, n
  <1>3. 0 \in S
    <2>1. after[0].cycle = <<>> /\ after[0].black = black
      BY <1>2
    <2>2. Good(0)
      BY <2>1 DEF Sound
    <2> QED
      BY <1>1, <2>2
  <1>4. ASSUME NEW i \in 1..n, i - 1 \in S PROVE i \in S
    <2>1. i \in 0..n /\ i - 1 \in 0..n /\ Good(i - 1)
      BY <1>1, <1>4
    <2>2. after[i - 1] \in Outcome(N) /\ list[i] \in N /\ Leads(A, path, list[i])
      BY <1>1, <1>2, <2>1
    <2>3. after[i] = Visit(search, path, after[i - 1], list[i])
      BY <1>2
    <2>4. /\ Sound(A, path, after[i])
          /\ after[i].cycle = <<>> =>
               /\ after[i - 1].cycle = <<>>
               /\ after[i - 1].black \cup {list[i]} \subseteq after[i].black
      BY <2>1, <2>2, <2>3, VisitSound
    <2>5. \A j \in 1..i : j # i => j \in 1..(i - 1)
      BY <1>1
    <2>6. Good(i)
      BY <2>1, <2>4, <2>5
    <2> QED
      BY <2>1, <2>6
  <1> HIDE DEF S
  <1>5. 0..n \subseteq S
    BY <1>1, <1>3, <1>4, Throughout
  <1>6. Good(n) /\ after[n] \in Outcome(N)
    BY <1>1, <1>2, <1>5 DEF S
  <1>7. Covers(after[n], black \cup ToSet(list))
    BY <1>1, <1>6 DEF Covers
  <1> QED
    BY <1>6, <1>7 DEF after, n

\* _dfs() finds a cycle, or else explores its node: all of its successors are
\* explored, so that nothing explored leads to it.
LEMMA DfsSound ==
  ASSUME NEW N, NEW A, IsGraph(N, A), NEW path \in Seq(N), NEW v \in N \ ToSet(path),
         NEW search, IsPath(A, Append(path, v)),
         Answers(search, N, Append(path, v)), FindsRight(search, N, A, Append(path, v)),
         NEW black \in SUBSET N, Stands(A, path, black), v \notin black
  PROVE  LET o == Dfs(search, A, Append(path, v), black)
         IN  Sound(A, path, o) /\ Covers(o, black \cup {v})
  <1> DEFINE q == Append(path, v)
             list == A[v]
             t == VisitAll(search, q, black, list)[Len(list)]
             o == Dfs(search, A, q, black)
  <1>1. q \in Seq(N) /\ q # <<>> /\ Last(q) = v /\ ToSet(q) = ToSet(path) \cup {v}
    BY AppendProperties, SetOfAppend DEF Last
  <1>2. list \in Seq(N) /\ Successors(A, v) = ToSet(list)
    BY DEF IsGraph, Successors
  <1>3. o = [t EXCEPT !.black = @ \cup {v}]
    BY <1>1, DfsVisitsAll
  <1>4. Stands(A, q, black)
    BY <1>1 DEF Stands
  <1>5. \A w \in ToSet(list) : Leads(A, q, w)
    BY <1>1, <1>2 DEF Leads
  <1>6. t \in Outcome(N) /\ Sound(A, q, t) /\ Covers(t, black \cup ToSet(list))
    <2> HIDE DEF q, list
    <2> QED
      BY <1>1, <1>2, <1>4, <1>5, VisitAllSound DEF q
  <1> HIDE DEF q, list, t, o
  <1>7. o.cycle = t.cycle /\ o.black = t.black \cup {v}
    BY <1>3, <1>6 DEF Outcome
  <1>8. CASE t.cycle # <<>>
    BY <1>6, <1>7, <1>8 DEF Sound, Covers, o, q
  <1>9. CASE t.cycle = <<>>
    <2>1. /\ Explored(A, t.black) /\ t.black \cap ToSet(path) = {} /\ v \notin t.black
          /\ black \subseteq t.black /\ Successors(A, v) \subseteq t.black
      BY <1>1, <1>2, <1>6, <1>9 DEF Sound, Stands, Covers
    <2>2. ASSUME NEW X \in SUBSET o.black, X # {}
          PROVE  \E x \in X : \A p \in X : x \notin Successors(A, p)
      <3>1. CASE v \in X
        BY <1>7, <2>1, <3>1 DEF Explored
      <3>2. CASE v \notin X
        <4>1. X \in SUBSET t.black
          BY <1>7, <3>2
        <4> QED
          BY <2>1, <2>2, <4>1 DEF Explored, Acyclic
      <3> QED
        BY <3>1, <3>2
    <2>3. Explored(A, o.black)
      BY <1>7, <2>1, <2>2 DEF Explored, Acyclic
    <2>4. Stands(A, path, o.black)
      BY <1>7, <2>1, <2>3 DEF Stands
    <2> QED
      BY <1>7, <1>9, <2>1, <2>4 DEF Sound, Covers, o, q
  <1> QED
    BY <1>8, <1>9

\* A path goes on to a successor of its last node.
LEMMA PathGoesOn ==
  ASSUME NEW N, NEW A, NEW path \in Seq(N), IsPath(A, path), NEW v \in N, Leads(A, path, v)
  PROVE  IsPath(A, Append(path, v))
  <1> DEFINE q == Append(path, v)
             m == Len(path)
  <1>1. /\ m \in Nat /\ Len(q) = m + 1 /\ q[m + 1] = v
        /\ \A i \in 1..m : q[i] = path[i]
        /\ m # 0 => path # <<>>
    BY AppendProperties, LenProperties, EmptySeq
  <1> HIDE DEF q, m
  <1>2. ASSUME NEW i \in 1..m PROVE q[i + 1] \in Successors(A, q[i])
    <2>1. CASE i = m
      <3>1. v \in Successors(A, path[m])
        BY <1>1, <2>1 DEF Leads, Last, m
      <3> QED
        BY <1>1, <2>1, <3>1
    <2>2. CASE i # m
      <3>1. i \in 1..(m - 1) /\ i + 1 \in 1..m
        BY <1>1, <2>2
      <3> QED
        BY <1>1, <3>1 DEF IsPath, m
    <2> QED
      BY <2>1, <2>2
  <1>3. \A i \in 1..(Len(q) - 1) : i \in 1..m
    BY <1>1
  <1> QED
    BY <1>2, <1>3 DEF IsPath, q

\* By induction on the nodes left off the path: whatever path the search has
\* gone down, what it finds from there is right.
LEMMA SearchFindsRight ==
  ASSUME NEW N, NEW A, IsGraph(N, A), NEW path \in Seq(N), IsPath(A, path)
  PROVE  /\ FindsRight(Search(N, A), N, A, path)
         /\ Answers(Search(N, A), N, path)
  <1> DEFINE search == Search(N, A)
             n == Cardinality(N) + 1
             S == {i \in 0..n : \A p \in Seq(N) : IsPath(A, p) /\ Rest(N, p) < i =>
                                  FindsRight(search, N, A, p)}
  <1>1. n \in Nat /\ IsFiniteSet(N) /\ Cardinality(N) \in Nat
    BY FS_CardinalityType DEF IsGraph
  <1>2. /\ search \in [Call(N) -> Outcome(N)]
        /\ \A c \in Call(N) : search[c] = Dfs(search, A, c.path, c.black)
    BY SearchRuns
  <1> HIDE DEF search
  <1>3. ASSUME NEW p \in Seq(N), NEW v \in N, NEW b \in SUBSET N
        PROVE  /\ Called(search, p, v, b) \in Outcome(N)
               /\ Called(search, p, v, b) = Dfs(search, A, Append(p, v), b)
    <2> DEFINE d == [path |-> Append(p, v), black |-> b]
    <2>1. d \in Call(N) /\ d.path = Append(p, v) /\ d.black = b
      BY AppendProperties DEF Call
    <2> HIDE DEF d
    <2> QED
      BY <1>2, <2>1 DEF Called, d
  <1>4. \A p \in Seq(N) : Answers(search, N, p)
    BY <1>3 DEF Answers
  <1>5. 0 \in S
    <2>1. \A p \in Seq(N) : ~(Rest(N, p) < 0)
      BY <1>1, RestFalls
    <2> QED
      BY <1>1, <2>1
  <1>6. ASSUME NEW i \in 1..n, i - 1 \in S PROVE i \in S
    <2>1. i \in 0..n /\ i - 1 \in 0..n /\ i \in Nat
      BY <1>1
    <2> SUFFICES ASSUME NEW p \in Seq(N), IsPath(A, p), Rest(N, p) < i
                 PROVE  FindsRight(search, N, A, p)
      BY <2>1
    <2> SUFFICES ASSUME NEW v \in N \ ToSet(p), NEW b \in SUBSET N,
                        Leads(A, p, v), Stands(A, p, b), v \notin b
                 PROVE  LET o == Called(search, p, v, b)
                        IN  Sound(A, p, o) /\ Covers(o, b \cup {v})
      BY DEF FindsRight
    <2> DEFINE q == Append(p, v)
    <2>2. q \in Seq(N) /\ IsPath(A, q)
      BY AppendProperties, PathGoesOn
    <2>3. Rest(N, p) \in Nat /\ Rest(N, q) = Rest(N, p) - 1
      BY <1>1, RestFalls
    <2> HIDE DEF q
    <2>4. Rest(N, q) < i - 1
      BY <2>1, <2>3
    <2>5. FindsRight(search, N, A, q)
      BY <1>6, <2>2, <2>4
    <2>6. Answers(search, N, q)
      BY <1>4, <2>2
    <2> QED
      BY <1>3, <2>2, <2>5, <2>6, DfsSound DEF q
  <1> HIDE DEF S
  <1>7. 0..n \subseteq S
    <2> HIDE DEF n
    <2> QED
      BY <1>1, <1>5, <1>6, Throughout
  <1>8. Rest(N, path) < n
    <2>1. Cardinality(N \ ToSet(path)) <= Cardinality(N)
      BY <1>1, FS_Subset
    <2>2. Rest(N, path) \in Nat /\ Rest(N, path) = Cardinality(N \ ToSet(path))
      BY <1>1, RestFalls DEF Rest
    <2> QED
      BY <1>1, <2>1, <2>2
  <1>9. n \in S
    BY <1>1, <1>7
  <1> QED
    BY <1>4, <1>8, <1>9 DEF S, search

\* The order the nodes are tried in has every node.
LEMMA SetToSeqIs ==
  ASSUME NEW N, IsFiniteSet(N)
  PROVE  SetToSeq(N) \in Seq(N) /\ ToSet(SetToSeq(N)) = N
  <1> DEFINE n == Cardinality(N)
             order == SetToSeq(N)
  <1>1. n \in Nat /\ ExistsBijection(1..n, N)
    BY FS_CardinalityType
  <1>2. PICK f : f \in Bijection(1..n, N)
    BY <1>1 DEF ExistsBijection
  <1>3. f \in [1..n -> N] /\ IsInjective(f)
    BY <1>2 DEF Bijection, Injection, IsInjective
  <1>4. order \in [1..n -> N] /\ IsInjective(order)
    BY <1>3 DEF SetToSeq
  <1> HIDE DEF order
  <1>5. IsFiniteSet(1..n) /\ Cardinality(1..n) = n
    BY <1>1, FS_Interval
  <1>6. order \in Injection(1..n, N)
    BY <1>4 DEF Injection, IsInjective
  <1>7. order \in Surjection(1..n, N)
    BY <1>5, <1>6, FS_Injection
  <1>8. {order[i] : i \in 1..n} = N
    BY <1>4, <1>7 DEF Surjection
  <1> HIDE DEF n
  <1>9. order \in Seq(N) /\ DOMAIN order = 1..n
    BY <1>1, <1>4, SeqDef
  <1> QED
    BY <1>8, <1>9 DEF order, ToSet

\* The search finds a cycle just when there is one.
LEMMA DetectCycleRight ==
  ASSUME NEW N, NEW A, IsGraph(N, A)
  PROVE  LET cycle == DetectCycle(N, A) IN
           IF cycle = <<>> THEN Acyclic(A, N) ELSE cycle \in Seq(N) /\ IsCycle(A, cycle)
  <1> DEFINE search == Search(N, A)
             order == SetToSeq(N)
             t == VisitAll(search, <<>>, {}, order)[Len(order)]
  <1>1. order \in Seq(N) /\ ToSet(order) = N
    BY SetToSeqIs DEF IsGraph
  <1>2. <<>> \in Seq(N) /\ ToSet(<<>>) = {} /\ Len(<<>>) = 0
    BY EmptySeq DEF ToSet
  <1>3. IsPath(A, <<>>) /\ Stands(A, <<>>, {}) /\ \A v \in N : Leads(A, <<>>, v)
    BY <1>2 DEF IsPath, Stands, Explored, Acyclic, Leads
  <1>4. FindsRight(search, N, A, <<>>) /\ Answers(search, N, <<>>)
    BY <1>2, <1>3, SearchFindsRight
  <1>5. DetectCycle(N, A) = t.cycle
    BY DetectCycleVisitsAll
  <1>6. t \in Outcome(N) /\ Sound(A, <<>>, t) /\ Covers(t, {} \cup ToSet(order))
    <2> HIDE DEF search, order
    <2>1. {} \in SUBSET N
      OBVIOUS
    <2> QED
      BY <1>1, <1>2, <1>3, <1>4, <2>1, VisitAllSound
  <1> HIDE DEF t, order
  <1>7. t.cycle \in Seq(N) /\ t.black \subseteq N
    BY <1>6 DEF Outcome
  <1>8. CASE t.cycle = <<>>
    <2>1. t.black = N
      BY <1>1, <1>6, <1>7, <1>8 DEF Covers
    <2> QED
      BY <1>5, <1>6, <1>8, <2>1 DEF Sound, Stands, Explored
  <1>9. CASE t.cycle # <<>>
    BY <1>5, <1>6, <1>7, <1>9 DEF Sound
  <1> QED
    BY <1>8, <1>9

----------------------------------------------------------------------------
(***************************************************************************)
(* Kahn's algorithm: topological_sort and the levels of a graph            *)
(***************************************************************************)

\* What topological_sort's rounds do.

Ready(N, A, before) == {n \in N : {p \in N : n \in Successors(A, p)} \subseteq before}

\* topological_sort is a loop over the rounds.
LEMMA VisitedChosen ==
  ASSUME NEW N, NEW A
  PROVE  Visited(N, A) = CHOOSE visited : visited =
           [i \in 0..Cardinality(N) |-> IF i = 0 THEN {} ELSE Ready(N, A, visited[i - 1])]
  BY DEF Visited, Ready

\* That definition of the rounds is one.
LEMMA VisitedRuns ==
  ASSUME NEW N, IsFiniteSet(N), NEW A
  PROVE  LET visited == Visited(N, A)
             n == Cardinality(N)
         IN  /\ n \in Nat
             /\ visited \in [0..n -> SUBSET N]
             /\ visited[0] = {}
             /\ \A i \in 1..n : visited[i] = Ready(N, A, visited[i - 1])
  <1> DEFINE n == Cardinality(N)
             V == SUBSET N
             turn == [x \in (1..n) \X V |-> Ready(N, A, x[2])]
             Is(g) == g = [i \in 0..n |-> IF i = 0 THEN {} ELSE Ready(N, A, g[i - 1])]
  <1>1. n \in Nat
    BY FS_CardinalityType
  <1>2. turn \in [(1..n) \X V -> V] /\ {} \in V
    BY DEF Ready
  <1> HIDE DEF n, V
  <1>3. Turns(n, V, {}, turn) # {}
    <2> HIDE DEF turn
    <2> QED
      BY <1>1, <1>2, TurnsExist
  <1>4. PICK g \in [0..n -> V] : g[0] = {} /\ \A i \in 1..n : g[i] = turn[<<i, g[i - 1]>>]
    BY <1>3 DEF Turns
  <1>5. ASSUME NEW i \in 1..n PROVE g[i] = Ready(N, A, g[i - 1])
    <2> HIDE DEF turn
    <2>1. i - 1 \in 0..n
      BY <1>1
    <2>2. g[i - 1] \in V
      BY <1>4, <2>1
    <2>3. turn[<<i, g[i - 1]>>] = Ready(N, A, g[i - 1])
      BY <2>2 DEF turn
    <2> QED
      BY <1>4, <2>3
  <1>6. Is(g)
    <2>1. \A i \in 0..n : i # 0 => i \in 1..n
      BY <1>1
    <2>2. \A i \in 0..n : g[i] = IF i = 0 THEN {} ELSE Ready(N, A, g[i - 1])
      BY <1>4, <1>5, <2>1
    <2> HIDE DEF turn
    <2> QED
      BY <1>4, <2>2
  <1> DEFINE visited == Visited(N, A)
  <1>7. Is(visited)
    <2>1. visited = CHOOSE g_1 : Is(g_1)
      BY VisitedChosen DEF n
    <2> QED
      BY <1>6, <2>1
  <1> HIDE DEF visited, turn
  <1>8. visited[0] = {} /\ \A i \in 1..n : visited[i] = Ready(N, A, visited[i - 1])
    <2>1. 0 \in 0..n /\ \A i \in 1..n : i \in 0..n /\ i # 0
      BY <1>1
    <2> QED
      BY <1>7, <2>1
  <1>9. visited \in [0..n -> V]
    <2>1. ASSUME NEW i \in 0..n PROVE visited[i] \in V
      <3>1. i = 0 \/ i \in 1..n
        BY <1>1
      <3> QED
        BY <1>8, <3>1 DEF Ready, V
    <2> QED
      BY <1>7, <2>1
  <1> QED
    BY <1>1, <1>8, <1>9 DEF visited, n, V

\* What one round visits, later rounds visit too.
LEMMA VisitedGrows ==
  ASSUME NEW N, IsFiniteSet(N), NEW A, NEW i \in 1..Cardinality(N)
  PROVE  Visited(N, A)[i - 1] \subseteq Visited(N, A)[i]
  <1> DEFINE n == Cardinality(N)
             visited == Visited(N, A)
             S == {k \in 0..n : k > 0 => visited[k - 1] \subseteq visited[k]}
  <1>1. /\ n \in Nat
        /\ visited \in [0..n -> SUBSET N]
        /\ visited[0] = {}
        /\ \A k \in 1..n : visited[k] = Ready(N, A, visited[k - 1])
    BY VisitedRuns
  <1> HIDE DEF n, visited
  <1>2. 0 \in S
    BY <1>1
  <1>3. ASSUME NEW k \in 1..n, k - 1 \in S PROVE k \in S
    <2>1. k \in 0..n /\ k - 1 \in 0..n
      BY <1>1
    <2>2. visited[k] = Ready(N, A, visited[k - 1])
      BY <1>1
    <2>3. CASE k = 1
      BY <1>1, <2>1, <2>3
    <2>4. CASE k # 1
      <3>1. k - 1 \in 1..n
        BY <1>1, <2>4
      <3>2. visited[k - 1] = Ready(N, A, visited[(k - 1) - 1])
        BY <1>1, <3>1
      <3>3. visited[(k - 1) - 1] \subseteq visited[k - 1]
        BY <1>3, <3>1
      <3> HIDE DEF S
      <3>4. visited[k - 1] \subseteq visited[k]
        BY <2>2, <3>2, <3>3 DEF Ready
      <3> QED
        BY <2>1, <3>4 DEF S
    <2> QED
      BY <2>3, <2>4
  <1> HIDE DEF S
  <1>4. 0..n \subseteq S
    BY <1>1, <1>2, <1>3, Throughout
  <1>5. i \in 0..n /\ i > 0
    BY <1>1 DEF n
  <1> QED
    BY <1>4, <1>5 DEF S, visited

\* While nodes are left, a round visits one more.
LEMMA AcyclicSorts ==
  ASSUME NEW N, IsFiniteSet(N), NEW A, Acyclic(A, N)
  PROVE  Sortable(N, A)
  <1> DEFINE n == Cardinality(N)
             visited == Visited(N, A)
             S == {k \in 0..n : visited[k] = N \/ Cardinality(visited[k]) >= k}
  <1>1. /\ n \in Nat
        /\ visited \in [0..n -> SUBSET N]
        /\ visited[0] = {}
        /\ \A k \in 1..n : visited[k] = Ready(N, A, visited[k - 1])
    BY VisitedRuns
  <1>2. \A k \in 1..n : visited[k - 1] \subseteq visited[k]
    BY VisitedGrows
  <1>3. \A X \in SUBSET N : IsFiniteSet(X) /\ Cardinality(X) \in Nat
    BY FS_Subset, FS_CardinalityType
  <1> HIDE DEF n, visited
  <1>4. 0 \in S
    <2>1. 0 \in 0..n /\ Cardinality(visited[0]) = 0
      BY <1>1, FS_EmptySet
    <2> QED
      BY <2>1
  <1>5. ASSUME NEW k \in 1..n, k - 1 \in S PROVE k \in S
    <2>1. k \in 0..n /\ k - 1 \in 0..n
      BY <1>1
    <2>2. visited[k] = Ready(N, A, visited[k - 1]) /\ visited[k - 1] \subseteq visited[k]
      BY <1>1, <1>2
    <2>3. visited[k] \in SUBSET N /\ visited[k - 1] \in SUBSET N
      BY <1>1, <2>1
    <2>4. CASE visited[k - 1] = N
      BY <2>1, <2>2, <2>3, <2>4
    <2>5. CASE visited[k - 1] # N
      <3>1. Cardinality(visited[k - 1]) >= k - 1
        BY <1>5, <2>5
      <3>2. PICK x \in N \ visited[k - 1] : \A p \in N \ visited[k - 1] : x \notin Successors(A, p)
        <4>1. N \ visited[k - 1] \in SUBSET N /\ N \ visited[k - 1] # {}
          BY <2>3, <2>5
        <4> QED
          BY <4>1 DEF Acyclic
      <3>3. x \in visited[k]
        BY <2>2, <3>2 DEF Ready
      <3>4. visited[k - 1] \cup {x} \in SUBSET visited[k]
        BY <2>2, <3>3
      <3>5. Cardinality(visited[k - 1] \cup {x}) = Cardinality(visited[k - 1]) + 1
        BY <1>3, <2>3, <3>2, FS_AddElement
      <3>6. Cardinality(visited[k - 1] \cup {x}) <= Cardinality(visited[k])
        BY <1>3, <2>3, <3>4, FS_Subset
      <3>7. Cardinality(visited[k]) \in Nat /\ Cardinality(visited[k - 1]) \in Nat
        BY <1>3, <2>3
      <3> QED
        BY <1>1, <2>1, <3>1, <3>5, <3>6, <3>7
    <2> QED
      BY <2>4, <2>5
  <1> HIDE DEF S
  <1>6. 0..n \subseteq S
    BY <1>1, <1>4, <1>5, Throughout
  <1>7. n \in S /\ visited[n] \in SUBSET N
    BY <1>1, <1>6
  <1>8. ASSUME Cardinality(visited[n]) >= n PROVE visited[n] = N
    <2>1. Cardinality(visited[n]) <= Cardinality(N) /\ Cardinality(visited[n]) \in Nat
      BY <1>3, <1>7, FS_Subset
    <2>2. Cardinality(visited[n]) = Cardinality(N)
      BY <1>1, <1>8, <2>1 DEF n
    <2> QED
      BY <1>7, <2>2, FS_Subset
  <1>9. visited[n] = N
    BY <1>7, <1>8 DEF S
  <1> QED
    BY <1>9 DEF Sortable, visited, n

\* No round visits a node on a cycle.
LEMMA CyclesDoNotSort ==
  ASSUME NEW N, IsFiniteSet(N), NEW A, NEW c \in Seq(N), IsCycle(A, c)
  PROVE  ~Sortable(N, A)
  <1> DEFINE n == Cardinality(N)
             visited == Visited(N, A)
             m == Len(c)
             S == {k \in 0..n : \A j \in 1..m : c[j] \notin visited[k]}
  <1>1. /\ n \in Nat
        /\ visited \in [0..n -> SUBSET N]
        /\ visited[0] = {}
        /\ \A k \in 1..n : visited[k] = Ready(N, A, visited[k - 1])
    BY VisitedRuns
  <1>2. m \in Nat /\ m > 1 /\ c \in [1..m -> N] /\ c[1] = c[m]
        /\ \A i \in 1..(m - 1) : c[i + 1] \in Successors(A, c[i])
    BY LenProperties DEF IsCycle, Last
  <1> HIDE DEF n, visited, m
  <1>3. \A j \in 1..m : c[j] \in N /\ \E i \in 1..m : c[j] \in Successors(A, c[i])
    <2> TAKE j \in 1..m
    <2>1. CASE j = 1
      <3>1. m - 1 \in 1..(m - 1) /\ m - 1 \in 1..m /\ (m - 1) + 1 = m
        BY <1>2
      <3>2. c[j] \in Successors(A, c[m - 1])
        BY <1>2, <2>1, <3>1
      <3> QED
        BY <1>2, <3>1, <3>2
    <2>2. CASE j # 1
      <3>1. j - 1 \in 1..(m - 1) /\ j - 1 \in 1..m /\ (j - 1) + 1 = j
        BY <1>2, <2>2
      <3>2. c[j] \in Successors(A, c[j - 1])
        BY <1>2, <3>1
      <3> QED
        BY <1>2, <3>1, <3>2
    <2> QED
      BY <2>1, <2>2
  <1>4. 0 \in S
    BY <1>1
  <1>5. ASSUME NEW k \in 1..n, k - 1 \in S PROVE k \in S
    <2>1. k \in 0..n /\ visited[k] = Ready(N, A, visited[k - 1])
      BY <1>1
    <2>2. ASSUME NEW j \in 1..m PROVE c[j] \notin visited[k]
      <3>1. PICK i \in 1..m : c[j] \in Successors(A, c[i])
        BY <1>3
      <3>2. c[i] \in N /\ c[i] \notin visited[k - 1]
        BY <1>3, <1>5
      <3> HIDE DEF S
      <3> QED
        BY <2>1, <3>1, <3>2 DEF Ready
    <2> QED
      BY <2>1, <2>2
  <1> HIDE DEF S
  <1>6. 0..n \subseteq S
    BY <1>1, <1>4, <1>5, Throughout
  <1>7. c[1] \in N /\ c[1] \notin visited[n]
    BY <1>1, <1>2, <1>6 DEF S
  <1> QED
    BY <1>7 DEF Sortable, visited, n

\* So detect_cycle() and topological_sort() agree on every graph.
LEMMA DetectsUnsortable ==
  ASSUME NEW N, NEW A, IsGraph(N, A)
  PROVE  LET cycle == DetectCycle(N, A) IN
           /\ IF Sortable(N, A) THEN cycle = <<>> ELSE IsCycle(A, cycle)
           /\ cycle = <<>> <=> Acyclic(A, N)
  <1> DEFINE cycle == DetectCycle(N, A)
  <1>1. IF cycle = <<>> THEN Acyclic(A, N) ELSE cycle \in Seq(N) /\ IsCycle(A, cycle)
    BY DetectCycleRight
  <1>2. IsFiniteSet(N)
    BY DEF IsGraph
  <1> HIDE DEF cycle
  <1>3. CASE cycle = <<>>
    BY <1>1, <1>2, <1>3, AcyclicSorts DEF cycle
  <1>4. CASE cycle # <<>>
    BY <1>1, <1>2, <1>4, AcyclicSorts, CyclesDoNotSort DEF cycle
  <1> QED
    BY <1>3, <1>4

\* What some rounds visit, more rounds visit.
LEMMA VisitedMonotone ==
  ASSUME NEW N, IsFiniteSet(N), NEW A, NEW i \in 0..Cardinality(N),
         NEW j \in 0..Cardinality(N), i <= j
  PROVE  Visited(N, A)[i] \subseteq Visited(N, A)[j]
  <1> DEFINE n == Cardinality(N)
             visited == Visited(N, A)
             S == {k \in 0..n : i <= k => visited[i] \subseteq visited[k]}
  <1>1. n \in Nat /\ \A k \in 1..n : visited[k - 1] \subseteq visited[k]
    BY VisitedGrows, FS_CardinalityType
  <1> HIDE DEF n, visited
  <1>2. i \in 0..n /\ j \in 0..n
    BY DEF n
  <1>3. 0 \in S
    BY <1>1, <1>2
  <1>4. ASSUME NEW k \in 1..n, k - 1 \in S PROVE k \in S
    <2>1. k \in 0..n /\ visited[k - 1] \subseteq visited[k]
      BY <1>1
    <2>2. CASE i = k
      BY <2>1, <2>2
    <2>3. CASE i # k
      <3>1. i <= k => i <= k - 1
        BY <1>1, <1>2, <2>3
      <3> QED
        BY <1>4, <2>1, <3>1
    <2> QED
      BY <2>2, <2>3
  <1> HIDE DEF S
  <1>5. 0..n \subseteq S
    BY <1>1, <1>3, <1>4, Throughout
  <1> QED
    BY <1>2, <1>5 DEF S, visited

\* The level of a node is the last round before it is visited.
LEMMA LevelsAre ==
  ASSUME NEW N, IsFiniteSet(N), NEW A, Sortable(N, A)
  PROVE  LET ls == Levels(N, A) IN
           /\ ls \in [N -> 0..(Cardinality(N) - 1)]
           /\ \A m \in N, k \in 0..Cardinality(N) : m \in Visited(N, A)[k] <=> ls[m] < k
  <1> DEFINE n == Cardinality(N)
             visited == Visited(N, A)
             ls == Levels(N, A)
  <1>1. n \in Nat /\ visited[0] = {} /\ visited[n] = N
    BY VisitedRuns DEF Sortable
  <1>2. ls = [m \in N |-> CHOOSE i \in 0..(n - 1) : m \in visited[i + 1] /\ m \notin visited[i]]
    BY DEF Levels
  <1>3. \A i, j \in 0..n : i <= j => visited[i] \subseteq visited[j]
    BY VisitedMonotone
  <1> HIDE DEF n, visited, ls
  <1>4. ASSUME NEW m \in N
        PROVE  \E i \in 0..(n - 1) : m \in visited[i + 1] /\ m \notin visited[i]
    <2> SUFFICES ASSUME \A i \in 0..(n - 1) : m \notin visited[i] => m \notin visited[i + 1]
                 PROVE  FALSE
      OBVIOUS
    <2> DEFINE S == {k \in 0..n : m \notin visited[k]}
    <2>1. 0 \in S
      BY <1>1
    <2>2. ASSUME NEW k \in 1..n, k - 1 \in S PROVE k \in S
      <3>1. k - 1 \in 0..(n - 1) /\ (k - 1) + 1 = k /\ k \in 0..n
        BY <1>1
      <3> QED
        BY <2>2, <3>1
    <2> HIDE DEF S
    <2>3. 0..n \subseteq S
      BY <1>1, <2>1, <2>2, Throughout
    <2> QED
      BY <1>1, <2>3 DEF S
  <1>5. ASSUME NEW m \in N
        PROVE  ls[m] \in 0..(n - 1) /\ m \in visited[ls[m] + 1] /\ m \notin visited[ls[m]]
    BY <1>2, <1>4
  <1>6. ASSUME NEW m \in N, NEW k \in 0..n PROVE m \in visited[k] <=> ls[m] < k
    <2>1. ls[m] \in 0..n /\ ls[m] + 1 \in 0..n
      BY <1>1, <1>5
    <2>2. CASE ls[m] < k
      <3>1. ls[m] + 1 <= k
        BY <1>1, <2>1, <2>2
      <3> QED
        BY <1>3, <1>5, <2>1, <2>2, <3>1
    <2>3. CASE ~(ls[m] < k)
      <3>1. k <= ls[m]
        BY <1>1, <2>1, <2>3
      <3> QED
        BY <1>3, <1>5, <2>1, <2>3, <3>1
    <2> QED
      BY <2>2, <2>3
  <1>7. ls \in [N -> 0..(n - 1)]
    BY <1>2, <1>5
  <1> QED
    BY <1>6, <1>7 DEF n, visited, ls

\* A node's predecessors are on lower levels, one of them on the next lower.
LEMMA LevelsFollow ==
  ASSUME NEW N, IsFiniteSet(N), NEW A, Sortable(N, A), NEW m \in N
  PROVE  LET ls == Levels(N, A) IN
           /\ \A p \in N : m \in Successors(A, p) => ls[p] < ls[m]
           /\ ls[m] > 0 => \E p \in N : ls[p] = ls[m] - 1
  <1> DEFINE n == Cardinality(N)
             visited == Visited(N, A)
             ls == Levels(N, A)
  <1>1. n \in Nat /\ \A i \in 1..n : visited[i] = Ready(N, A, visited[i - 1])
    BY VisitedRuns
  <1>2. /\ ls \in [N -> 0..(n - 1)]
        /\ \A p \in N, k \in 0..n : p \in visited[k] <=> ls[p] < k
    BY LevelsAre
  <1> HIDE DEF n, visited, ls
  <1>3. /\ ls[m] \in 0..n /\ ls[m] + 1 \in 1..n /\ (ls[m] + 1) - 1 = ls[m]
        /\ ls[m] + 1 \in 0..n /\ ls[m] < ls[m] + 1
    BY <1>1, <1>2
  <1>4. ASSUME NEW p \in N, m \in Successors(A, p) PROVE ls[p] < ls[m]
    <2>1. m \in visited[ls[m] + 1]
      BY <1>2, <1>3
    <2>2. m \in Ready(N, A, visited[ls[m]])
      BY <1>1, <1>3, <2>1
    <2>3. p \in visited[ls[m]]
      BY <1>4, <2>2 DEF Ready
    <2> QED
      BY <1>2, <1>3, <2>3
  <1>5. ASSUME ls[m] > 0 PROVE \E p \in N : ls[p] = ls[m] - 1
    <2>1. ls[m] \in 1..n /\ ls[m] - 1 \in 0..n
      BY <1>1, <1>3, <1>5
    <2>2. m \notin visited[ls[m]]
      BY <1>2, <1>3
    <2>3. m \notin Ready(N, A, visited[ls[m] - 1])
      BY <1>1, <2>1, <2>2
    <2>4. PICK p \in N : m \in Successors(A, p) /\ p \notin visited[ls[m] - 1]
      BY <2>3 DEF Ready
    <2>5. ~(ls[p] < ls[m] - 1) /\ ls[p] < ls[m]
      BY <1>2, <1>4, <2>1, <2>4
    <2>6. ls[p] = ls[m] - 1
      BY <1>1, <1>2, <1>3, <2>5
    <2> QED
      BY <2>6
  <1> QED
    BY <1>4, <1>5 DEF ls

\* Max is the greatest of a bounded set of numbers.
LEMMA MaxIs ==
  ASSUME NEW c \in Nat, NEW T \in SUBSET (0..c), T # {}
  PROVE  Max(T) \in T /\ \A y \in T : y <= Max(T)
  <1> DEFINE S == {k \in 0..c : \/ \A y \in T : y > k
                                \/ \E x \in T : \A y \in T : y <= k => y <= x}
  <1>1. 0 \in S
    OBVIOUS
  <1>2. ASSUME NEW k \in 1..c, k - 1 \in S PROVE k \in S
    <2>1. \A y \in T : y \in Int
      OBVIOUS
    <2>2. k \in 0..c /\ k \in Int
      OBVIOUS
    <2>3. CASE k \in T
      <3>1. \A y \in T : y <= k => y <= k
        OBVIOUS
      <3> QED
        BY <2>2, <2>3, <3>1
    <2>4. CASE k \notin T
      <3>1. \A y \in T : y <= k => y <= k - 1
        BY <2>1, <2>2, <2>4
      <3>2. CASE \A y \in T : y > k - 1
        <4>1. \A y \in T : y > k
          BY <2>1, <2>2, <2>4, <3>2
        <4> QED
          BY <2>2, <4>1
      <3>3. CASE \E x \in T : \A y \in T : y <= k - 1 => y <= x
        BY <2>2, <3>1, <3>3
      <3> QED
        BY <1>2, <3>2, <3>3
    <2> QED
      BY <2>3, <2>4
  <1> HIDE DEF S
  <1>3. c \in S
    <2>1. 0..c \subseteq S
      BY <1>1, <1>2, Throughout
    <2> QED
      BY <2>1
  <1>4. \E x \in T : \A y \in T : y <= x
    <2>1. \A y \in T : y <= c /\ ~(y > c)
      OBVIOUS
    <2> QED
      BY <1>3, <2>1 DEF S
  <1>5. \E x \in T : \A y \in T : x >= y
    <2>1. \A x, y \in T : y <= x <=> x >= y
      OBVIOUS
    <2> QED
      BY <1>4, <2>1
  <1>6. Max(T) \in T /\ \A y \in T : Max(T) >= y
    BY <1>5 DEF Max
  <1> HIDE DEF S
  <1>7. \A y \in T : Max(T) >= y <=> y <= Max(T)
    BY <1>6
  <1> QED
    BY <1>6, <1>7

\* The levels a graph that can be sorted is executed in.
LEMMA DepthIs ==
  ASSUME NEW N, IsFiniteSet(N), N # {}, NEW A, Sortable(N, A)
  PROVE  LET ls == Levels(N, A) IN
           /\ Depth(ls) \in 1..Cardinality(N)
           /\ \A m \in N : ls[m] < Depth(ls)
           /\ \A l \in Nat : l < Depth(ls) => At(ls, l) # {}
  <1> DEFINE n == Cardinality(N)
             ls == Levels(N, A)
             T == {ls[m] : m \in N}
             M == Max(T)
  <1>1. n \in Nat /\ ls \in [N -> 0..(n - 1)]
    BY LevelsAre, FS_CardinalityType
  <1>2. \A m \in N : ls[m] > 0 => \E p \in N : ls[p] = ls[m] - 1
    BY LevelsFollow
  <1> HIDE DEF n, ls
  <1>3. n - 1 \in Nat /\ T \in SUBSET (0..(n - 1)) /\ T # {}
    BY <1>1
  <1>4. M \in T /\ \A y \in T : y <= M
    <2> HIDE DEF T
    <2> QED
      BY <1>3, MaxIs
  <1>5. Depth(ls) = 1 + M
    BY <1>1 DEF Depth
  <1>6. M \in 0..(n - 1)
    BY <1>3, <1>4
  <1>7. \A m \in N : ls[m] <= M
    BY <1>4
  <1> HIDE DEF M
  <1> DEFINE S == {k \in 0..M : At(ls, M - k) # {}}
  <1>8. 0 \in S
    <2>1. PICK m \in N : ls[m] = M
      BY <1>4
    <2>2. m \in At(ls, M - 0)
      BY <1>1, <1>6, <2>1 DEF At
    <2> QED
      BY <1>6, <2>2
  <1>9. ASSUME NEW k \in 1..M, k - 1 \in S PROVE k \in S
    <2>1. k \in 0..M /\ M - (k - 1) > 0 /\ (M - (k - 1)) - 1 = M - k
      BY <1>6
    <2>2. PICK m \in N : ls[m] = M - (k - 1)
      BY <1>1, <1>9 DEF At
    <2>3. PICK p \in N : ls[p] = M - k
      BY <1>2, <2>1, <2>2
    <2>4. p \in At(ls, M - k)
      BY <1>1, <2>3 DEF At
    <2> QED
      BY <2>1, <2>4
  <1> HIDE DEF S
  <1>10. 0..M \subseteq S
    BY <1>6, <1>8, <1>9, Throughout
  <1>11. ASSUME NEW l \in Nat, l < Depth(ls) PROVE At(ls, l) # {}
    <2>1. M - l \in 0..M /\ M - (M - l) = l
      BY <1>5, <1>6, <1>11
    <2>2. At(ls, M - (M - l)) # {}
      BY <1>10, <2>1 DEF S
    <2>3. PICK m \in DOMAIN ls : ls[m] = M - (M - l)
      BY <2>2 DEF At
    <2> QED
      BY <2>1, <2>3 DEF At
  <1>12. Depth(ls) \in 1..n /\ \A m \in N : ls[m] < Depth(ls)
    BY <1>1, <1>5, <1>6, <1>7
  <1> QED
    BY <1>11, <1>12 DEF ls, n

----------------------------------------------------------------------------
(***************************************************************************)
(* The graph and its caches: _rebuild_adjacency and remove_agent           *)
(***************************************************************************)

\* The agents that the edges es lead to from n.
Joined(es, n) == {To[e] : e \in {f \in ToSet(es) : From[f] = n}}

\* The edges join agents.
LEMMA EndsAreNodes ==
  ASSUME NEW e \in Edge
  PROVE  From[e] \in Node /\ To[e] \in Node
  BY WorkflowGraphAssumption

\* A step of _rebuild_adjacency().
Adding(adj, e) == [adj EXCEPT ![From[e]] = Append(@, To[e])]

RebuiltAll(es) ==
  CHOOSE rebuilt : rebuilt = [i \in 0..Len(es) |->
    IF i = 0 THEN [n \in Node |-> <<>>] ELSE Adding(rebuilt[i - 1], es[i])]

\* _rebuild_adjacency() is a loop over the edges.
LEMMA RebuiltIsAll ==
  ASSUME NEW es
  PROVE  Rebuilt(es) = RebuiltAll(es)[Len(es)]
  BY DEF Rebuilt, RebuiltAll, Adding

\* An edge adds one successor to the agent it comes from.
LEMMA AddingType ==
  ASSUME NEW adj \in [Node -> Seq(Node)], NEW e \in Edge
  PROVE  /\ Adding(adj, e) \in [Node -> Seq(Node)]
         /\ \A n \in Node : Successors(Adding(adj, e), n) =
              Successors(adj, n) \cup (IF n = From[e] THEN {To[e]} ELSE {})
  <1>1. From[e] \in Node /\ To[e] \in Node
    BY EndsAreNodes
  <1>2. adj[From[e]] \in Seq(Node)
    BY <1>1
  <1>3. Append(adj[From[e]], To[e]) \in Seq(Node)
    BY <1>1, <1>2, AppendProperties
  <1>4. ToSet(Append(adj[From[e]], To[e])) = ToSet(adj[From[e]]) \cup {To[e]}
    BY <1>1, <1>2, SetOfAppend
  <1> QED
    BY <1>1, <1>3, <1>4 DEF Adding, Successors

\* That definition of the loop is one.
LEMMA RebuiltRuns ==
  ASSUME NEW es \in Seq(Edge)
  PROVE  LET rebuilt == RebuiltAll(es) IN
           /\ rebuilt \in [0..Len(es) -> [Node -> Seq(Node)]]
           /\ rebuilt[0] = [n \in Node |-> <<>>]
           /\ \A i \in 1..Len(es) : rebuilt[i] = Adding(rebuilt[i - 1], es[i])
  <1> DEFINE n == Len(es)
             V == [Node -> Seq(Node)]
             first == [m \in Node |-> <<>>]
             turn == [x \in (1..n) \X V |-> Adding(x[2], es[x[1]])]
             Is(g) == g = [i \in 0..n |-> IF i = 0 THEN first ELSE Adding(g[i - 1], es[i])]
  <1>1. n \in Nat /\ es \in [1..n -> Edge]
    BY LenProperties
  <1>2. first \in V
    BY EmptySeq
  <1> HIDE DEF n
  <1>3. turn \in [(1..n) \X V -> V]
    <2>1. ASSUME NEW x \in (1..n) \X V PROVE Adding(x[2], es[x[1]]) \in V
      <3>1. x[2] \in V /\ es[x[1]] \in Edge
        BY <1>1
      <3> QED
        BY <3>1, AddingType
    <2> HIDE DEF V
    <2> QED
      BY <2>1
  <1> HIDE DEF V, first
  <1>4. Turns(n, V, first, turn) # {}
    <2> HIDE DEF turn
    <2> QED
      BY <1>1, <1>2, <1>3, TurnsExist
  <1>5. PICK g \in [0..n -> V] : g[0] = first /\ \A i \in 1..n : g[i] = turn[<<i, g[i - 1]>>]
    BY <1>4 DEF Turns
  <1>6. ASSUME NEW i \in 1..n PROVE g[i] = Adding(g[i - 1], es[i])
    <2> HIDE DEF turn
    <2>1. i - 1 \in 0..n
      BY <1>1
    <2>2. g[i - 1] \in V
      BY <1>5, <2>1
    <2>3. turn[<<i, g[i - 1]>>] = Adding(g[i - 1], es[i])
      BY <2>2 DEF turn
    <2> QED
      BY <1>5, <2>3
  <1>7. Is(g)
    <2>1. \A i \in 0..n : i # 0 => i \in 1..n
      BY <1>1
    <2>2. \A i \in 0..n : g[i] = IF i = 0 THEN first ELSE Adding(g[i - 1], es[i])
      BY <1>5, <1>6, <2>1
    <2> HIDE DEF turn
    <2> QED
      BY <1>5, <2>2
  <1> DEFINE rebuilt == RebuiltAll(es)
  <1>8. Is(rebuilt)
    <2>1. rebuilt = CHOOSE g_1 : Is(g_1)
      BY DEF RebuiltAll, n, first
    <2> QED
      BY <1>7, <2>1
  <1> HIDE DEF rebuilt, turn
  <1>9. rebuilt[0] = first /\ \A i \in 1..n : rebuilt[i] = Adding(rebuilt[i - 1], es[i])
    <2>1. 0 \in 0..n /\ \A i \in 1..n : i \in 0..n /\ i # 0
      BY <1>1
    <2> QED
      BY <1>8, <2>1
  <1>10. \A i \in 0..n : rebuilt[i] \in V
    <2> DEFINE S == {i \in 0..n : rebuilt[i] \in V}
    <2>1. 0 \in S
      BY <1>1, <1>2, <1>9
    <2>2. ASSUME NEW i \in 1..n, i - 1 \in S PROVE i \in S
      <3>1. es[i] \in Edge /\ rebuilt[i - 1] \in V /\ i \in 0..n
        BY <1>1, <2>2
      <3>2. Adding(rebuilt[i - 1], es[i]) \in V
        BY <3>1, AddingType DEF V
      <3> QED
        BY <1>9, <3>1, <3>2
    <2> HIDE DEF S
    <2>3. 0..n \subseteq S
      BY <1>1, <2>1, <2>2, Throughout
    <2> QED
      BY <2>3 DEF S
  <1>11. rebuilt \in [0..n -> V]
    BY <1>8, <1>10
  <1> QED
    BY <1>9, <1>11 DEF rebuilt, first, V, n

\* The successors it gives an agent are those its edges lead to.
LEMMA RebuiltType ==
  ASSUME NEW es \in Seq(Edge)
  PROVE  /\ Rebuilt(es) \in [Node -> Seq(Node)]
         /\ \A n \in Node : Successors(Rebuilt(es), n) = Joined(es, n)
  <1> DEFINE m == Len(es)
             rebuilt == RebuiltAll(es)
             Upto(i) == {es[j] : j \in 1..i}
             S == {i \in 0..m : \A n \in Node : Successors(rebuilt[i], n) =
                                   {To[e] : e \in {f \in Upto(i) : From[f] = n}}}
  <1>1. m \in Nat /\ es \in [1..m -> Edge] /\ DOMAIN es = 1..m
    BY LenProperties
  <1>2. /\ rebuilt \in [0..m -> [Node -> Seq(Node)]]
        /\ rebuilt[0] = [n \in Node |-> <<>>]
        /\ \A i \in 1..m : rebuilt[i] = Adding(rebuilt[i - 1], es[i])
    BY RebuiltRuns
  <1> HIDE DEF m, rebuilt
  <1>3. 0 \in S
    <2>1. Upto(0) = {}
      OBVIOUS
    <2>2. ASSUME NEW n \in Node PROVE Successors(rebuilt[0], n) = {}
      BY <1>2, EmptySeq DEF Successors, ToSet
    <2> HIDE DEF Upto
    <2> QED
      BY <1>1, <2>1, <2>2
  <1>4. ASSUME NEW i \in 1..m, i - 1 \in S PROVE i \in S
    <2>1. i \in 0..m /\ i - 1 \in 0..m /\ es[i] \in Edge
      BY <1>1
    <2>2. rebuilt[i - 1] \in [Node -> Seq(Node)] /\ rebuilt[i] = Adding(rebuilt[i - 1], es[i])
      BY <1>2, <2>1
    <2>3. Upto(i) = Upto(i - 1) \cup {es[i]}
      <3>1. \A j \in 1..i : j \in 1..(i - 1) \/ j = i
        BY <1>1
      <3>2. \A j \in 1..(i - 1) : j \in 1..i
        BY <1>1
      <3>3. i \in 1..i
        BY <1>1
      <3>4. \A x : x \in Upto(i) <=> x \in Upto(i - 1) \cup {es[i]}
        BY <3>1, <3>2, <3>3
      <3> HIDE DEF Upto
      <3> QED
        BY <3>4
    <2>4. ASSUME NEW n \in Node
          PROVE  Successors(rebuilt[i], n) = {To[e] : e \in {f \in Upto(i) : From[f] = n}}
      <3> HIDE DEF Upto
      <3>1. Successors(rebuilt[i - 1], n) = {To[e] : e \in {f \in Upto(i - 1) : From[f] = n}}
        BY <1>4
      <3>2. Successors(rebuilt[i], n) =
              Successors(rebuilt[i - 1], n) \cup (IF n = From[es[i]] THEN {To[es[i]]} ELSE {})
        BY <2>1, <2>2, AddingType
      <3> HIDE DEF S
      <3> QED
        BY <2>3, <3>1, <3>2
    <2> QED
      BY <2>1, <2>4
  <1> HIDE DEF S, Upto
  <1>5. 0..m \subseteq S
    BY <1>1, <1>3, <1>4, Throughout
  <1>6. m \in 0..m /\ Rebuilt(es) = rebuilt[m]
    BY <1>1, RebuiltIsAll DEF rebuilt, m
  <1>7. Upto(m) = ToSet(es)
    BY <1>1 DEF ToSet, Upto
  <1>8. \A n \in Node : Successors(rebuilt[m], n) = Joined(es, n)
    BY <1>5, <1>6, <1>7 DEF S, Joined
  <1> QED
    BY <1>2, <1>6, <1>8

\* An edge at the end of the list is an edge added to the cache.
LEMMA RebuiltAppend ==
  ASSUME NEW es \in Seq(Edge), NEW e \in Edge
  PROVE  Rebuilt(Append(es, e)) = Adding(Rebuilt(es), e)
  <1> DEFINE m == Len(es)
             fs == Append(es, e)
             R == RebuiltAll(es)
             F == RebuiltAll(fs)
             S == {i \in 0..m : R[i] = F[i]}
  <1>1. /\ m \in Nat /\ fs \in Seq(Edge) /\ Len(fs) = m + 1
        /\ \A i \in 1..m : fs[i] = es[i]
        /\ fs[m + 1] = e
    BY LenProperties, AppendProperties
  <1>2. R[0] = [n \in Node |-> <<>>] /\ \A i \in 1..m : R[i] = Adding(R[i - 1], es[i])
    BY RebuiltRuns
  <1>3. F[0] = [n \in Node |-> <<>>] /\ \A i \in 1..(m + 1) : F[i] = Adding(F[i - 1], fs[i])
    <2> HIDE DEF fs
    <2> QED
      BY <1>1, RebuiltRuns
  <1>4. Rebuilt(es) = R[m] /\ Rebuilt(fs) = F[m + 1]
    BY <1>1, RebuiltIsAll
  <1> HIDE DEF m, fs, R, F
  <1>5. 0 \in S
    BY <1>1, <1>2, <1>3
  <1>6. ASSUME NEW i \in 1..m, i - 1 \in S PROVE i \in S
    <2>1. i \in 0..m /\ i \in 1..(m + 1)
      BY <1>1
    <2> QED
      BY <1>1, <1>2, <1>3, <1>6, <2>1
  <1> HIDE DEF S
  <1>7. 0..m \subseteq S
    BY <1>1, <1>5, <1>6, Throughout
  <1>8. m \in 0..m /\ m + 1 \in 1..(m + 1) /\ (m + 1) - 1 = m
    BY <1>1
  <1>9. R[m] = F[m]
    BY <1>7, <1>8 DEF S
  <1>10. F[m + 1] = Adding(F[m], e)
    BY <1>1, <1>3, <1>8
  <1> QED
    BY <1>4, <1>9, <1>10 DEF fs

Keeping(kept, n, e) == IF n \in {From[e], To[e]} THEN kept ELSE Append(kept, e)

WithoutAll(es, n) ==
  CHOOSE kept : kept = [i \in 0..Len(es) |->
    IF i = 0 THEN <<>>
    ELSE IF n \in {From[es[i]], To[es[i]]} THEN kept[i - 1]
    ELSE Append(kept[i - 1], es[i])]

\* remove_agent() filters the edges in a loop.
LEMMA WithoutIsAll ==
  ASSUME NEW es, NEW n
  PROVE  Without(es, n) = WithoutAll(es, n)[Len(es)]
  BY DEF Without, WithoutAll

\* Sequences of edges of es that leave out n.
Kept(es, n) == Seq({e \in ToSet(es) : n \notin {From[e], To[e]}})

\* The edges that stay are edges that were there, and none of the agent's.
LEMMA WithoutRuns ==
  ASSUME NEW es \in Seq(Edge), NEW n
  PROVE  Without(es, n) \in Kept(es, n)
  <1> DEFINE m == Len(es)
             V == Kept(es, n)
             turn == [x \in (1..m) \X V |-> Keeping(x[2], n, es[x[1]])]
             Is(g) == g = [i \in 0..m |-> IF i = 0 THEN <<>>
                                          ELSE IF n \in {From[es[i]], To[es[i]]} THEN g[i - 1]
                                          ELSE Append(g[i - 1], es[i])]
  <1>1. m \in Nat /\ \A i \in 1..m : es[i] \in ToSet(es)
    BY LenProperties DEF ToSet
  <1>2. <<>> \in V
    BY EmptySeq DEF Kept
  <1> HIDE DEF m
  <1>3. turn \in [(1..m) \X V -> V]
    <2>1. ASSUME NEW x \in (1..m) \X V PROVE Keeping(x[2], n, es[x[1]]) \in V
      <3>1. x[2] \in V /\ es[x[1]] \in ToSet(es)
        BY <1>1
      <3>2. CASE n \in {From[es[x[1]]], To[es[x[1]]]}
        BY <3>1, <3>2 DEF Keeping
      <3>3. CASE n \notin {From[es[x[1]]], To[es[x[1]]]}
        <4>1. Append(x[2], es[x[1]]) \in V
          BY <3>1, <3>3, AppendProperties DEF Kept
        <4> QED
          BY <3>3, <4>1 DEF Keeping
      <3> QED
        BY <3>2, <3>3
    <2> HIDE DEF V
    <2> QED
      BY <2>1
  <1> HIDE DEF V
  <1>4. Turns(m, V, <<>>, turn) # {}
    <2> HIDE DEF turn
    <2> QED
      BY <1>1, <1>2, <1>3, TurnsExist
  <1>5. PICK g \in [0..m -> V] : g[0] = <<>> /\ \A i \in 1..m : g[i] = turn[<<i, g[i - 1]>>]
    BY <1>4 DEF Turns
  <1>6. ASSUME NEW i \in 1..m PROVE g[i] = Keeping(g[i - 1], n, es[i])
    <2> HIDE DEF turn
    <2>1. i - 1 \in 0..m
      BY <1>1
    <2>2. g[i - 1] \in V
      BY <1>5, <2>1
    <2>3. turn[<<i, g[i - 1]>>] = Keeping(g[i - 1], n, es[i])
      BY <2>2 DEF turn
    <2> QED
      BY <1>5, <2>3
  <1>7. Is(g)
    <2>1. \A i \in 0..m : i # 0 => i \in 1..m
      BY <1>1
    <2>2. \A i \in 0..m : g[i] = IF i = 0 THEN <<>>
                                 ELSE IF n \in {From[es[i]], To[es[i]]} THEN g[i - 1]
                                 ELSE Append(g[i - 1], es[i])
      BY <1>5, <1>6, <2>1 DEF Keeping
    <2> HIDE DEF turn
    <2> QED
      BY <1>5, <2>2
  <1> DEFINE kept == WithoutAll(es, n)
  <1>8. Is(kept)
    <2>1. kept = CHOOSE g_1 : Is(g_1)
      BY DEF WithoutAll, m
    <2> QED
      BY <1>7, <2>1
  <1> HIDE DEF kept, turn
  <1>9. kept[0] = <<>> /\ \A i \in 1..m : kept[i] = Keeping(kept[i - 1], n, es[i])
    <2>1. 0 \in 0..m /\ \A i \in 1..m : i \in 0..m /\ i # 0
      BY <1>1
    <2> QED
      BY <1>8, <2>1 DEF Keeping
  <1> DEFINE S == {i \in 0..m : kept[i] \in V}
  <1>10. 0 \in S
    BY <1>1, <1>2, <1>9
  <1>11. ASSUME NEW i \in 1..m, i - 1 \in S PROVE i \in S
    <2>1. i \in 0..m /\ kept[i] = Keeping(kept[i - 1], n, es[i])
      BY <1>1, <1>9
    <2>2. kept[i - 1] \in V /\ es[i] \in ToSet(es)
      BY <1>1, <1>11
    <2> HIDE DEF S
    <2>3. kept[i] \in V
      <3>1. CASE n \in {From[es[i]], To[es[i]]}
        BY <2>1, <2>2, <3>1 DEF Keeping
      <3>2. CASE n \notin {From[es[i]], To[es[i]]}
        <4>1. Append(kept[i - 1], es[i]) \in V
          BY <2>2, <3>2, AppendProperties DEF V, Kept
        <4> QED
          BY <2>1, <3>2, <4>1 DEF Keeping
      <3> QED
        BY <3>1, <3>2
    <2> QED
      BY <2>1, <2>3 DEF S
  <1> HIDE DEF S
  <1>12. 0..m \subseteq S
    BY <1>1, <1>10, <1>11, Throughout
  <1>13. kept[m] \in V
    BY <1>1, <1>12 DEF S
  <1> QED
    BY <1>13, WithoutIsAll DEF kept, V, m

----------------------------------------------------------------------------
(***************************************************************************)
(* The workflow as it is built                                             *)
(***************************************************************************)

\* The graph is one that cycles can be looked for in, its list and its cache
\* of edges agree, join agents of the workflow, and have no cycle.
GraphInv ==
  /\ GraphTypeOK
  /\ \A e \in ToSet(edges) : {From[e], To[e]} \subseteq nodes
  /\ adjacency = Rebuilt(edges)
  /\ Acyclic(adjacency, nodes)

\* A sequence of elements of T is a sequence over T.
LEMMA SeqOfSet ==
  ASSUME NEW S, NEW T, NEW s \in Seq(S), ToSet(s) \subseteq T
  PROVE  s \in Seq(T)
  <1>1. Len(s) \in Nat /\ DOMAIN s = 1..Len(s) /\ s \in [1..Len(s) -> S]
    BY LenProperties
  <1>2. \A i \in 1..Len(s) : s[i] \in T
    BY <1>1 DEF ToSet
  <1>3. s \in [1..Len(s) -> T]
    BY <1>1, <1>2
  <1> QED
    BY <1>1, <1>3, SeqDef

\* The elements of a sequence over S are in S.
LEMMA SetOfSeq ==
  ASSUME NEW S, NEW s \in Seq(S)
  PROVE  ToSet(s) \subseteq S
  BY LenProperties DEF ToSet

\* The cache gives each agent the successors that the list of edges does, and
\* an agent that is not in the workflow none.
LEMMA GraphIsGraph ==
  ASSUME GraphInv
  PROVE  /\ IsGraph(nodes, adjacency)
         /\ \A n \in Node : Successors(adjacency, n) = Joined(edges, n)
         /\ \A n \in Node : Successors(adjacency, n) \subseteq nodes
         /\ \A n \in Node \ nodes : Successors(adjacency, n) = {}
  <1>1. /\ nodes \subseteq Node /\ edges \in Seq(Edge)
        /\ adjacency \in [Node -> Seq(Node)] /\ adjacency = Rebuilt(edges)
    BY DEF GraphInv, GraphTypeOK
  <1>2. \A n \in Node : Successors(adjacency, n) = Joined(edges, n)
    BY <1>1, RebuiltType
  <1>3. \A n \in Node : /\ Joined(edges, n) \subseteq nodes
                        /\ n \notin nodes => Joined(edges, n) = {}
    BY DEF GraphInv, Joined
  <1>4. IsFiniteSet(nodes)
    BY <1>1, WorkflowGraphAssumption, FS_Subset
  <1>5. ASSUME NEW n \in nodes PROVE adjacency[n] \in Seq(nodes)
    <2>1. adjacency[n] \in Seq(Node) /\ ToSet(adjacency[n]) \subseteq nodes
      BY <1>1, <1>2, <1>3 DEF Successors
    <2> QED
      BY <2>1, SeqOfSet
  <1> QED
    BY <1>2, <1>3, <1>4, <1>5 DEF IsGraph

\* With an edge on trial it is a graph that cycles can be looked for in.
LEMMA AppendedIsGraph ==
  ASSUME GraphInv, NEW e \in Edge, {From[e], To[e]} \subseteq nodes
  PROVE  IsGraph(nodes, Appended(e)) /\ Appended(e) \in [Node -> Seq(Node)]
  <1>1. /\ nodes \subseteq Node /\ adjacency \in [Node -> Seq(Node)]
    BY DEF GraphInv, GraphTypeOK
  <1>2. Appended(e) = Adding(adjacency, e)
    BY DEF Appended, Adding
  <1>3. /\ Appended(e) \in [Node -> Seq(Node)]
        /\ \A n \in Node :
             Successors(Appended(e), n) \subseteq Successors(adjacency, n) \cup {To[e]}
    BY <1>1, <1>2, AddingType
  <1>4. ASSUME NEW n \in nodes PROVE Appended(e)[n] \in Seq(nodes)
    <2>1. Appended(e)[n] \in Seq(Node) /\ ToSet(Appended(e)[n]) \subseteq nodes
      BY <1>1, <1>3, GraphIsGraph DEF Successors
    <2> QED
      BY <2>1, SeqOfSet
  <1> QED
    BY <1>3, <1>4, GraphIsGraph DEF IsGraph

\* A graph without cycles has none with fewer nodes and edges.
LEMMA FewerEdges ==
  ASSUME NEW A, NEW B, NEW X, NEW Y, Acyclic(A, X), Y \subseteq X,
         \A n \in Y : Successors(B, n) \subseteq Successors(A, n)
  PROVE  Acyclic(B, Y)
  <1> SUFFICES ASSUME NEW Z \in SUBSET Y, Z # {}
               PROVE  \E x \in Z : \A p \in Z : x \notin Successors(B, p)
    BY DEF Acyclic
  <1>1. Z \in SUBSET X
    OBVIOUS
  <1>2. PICK x \in Z : \A p \in Z : x \notin Successors(A, p)
    BY <1>1 DEF Acyclic
  <1> QED
    BY <1>2

\* A new workflow's graph.
LEMMA InitGraphInv ==
  ASSUME InitGraph
  PROVE  GraphInv
  <1>1. /\ edges = <<>> /\ <<>> \in Seq(Edge) /\ <<>> \in Seq(Node)
        /\ Len(<<>>) = 0 /\ ToSet(<<>>) = {}
    BY EmptySeq DEF InitGraph, ToSet
  <1>2. Rebuilt(<<>>) = [n \in Node |-> <<>>]
    BY <1>1, RebuiltIsAll, RebuiltRuns
  <1> QED
    BY <1>1, <1>2 DEF InitGraph, GraphInv, GraphTypeOK, Acyclic

\* add_agent() keeps it: a new agent has no successors, and is none's.
LEMMA AddAgentKeepsGraph ==
  ASSUME GraphInv, NEW n \in Node, AddAgent(n)
  PROVE  GraphInv'
  <1>1. nodes' = nodes \cup {n} /\ edges' = edges /\ adjacency' = adjacency
    BY DEF AddAgent
  <1>2. ASSUME NEW X \in SUBSET nodes', X # {}
        PROVE  \E x \in X : \A p \in X : x \notin Successors(adjacency, p)
    <2>1. CASE n \in nodes \/ n \notin X
      <3>1. X \in SUBSET nodes
        BY <1>1, <2>1
      <3> QED
        BY <1>2, <3>1 DEF GraphInv, Acyclic
    <2>2. CASE n \notin nodes /\ n \in X
      <3>1. Successors(adjacency, n) = {}
        BY <2>2, GraphIsGraph
      <3>2. \A p \in X : n \notin Successors(adjacency, p)
        <4>1. \A p \in X : p \in Node
          BY <1>1 DEF GraphInv, GraphTypeOK
        <4> QED
          BY <2>2, <4>1, GraphIsGraph
      <3> QED
        BY <2>2, <3>2
    <2> QED
      BY <2>1, <2>2
  <1> QED
    BY <1>1, <1>2 DEF GraphInv, GraphTypeOK, Acyclic

\* add_edge() keeps it: an edge stays only if no cycle is detected.
LEMMA AddEdgeKeepsGraph ==
  ASSUME GraphInv, NEW e \in Edge, AddEdge(e)
  PROVE  GraphInv'
  <1>1. CASE DetectCycle(nodes, Appended(e)) # <<>>
    BY <1>1 DEF AddEdge, GraphInv, GraphTypeOK
  <1>2. CASE DetectCycle(nodes, Appended(e)) = <<>>
    <2>1. /\ {From[e], To[e]} \subseteq nodes /\ nodes' = nodes
          /\ adjacency' = Appended(e) /\ edges' = Append(edges, e)
      BY <1>2 DEF AddEdge
    <2>2. IsGraph(nodes, Appended(e)) /\ Appended(e) \in [Node -> Seq(Node)]
      BY <2>1, AppendedIsGraph
    <2>3. Acyclic(adjacency', nodes')
      BY <1>2, <2>1, <2>2, DetectsUnsortable
    <2>4. edges \in Seq(Edge) /\ adjacency = Rebuilt(edges) /\ nodes \subseteq Node
      BY DEF GraphInv, GraphTypeOK
    <2>5. adjacency' = Rebuilt(edges')
      BY <2>1, <2>4, RebuiltAppend DEF Appended, Adding
    <2>6. edges' \in Seq(Edge) /\ ToSet(edges') = ToSet(edges) \cup {e}
      BY <2>1, <2>4, AppendProperties, SetOfAppend
    <2>7. \A f \in ToSet(edges') : {From[f], To[f]} \subseteq nodes'
      BY <2>1, <2>6 DEF GraphInv
    <2> QED
      BY <2>1, <2>2, <2>3, <2>4, <2>5, <2>6, <2>7 DEF GraphInv, GraphTypeOK
  <1> QED
    BY <1>1, <1>2

\* remove_agent() keeps it: the graph only loses nodes and edges.
LEMMA RemoveAgentKeepsGraph ==
  ASSUME GraphInv, NEW n \in Node, RemoveAgent(n)
  PROVE  GraphInv'
  <1>1. nodes' = nodes \ {n} /\ edges' = Without(edges, n) /\ adjacency' = Rebuilt(edges')
    BY DEF RemoveAgent
  <1>2. edges \in Seq(Edge) /\ nodes \subseteq Node
    BY DEF GraphInv, GraphTypeOK
  <1> DEFINE T == {e \in ToSet(edges) : n \notin {From[e], To[e]}}
  <1>3. edges' \in Seq(T)
    BY <1>1, <1>2, WithoutRuns DEF Kept
  <1>4. ToSet(edges') \subseteq T
    <2> HIDE DEF T
    <2> QED
      BY <1>3, SetOfSeq
  <1>5. ToSet(edges') \subseteq Edge
    BY <1>2, <1>4, SetOfSeq
  <1>6. edges' \in Seq(Edge)
    <2> HIDE DEF T
    <2> QED
      BY <1>3, <1>5, SeqOfSet
  <1>7. \A e \in ToSet(edges') : {From[e], To[e]} \subseteq nodes'
    BY <1>1, <1>4 DEF GraphInv
  <1>8. /\ adjacency' \in [Node -> Seq(Node)]
        /\ \A m \in Node : Successors(adjacency', m) = Joined(edges', m)
    BY <1>1, <1>6, RebuiltType
  <1>9. \A m \in Node : Successors(adjacency', m) \subseteq Successors(adjacency, m)
    BY <1>4, <1>8, GraphIsGraph DEF Joined
  <1>10. Acyclic(adjacency, nodes) /\ nodes' \subseteq nodes
    BY <1>1 DEF GraphInv
  <1>11. \A m \in nodes' : Successors(adjacency', m) \subseteq Successors(adjacency, m)
    BY <1>2, <1>9, <1>10
  <1>12. Acyclic(adjacency', nodes')
    BY <1>10, <1>11, FewerEdges
  <1> QED
    BY <1>1, <1>2, <1>6, <1>7, <1>8, <1>12 DEF GraphInv, GraphTypeOK

\* Such a graph is sound.
LEMMA GraphInvSound ==
  ASSUME GraphInv
  PROVE  GraphSound
  <1>1. IsGraph(nodes, adjacency) /\ Acyclic(adjacency, nodes)
    BY GraphIsGraph DEF GraphInv
  <1>2. DetectCycle(nodes, adjacency) = <<>> /\ Sortable(nodes, adjacency)
    BY <1>1, DetectsUnsortable, AcyclicSorts DEF IsGraph
  <1>3. Validate \subseteq {"no nodes"}
    BY <1>2 DEF Validate, GraphInv
  <1>4. ASSUME NEW e \in Edge, {From[e], To[e]} \subseteq nodes
        PROVE  LET cycle == DetectCycle(nodes, Appended(e))
               IN IF Sortable(nodes, Appended(e))
                  THEN cycle = <<>>
                  ELSE IsCycle(Appended(e), cycle)
    BY <1>4, AppendedIsGraph, DetectsUnsortable
  <1> QED
    BY <1>2, <1>3, <1>4 DEF GraphSound, GraphInv

----------------------------------------------------------------------------
(***************************************************************************)
(* Runs, crashes and resumes                                               *)
(***************************************************************************)

\* Before the first run; and once runs have begun, what they are runs of.
Unbegun ==
  /\ file = None
  /\ phase = [r \in Run |-> "idle"]
  /\ level = [r \in Run |-> 0]
  /\ pending = [r \in Run |-> {}]
  /\ outputs = [r \in Run |-> NoOutputs]
  /\ start = [r \in Run |-> "fresh"]
Begun ==
  /\ nodes = Node /\ Node # {}
  /\ levels = ExecutionLevels

\* What makes ResumeSound inductive: a run whose level is executed has the
\* outputs of that level too.
Resumes ==
  /\ \A r \in Run : phase[r] \in {"running", "yielding", "saving"} => level[r] < Depth(levels)
  /\ \A r \in Run : phase[r] \in {"idle", "over", "dead"} => level[r] = 0
  /\ \A r \in Run : start[r] # "unsound" /\ phase[r] # "idle" => Complete(outputs[r], level[r])
  /\ \A r \in Run : start[r] # "unsound" /\ phase[r] \in {"yielding", "saving"} =>
       Complete(outputs[r], level[r] + 1)
  /\ file # None /\ file.start # "unsound" => Complete(file.outputs, file.level + 1)
  /\ \A r \in Run : start[r] = "fresh" => \A n \in Node : outputs[r][n] \subseteq {r, Missing}

WorkflowInv ==
  /\ TypeOK
  /\ GraphInv
  /\ IF begun = 0 THEN Unbegun ELSE Begun /\ Resumes

\* The levels the runs go through.
LEMMA LevelsSound ==
  ASSUME GraphInv, nodes = Node, Node # {}
  PROVE  LET ls == ExecutionLevels IN
           /\ ls \in [Node -> 0..Cardinality(Node)]
           /\ Depth(ls) \in 1..Cardinality(Node) /\ Cardinality(Node) \in Nat
           /\ \A n \in Node : ls[n] < Depth(ls)
           /\ \A l \in Nat : l < Depth(ls) => At(ls, l) # {} /\ At(ls, l) \subseteq Node
           /\ \A n \in Node : \A p \in Predecessors(n) : p \in Node /\ ls[p] < ls[n]
  <1> DEFINE ls == ExecutionLevels
             c == Cardinality(Node)
  <1>1. IsGraph(nodes, adjacency) /\ IsFiniteSet(Node) /\ Sortable(Node, adjacency)
    <2>1. IsGraph(nodes, adjacency) /\ Acyclic(adjacency, nodes)
      BY GraphIsGraph DEF GraphInv
    <2> QED
      BY <2>1, AcyclicSorts DEF IsGraph
  <1>2. ls = Levels(Node, adjacency)
    BY DEF ExecutionLevels
  <1> HIDE DEF ls
  <1>3. ls \in [Node -> 0..(c - 1)] /\ c \in Nat
    BY <1>1, <1>2, LevelsAre, FS_CardinalityType
  <1>4. /\ Depth(ls) \in 1..c
        /\ \A n \in Node : ls[n] < Depth(ls)
        /\ \A l \in Nat : l < Depth(ls) => At(ls, l) # {}
    BY <1>1, <1>2, DepthIs
  <1>5. ls \in [Node -> 0..c]
    BY <1>3
  <1>6. \A l : At(ls, l) \subseteq Node
    BY <1>3 DEF At
  <1>7. ASSUME NEW n \in Node, NEW p \in Predecessors(n)
        PROVE  p \in Node /\ ls[p] < ls[n]
    <2>1. PICK e \in ToSet(edges) : To[e] = n /\ p = From[e]
      BY DEF Predecessors
    <2>2. p \in Node
      BY <2>1 DEF GraphInv
    <2>3. n \in Joined(edges, p)
      BY <2>1 DEF Joined
    <2>4. n \in Successors(adjacency, p)
      BY <2>2, <2>3, GraphIsGraph
    <2> QED
      BY <1>1, <1>2, <2>2, <2>4, LevelsFollow
  <1> QED
    BY <1>3, <1>4, <1>5, <1>6, <1>7 DEF ls

\* A workflow without runs.
LEMMA InitWorkflow ==
  ASSUME Init
  PROVE  WorkflowInv
  <1>1. GraphInv
    BY InitGraphInv DEF Init
  <1>2. TypeOK
    <2>1. Cardinality(Node) \in Nat /\ MaxBegun \in Nat
      BY WorkflowGraphAssumption, WorkflowAssumption, FS_CardinalityType
    <2> QED
      BY <1>1, <2>1 DEF Init, TypeOK, GraphInv, Phase, Start, Output, NoOutputs
  <1> QED
    BY <1>1, <1>2 DEF Init, WorkflowInv, Unbegun

\* Building the graph, before the first run.
LEMMA BuildKeeps ==
  ASSUME WorkflowInv, begun = 0, Build, UNCHANGED run
  PROVE  WorkflowInv'
  <1>1. GraphInv'
    BY AddAgentKeepsGraph, RemoveAgentKeepsGraph, AddEdgeKeepsGraph DEF Build, WorkflowInv
  <1> QED
    BY <1>1 DEF WorkflowInv, TypeOK, GraphInv, Unbegun, run

\* What a step of the runs leaves of the graph.
LEMMA GraphStays ==
  ASSUME GraphInv, UNCHANGED graph
  PROVE  GraphInv'
  BY DEF GraphInv, GraphTypeOK, graph

\* A run that returns or dies holds nothing.
LEMMA LeaveKeeps ==
  ASSUME TypeOK, begun # 0, Resumes, NEW r \in Run, NEW how \in {"over", "dead"},
         Leave(r, how), UNCHANGED <<graph, levels, file>>,
         levels \in [Node -> 0..Cardinality(Node)], nodes = Node
  PROVE  /\ Resumes'
         /\ phase' \in [Run -> Phase]
         /\ level' \in [Run -> 0..Cardinality(Node)]
         /\ pending' \in [Run -> SUBSET Node]
         /\ \A q \in Run : phase'[q] = "running" <=> pending'[q] # {}
         /\ outputs' \in [Run -> [Node -> Output]]
         /\ start' \in [Run -> Start]
  <1>1. Cardinality(Node) \in Nat
    BY WorkflowGraphAssumption, FS_CardinalityType
  <1> QED
    BY <1>1 DEF TypeOK, Resumes, Leave, Complete, Phase, Start, Output, NoOutputs, graph

\* What holds in every state with runs.
LEMMA Running ==
  ASSUME WorkflowInv, begun # 0
  PROVE  /\ TypeOK /\ GraphInv /\ Begun /\ Resumes
         /\ nodes = Node /\ Cardinality(Node) \in Nat
         /\ levels \in [Node -> 0..Cardinality(Node)]
         /\ Depth(levels) \in 1..Cardinality(Node)
         /\ \A n \in Node : levels[n] < Depth(levels)
         /\ \A l \in Nat : l < Depth(levels) => At(levels, l) # {} /\ At(levels, l) \subseteq Node
         /\ \A n \in Node : \A p \in Predecessors(n) : p \in Node /\ levels[p] < levels[n]
  BY LevelsSound DEF WorkflowInv, Begun

\* A step of the runs keeps what it leaves alone.
LEMMA RunsKeep ==
  ASSUME WorkflowInv, begun # 0, UNCHANGED <<graph, levels, begun>>,
         file' # None => file' \in Checkpoint,
         phase' \in [Run -> Phase], level' \in [Run -> 0..Cardinality(Node)],
         pending' \in [Run -> SUBSET Node],
         \A r \in Run : phase'[r] = "running" <=> pending'[r] # {},
         outputs' \in [Run -> [Node -> Output]], start' \in [Run -> Start],
         Resumes'
  PROVE  WorkflowInv'
  <1>1. GraphInv'
    BY GraphStays DEF WorkflowInv, graph
  <1>2. TypeOK' /\ Begun'
    BY <1>1 DEF WorkflowInv, TypeOK, GraphInv, Begun, graph, ExecutionLevels
  <1> QED
    BY <1>1, <1>2 DEF WorkflowInv

\* A run that fails, is closed or crashes leaves the file alone.
LEMMA DieKeeps ==
  ASSUME WorkflowInv, begun # 0, NEW r \in Run, Die(r)
  PROVE  WorkflowInv'
  <1>1. Leave(r, "dead") /\ UNCHANGED <<graph, levels, file, begun>>
    BY DEF Die
  <1>2. file' # None => file' \in Checkpoint
    BY <1>1 DEF WorkflowInv, TypeOK
  <1> QED
    BY <1>1, <1>2, Running, LeaveKeeps, RunsKeep

\* The checkpoint is not in place yet.
LEMMA StartSaveKeeps ==
  ASSUME WorkflowInv, begun # 0, NEW r \in Run, StartSave(r)
  PROVE  WorkflowInv'
  <1>1. TypeOK /\ Resumes
    BY Running
  <1>2. /\ phase[r] = "yielding" /\ phase' = [phase EXCEPT ![r] = "saving"]
        /\ UNCHANGED <<graph, levels, file, level, pending, outputs, start, begun>>
    BY DEF StartSave
  <1>3. Resumes'
    BY <1>1, <1>2 DEF Resumes, TypeOK, Complete, graph
  <1>4. phase' \in [Run -> Phase] /\ \A q \in Run : phase'[q] = "running" <=> pending'[q] # {}
    BY <1>1, <1>2 DEF TypeOK, Phase
  <1> QED
    BY <1>1, <1>2, <1>3, <1>4, RunsKeep DEF TypeOK

\* Without a file there is nothing to be complete.
LEMMA DeleteKeeps ==
  ASSUME WorkflowInv, Delete
  PROVE  WorkflowInv'
  <1>1. begun # 0
    BY DEF WorkflowInv, Unbegun, Delete
  <1>2. TypeOK /\ Resumes
    BY <1>1, Running
  <1>3. /\ file' = None
        /\ UNCHANGED <<graph, levels, phase, level, pending, outputs, start, begun>>
    BY DEF Delete
  <1>4. Resumes'
    BY <1>2, <1>3 DEF Resumes, Complete, graph
  <1> QED
    BY <1>1, <1>2, <1>3, <1>4, RunsKeep DEF TypeOK

\* The outputs of a level, computed from complete ones, are complete.
LEMMA RunNodeSound ==
  ASSUME WorkflowInv, begun # 0, NEW r \in Run, NEW n \in Node
  PROVE  /\ RunNode(r, n) \in Output
         /\ Complete(outputs[r], levels[n]) => Missing \notin RunNode(r, n)
         /\ start[r] = "fresh" => RunNode(r, n) \subseteq {r, Missing}
  <1>1. /\ TypeOK /\ Resumes /\ nodes = Node
        /\ \A p \in Predecessors(n) : p \in Node /\ levels[p] < levels[n]
    BY Running
  <1>2. Feeding(n) \subseteq Predecessors(n)
    BY DEF Feeding
  <1>3. \A p \in Feeding(n) : p \in Node /\ levels[p] < levels[n] /\ outputs[r][p] \in Output
    BY <1>1, <1>2 DEF TypeOK
  <1>4. CASE Predecessors(n) = {}
    <2>1. RunNode(r, n) = {r}
      BY <1>4 DEF RunNode
    <2> QED
      BY <2>1, WorkflowAssumption DEF Output
  <1>5. CASE Predecessors(n) # {}
    <2>1. RunNode(r, n) = UNION {outputs[r][p] : p \in Feeding(n)}
      BY <1>5 DEF RunNode
    <2>2. RunNode(r, n) \in Output
      BY <1>3, <2>1 DEF Output
    <2>3. Complete(outputs[r], levels[n]) => Missing \notin RunNode(r, n)
      BY <1>1, <1>3, <2>1 DEF Complete
    <2>4. start[r] = "fresh" => RunNode(r, n) \subseteq {r, Missing}
      BY <1>1, <1>3, <2>1 DEF Resumes
    <2> QED
      BY <2>2, <2>3, <2>4
  <1> QED
    BY <1>4, <1>5

\* The last node of a level completes it.
LEMMA NodeDoneKeeps ==
  ASSUME WorkflowInv, begun # 0, NEW r \in Run, NEW n \in Node, NodeDone(r, n)
  PROVE  WorkflowInv'
  <1>1. /\ TypeOK /\ Resumes /\ nodes = Node
        /\ levels \in [Node -> 0..Cardinality(Node)] /\ Cardinality(Node) \in Nat
    BY Running
  <1>2. /\ phase[r] = "running" /\ n \in pending[r]
        /\ pending' = [pending EXCEPT ![r] = @ \ {n}]
        /\ UNCHANGED <<graph, levels, file, level, start, begun>>
    BY DEF NodeDone
  <1>3. CASE pending[r] # {n}
    <2>1. phase' = phase /\ outputs' = outputs
      BY <1>3 DEF NodeDone
    <2>2. Resumes'
      BY <1>1, <1>2, <2>1 DEF Resumes, Complete, graph
    <2>3. /\ pending' \in [Run -> SUBSET Node]
          /\ \A q \in Run : phase'[q] = "running" <=> pending'[q] # {}
      <3>1. pending[r] \ {n} # {}
        BY <1>2, <1>3
      <3> QED
        BY <1>1, <1>2, <2>1, <3>1 DEF TypeOK
    <2> QED
      BY <1>1, <1>2, <2>1, <2>2, <2>3, RunsKeep DEF TypeOK
  <1>4. CASE pending[r] = {n}
    <2> DEFINE L == At(levels, level[r])
               out == [m \in Node |-> IF m \in L THEN RunNode(r, m) ELSE outputs[r][m]]
    <2>1. /\ phase' = [phase EXCEPT ![r] = "yielding"]
          /\ outputs' = [outputs EXCEPT ![r] = out]
      BY <1>1, <1>4 DEF NodeDone, TypeOK
    <2>2. \A m \in Node : m \in L <=> levels[m] = level[r]
      BY <1>1 DEF At
    <2>3. out \in [Node -> Output]
      <3>1. \A m \in Node : RunNode(r, m) \in Output /\ outputs[r][m] \in Output
        BY <1>1, RunNodeSound DEF TypeOK
      <3> HIDE DEF L
      <3> QED
        BY <3>1
    <2>4. /\ outputs' \in [Run -> [Node -> Output]] /\ outputs'[r] = out
          /\ \A q \in Run : q # r => outputs'[q] = outputs[q]
      <3> HIDE DEF out
      <3> QED
        BY <1>1, <2>1, <2>3 DEF TypeOK
    <2>5. /\ phase' \in [Run -> Phase] /\ phase'[r] = "yielding"
          /\ \A q \in Run : q # r => phase'[q] = phase[q]
      BY <1>1, <2>1 DEF TypeOK, Phase
    <2>6. /\ pending' \in [Run -> SUBSET Node] /\ pending'[r] = {}
          /\ \A q \in Run : q # r => pending'[q] = pending[q]
      BY <1>1, <1>2, <1>4 DEF TypeOK
    <2>7. level[r] \in 0..Cardinality(Node) /\ \A m \in Node : levels[m] \in Int
      BY <1>1 DEF TypeOK
    <2>8. ASSUME start[r] # "unsound" PROVE Complete(out, level[r] + 1)
      <3>1. Complete(outputs[r], level[r])
        BY <1>1, <1>2, <2>8 DEF Resumes
      <3>2. ASSUME NEW m \in Node, levels[m] < level[r] + 1 PROVE Missing \notin out[m]
        <4>1. CASE levels[m] = level[r]
          <5>1. Missing \notin RunNode(r, m)
            BY <3>1, <4>1, RunNodeSound
          <5> QED
            BY <2>2, <4>1, <5>1
        <4>2. CASE levels[m] # level[r]
          <5>1. levels[m] < level[r]
            BY <2>7, <3>2, <4>2
          <5> QED
            BY <1>1, <2>2, <3>1, <4>2, <5>1 DEF Complete
        <4> QED
          BY <4>1, <4>2
      <3> HIDE DEF out
      <3> QED
        BY <1>1, <3>2 DEF Complete
    <2>9. ASSUME start[r] # "unsound" PROVE Complete(out, level[r])
      <3> HIDE DEF out
      <3>1. \A m \in Node : levels[m] < level[r] => levels[m] < level[r] + 1
        BY <2>7
      <3> QED
        BY <1>1, <2>8, <2>9, <3>1 DEF Complete
    <2>10. ASSUME start[r] = "fresh" PROVE \A m \in Node : out[m] \subseteq {r, Missing}
      <3>1. \A m \in Node : outputs[r][m] \subseteq {r, Missing}
        BY <1>1, <2>10 DEF Resumes
      <3>2. \A m \in Node : RunNode(r, m) \subseteq {r, Missing}
        BY <2>10, RunNodeSound
      <3> QED
        BY <3>1, <3>2
    <2> HIDE DEF out, L
    <2>11. nodes' = nodes /\ levels' = levels /\ file' = file /\ level' = level /\ start' = start
      BY <1>2 DEF graph
    <2>13. Resumes'
      <3>1. \A q \in Run : phase'[q] \in {"running", "yielding", "saving"} =>
              level'[q] < Depth(levels)'
        BY <1>1, <1>2, <2>5, <2>11 DEF Resumes
      <3>2. \A q \in Run : phase'[q] \in {"idle", "over", "dead"} => level'[q] = 0
        BY <1>1, <2>5, <2>11 DEF Resumes
      <3>3. \A q \in Run : start'[q] # "unsound" /\ phase'[q] # "idle" =>
              Complete(outputs[q], level[q])'
        BY <1>1, <2>4, <2>5, <2>9, <2>11 DEF Resumes, Complete
      <3>4. \A q \in Run : start'[q] # "unsound" /\ phase'[q] \in {"yielding", "saving"} =>
              Complete(outputs[q], level[q] + 1)'
        BY <1>1, <2>4, <2>5, <2>8, <2>11 DEF Resumes, Complete
      <3>5. (file # None /\ file.start # "unsound" => Complete(file.outputs, file.level + 1))'
        BY <1>1, <2>11 DEF Resumes, Complete
      <3>6. \A q \in Run : start'[q] = "fresh" =>
              \A m \in Node : outputs'[q][m] \subseteq {q, Missing}
        BY <1>1, <2>4, <2>10, <2>11 DEF Resumes
      <3> QED
        BY <3>1, <3>2, <3>3, <3>4, <3>5, <3>6 DEF Resumes
    <2>14. \A q \in Run : phase'[q] = "running" <=> pending'[q] # {}
      BY <1>1, <2>5, <2>6 DEF TypeOK
    <2> QED
      BY <1>1, <1>2, <2>4, <2>5, <2>6, <2>13, <2>14, RunsKeep DEF TypeOK
  <1> QED
    BY <1>3, <1>4

\* The checkpoint in place has what the run has, and the run goes to a level
\* all of whose lower levels it has outputs of.
LEMMA ReplaceKeeps ==
  ASSUME WorkflowInv, begun # 0, NEW r \in Run, Replace(r)
  PROVE  WorkflowInv'
  <1>1. /\ TypeOK /\ Resumes /\ nodes = Node
        /\ levels \in [Node -> 0..Cardinality(Node)] /\ Cardinality(Node) \in Nat
        /\ Depth(levels) \in 1..Cardinality(Node)
        /\ \A l \in Nat : l < Depth(levels) => At(levels, l) # {} /\ At(levels, l) \subseteq Node
    BY Running
  <1>2. /\ phase[r] = "saving" /\ file' = Saved(r) /\ Advance(r)
        /\ UNCHANGED <<graph, levels, begun>>
    BY DEF Replace
  <1>3. /\ file' \in Checkpoint /\ file'.level = level[r]
        /\ file'.outputs = outputs[r] /\ file'.start = start[r]
    BY <1>1, <1>2 DEF TypeOK, Saved, Checkpoint
  <1>4. nodes' = nodes /\ levels' = levels
    BY <1>2 DEF graph
  <1>5. start[r] # "unsound" => Complete(outputs[r], level[r] + 1)
    BY <1>1, <1>2 DEF Resumes
  <1>6. (file # None /\ file.start # "unsound" => Complete(file.outputs, file.level + 1))'
    BY <1>3, <1>4, <1>5 DEF Complete
  <1>7. level[r] \in Nat /\ level[r] \in 0..Cardinality(Node)
    BY <1>1 DEF TypeOK
  <1>8. CASE level[r] + 1 < Depth(levels)
    <2> DEFINE l == level[r] + 1
               L == At(levels, l)
    <2>1. l \in Nat /\ l \in 0..Cardinality(Node) /\ L # {} /\ L \in SUBSET Node
      BY <1>1, <1>7, <1>8
    <2>2. /\ level' = [level EXCEPT ![r] = l]
          /\ phase' = [phase EXCEPT ![r] = "running"]
          /\ pending' = [pending EXCEPT ![r] = L]
          /\ outputs' = outputs /\ start' = start
      BY <1>2, <1>8 DEF Advance, Enter
    <2>3. l < Depth(levels) /\ (start[r] # "unsound" => Complete(outputs[r], l))
      BY <1>5, <1>8
    <2> HIDE DEF l, L
    <2>4. /\ phase' \in [Run -> Phase] /\ phase'[r] = "running"
          /\ \A q \in Run : q # r => phase'[q] = phase[q]
      BY <1>1, <2>2 DEF TypeOK, Phase
    <2>5. /\ level' \in [Run -> 0..Cardinality(Node)] /\ level'[r] = l
          /\ \A q \in Run : q # r => level'[q] = level[q]
      BY <1>1, <2>1, <2>2 DEF TypeOK
    <2>6. /\ pending' \in [Run -> SUBSET Node] /\ pending'[r] = L
          /\ \A q \in Run : q # r => pending'[q] = pending[q]
      BY <1>1, <2>1, <2>2 DEF TypeOK
    <2>7. Resumes'
      <3>1. \A q \in Run : phase'[q] \in {"running", "yielding", "saving"} =>
              level'[q] < Depth(levels)'
        BY <1>1, <1>4, <2>3, <2>4, <2>5 DEF Resumes
      <3>2. \A q \in Run : phase'[q] \in {"idle", "over", "dead"} => level'[q] = 0
        BY <1>1, <2>4, <2>5 DEF Resumes
      <3>3. \A q \in Run : start'[q] # "unsound" /\ phase'[q] # "idle" =>
              Complete(outputs[q], level[q])'
        BY <1>1, <1>4, <2>2, <2>3, <2>4, <2>5 DEF Resumes, Complete
      <3>4. \A q \in Run : start'[q] # "unsound" /\ phase'[q] \in {"yielding", "saving"} =>
              Complete(outputs[q], level[q] + 1)'
        BY <1>1, <1>4, <2>2, <2>4, <2>5 DEF Resumes, Complete
      <3>5. \A q \in Run : start'[q] = "fresh" =>
              \A m \in Node : outputs'[q][m] \subseteq {q, Missing}
        BY <1>1, <2>2 DEF Resumes
      <3> QED
        BY <1>6, <3>1, <3>2, <3>3, <3>4, <3>5 DEF Resumes
    <2>8. \A q \in Run : phase'[q] = "running" <=> pending'[q] # {}
      BY <1>1, <2>1, <2>4, <2>6 DEF TypeOK
    <2> QED
      BY <1>1, <1>2, <1>3, <2>2, <2>4, <2>5, <2>6, <2>7, <2>8, RunsKeep DEF TypeOK
  <1>9. CASE ~(level[r] + 1 < Depth(levels))
    <2>1. Leave(r, "over")
      BY <1>2, <1>9 DEF Advance
    <2>2. /\ phase' \in [Run -> Phase]
          /\ level' \in [Run -> 0..Cardinality(Node)]
          /\ pending' \in [Run -> SUBSET Node]
          /\ \A q \in Run : phase'[q] = "running" <=> pending'[q] # {}
          /\ outputs' \in [Run -> [Node -> Output]]
          /\ start' \in [Run -> Start]
      BY <1>1, <2>1 DEF TypeOK, Leave, Phase, Start, Output, NoOutputs
    <2>3. Resumes'
      BY <1>1, <1>4, <1>6, <2>1 DEF TypeOK, Resumes, Leave, Complete, NoOutputs
    <2> QED
      BY <1>2, <1>3, <2>2, <2>3, RunsKeep
  <1> QED
    BY <1>8, <1>9

\* A run begins with no outputs at level 0, or where the checkpoint leads up
\* to with those of the checkpoint.
LEMMA BeginKeeps ==
  ASSUME WorkflowInv, NEW r \in Run, NEW resumeFrom \in Node \cup {None, Stranger},
         Begin(r, resumeFrom)
  PROVE  WorkflowInv'
  <1> DEFINE ls == ExecutionLevels
             first == FirstLevel(ls, resumeFrom)
             c == Cardinality(Node)
  <1>1. /\ TypeOK /\ GraphInv /\ nodes = Node /\ Validate = {}
        /\ begun \in Nat /\ begun' = begun + 1 /\ begun < MaxBegun
        /\ levels' = ls /\ UNCHANGED <<graph, file>>
        /\ phase[r] \in {"idle", "over", "dead"}
    BY WorkflowAssumption DEF Begin, WorkflowInv, TypeOK
  <1>2. Node # {}
    <2>1. nodes = {} => "no nodes" \in Validate
      BY DEF Validate
    <2> QED
      BY <1>1, <2>1
  <1>3. /\ ls \in [Node -> 0..c] /\ c \in Nat
        /\ Depth(ls) \in 1..c
        /\ \A l \in Nat : l < Depth(ls) => At(ls, l) # {} /\ At(ls, l) \subseteq Node
    BY <1>1, <1>2, LevelsSound
  <1>4. nodes' = nodes /\ edges' = edges /\ adjacency' = adjacency /\ file' = file
    BY <1>1 DEF graph
  <1>5. Begun' /\ begun' # 0 /\ begun' \in 0..MaxBegun
    <2>1. ExecutionLevels' = ls
      BY <1>4 DEF ExecutionLevels
    <2>2. begun' # 0 /\ begun' \in 0..MaxBegun
      BY <1>1, WorkflowAssumption
    <2> QED
      BY <1>1, <1>2, <1>4, <2>1, <2>2 DEF Begun
  <1>6. GraphInv'
    BY <1>1, GraphStays
  <1>7. ASSUME begun = 0
        PROVE  /\ file = None
               /\ \A q \in Run : phase[q] = "idle" /\ level[q] = 0 /\ start[q] = "fresh"
                                   /\ outputs[q] = NoOutputs
    BY <1>7 DEF WorkflowInv, Unbegun
  <1>8. begun # 0 => Resumes /\ levels = ls
    BY DEF WorkflowInv, Begun
  <1> HIDE DEF ls
  <1> DEFINE Full(o, l) == \A n \in Node : ls[n] < l => Missing \notin o[n]
  <1>9. /\ \A q \in Run : phase[q] \in {"running", "yielding", "saving"} => level[q] < Depth(ls)
        /\ \A q \in Run : phase[q] \in {"idle", "over", "dead"} => level[q] = 0
        /\ \A q \in Run : start[q] # "unsound" /\ phase[q] # "idle" => Full(outputs[q], level[q])
        /\ \A q \in Run : start[q] # "unsound" /\ phase[q] \in {"yielding", "saving"} =>
             Full(outputs[q], level[q] + 1)
        /\ file # None /\ file.start # "unsound" => Full(file.outputs, file.level + 1)
        /\ \A q \in Run : start[q] = "fresh" =>
             \A n \in Node : outputs[q][n] \subseteq {q, Missing}
    <2>1. CASE begun = 0
      BY <1>7, <2>1 DEF NoOutputs
    <2>2. CASE begun # 0
      BY <1>1, <1>8, <2>2 DEF Resumes, Complete
    <2> QED
      BY <2>1, <2>2
  <1>10. CASE first < Depth(ls)
    <2> DEFINE out == IF resumeFrom = None THEN NoOutputs ELSE LoadSession
               how == StartOf(ls, resumeFrom)
               L == At(ls, first)
    <2>1. /\ outputs' = [outputs EXCEPT ![r] = out]
          /\ start' = [start EXCEPT ![r] = how]
          /\ level' = [level EXCEPT ![r] = first]
          /\ phase' = [phase EXCEPT ![r] = "running"]
          /\ pending' = [pending EXCEPT ![r] = L]
      BY <1>10 DEF Begin, Load, Enter, ls
    <2>2. first \in 0..c /\ first \in Nat
      <3>1. resumeFrom # None => resumeFrom = Stranger \/ ls[resumeFrom] \in 0..c
        BY <1>3
      <3> QED
        BY <1>3, <3>1 DEF FirstLevel
    <2>3. L # {} /\ L \in SUBSET Node
      BY <1>3, <1>10, <2>2
    <2>4. out \in [Node -> Output] /\ how \in Start
      BY <1>1 DEF TypeOK, NoOutputs, LoadSession, Output, Checkpoint, StartOf, Start
    <2>5. how # "unsound" => Full(out, first)
      <3>1. CASE resumeFrom = None
        <4>1. first = 0 /\ \A n \in Node : ~(ls[n] < 0)
          BY <1>3, <3>1 DEF FirstLevel
        <4> QED
          BY <4>1
      <3>2. CASE resumeFrom # None /\ how # "unsound"
        <4>1. /\ resumeFrom \in Node /\ resumeFrom # Stranger
              /\ \/ ls[resumeFrom] = 0
                 \/ /\ file # None /\ file.start # "unsound"
                    /\ ls[resumeFrom] <= file.level + 1
          BY <1>1, <3>2, WorkflowAssumption DEF StartOf
        <4>2. first = ls[resumeFrom]
          BY <3>2, <4>1 DEF FirstLevel
        <4>3. CASE ls[resumeFrom] = 0
          <5>1. \A n \in Node : ~(ls[n] < 0)
            BY <1>3
          <5> QED
            BY <4>2, <4>3, <5>1
        <4>4. CASE /\ file # None /\ file.start # "unsound"
                   /\ ls[resumeFrom] <= file.level + 1
          <5>1. out = file.outputs /\ Full(file.outputs, file.level + 1) /\ file.level \in Nat
            BY <1>1, <1>3, <1>9, <3>2, <4>4 DEF LoadSession, TypeOK, Checkpoint
          <5>2. \A n \in Node : ls[n] < first => ls[n] < file.level + 1
            BY <1>3, <2>2, <4>2, <4>4, <5>1
          <5> HIDE DEF first, out
          <5> QED
            BY <5>1, <5>2
        <4> QED
          BY <4>1, <4>3, <4>4
      <3> QED
        BY <3>1, <3>2
    <2>6. how = "fresh" => out = NoOutputs
      BY DEF StartOf
    <2> HIDE DEF first, out, how, L
    <2>7. /\ phase' \in [Run -> Phase] /\ phase'[r] = "running"
          /\ \A q \in Run : q # r => phase'[q] = phase[q]
      BY <1>1, <2>1 DEF TypeOK, Phase
    <2>8. /\ level' \in [Run -> 0..c] /\ level'[r] = first
          /\ \A q \in Run : q # r => level'[q] = level[q]
      BY <1>1, <2>1, <2>2 DEF TypeOK
    <2>9. /\ pending' \in [Run -> SUBSET Node] /\ pending'[r] = L
          /\ \A q \in Run : q # r => pending'[q] = pending[q]
      BY <1>1, <2>1, <2>3 DEF TypeOK
    <2>10. /\ outputs' \in [Run -> [Node -> Output]] /\ outputs'[r] = out
           /\ \A q \in Run : q # r => outputs'[q] = outputs[q]
      BY <1>1, <2>1, <2>4 DEF TypeOK
    <2>11. /\ start' \in [Run -> Start] /\ start'[r] = how
           /\ \A q \in Run : q # r => start'[q] = start[q]
      BY <1>1, <2>1, <2>4 DEF TypeOK
    <2>12. TypeOK'
      BY <1>1, <1>3, <1>4, <1>5, <1>6, <2>3, <2>7, <2>8, <2>9, <2>10, <2>11
      DEF TypeOK, GraphInv
    <2>13. Resumes'
      <3>1. \A q \in Run : phase'[q] \in {"running", "yielding", "saving"} =>
              level'[q] < Depth(levels)'
        BY <1>1, <1>9, <1>10, <2>7, <2>8
      <3>2. \A q \in Run : phase'[q] \in {"idle", "over", "dead"} => level'[q] = 0
        BY <1>9, <2>7, <2>8
      <3>3. \A q \in Run : start'[q] # "unsound" /\ phase'[q] # "idle" =>
              Full(outputs'[q], level'[q])
        BY <1>9, <2>5, <2>7, <2>8, <2>10, <2>11
      <3>4. \A q \in Run : start'[q] # "unsound" /\ phase'[q] \in {"yielding", "saving"} =>
              Full(outputs'[q], level'[q] + 1)
        BY <1>9, <2>7, <2>8, <2>10, <2>11
      <3>5. file' # None /\ file'.start # "unsound" => Full(file'.outputs, file'.level + 1)
        BY <1>4, <1>9
      <3>6. \A q \in Run : start'[q] = "fresh" =>
              \A m \in Node : outputs'[q][m] \subseteq {q, Missing}
        BY <1>9, <2>6, <2>10, <2>11 DEF NoOutputs
      <3> QED
        BY <1>1, <1>4, <3>1, <3>2, <3>3, <3>4, <3>5, <3>6 DEF Resumes, Complete
    <2> QED
      BY <1>5, <1>6, <2>12, <2>13 DEF WorkflowInv
  <1>11. CASE ~(first < Depth(ls))
    <2>1. Leave(r, "over")
      BY <1>11 DEF Begin, ls
    <2>2. TypeOK'
      BY <1>1, <1>3, <1>4, <1>5, <1>6, <2>1
      DEF TypeOK, GraphInv, Leave, Phase, Start, Output, NoOutputs
    <2> HIDE DEF first
    <2>3. Resumes'
      BY <1>1, <1>3, <1>4, <1>9, <2>1 DEF TypeOK, Resumes, Leave, Complete, NoOutputs
    <2> QED
      BY <1>5, <1>6, <2>2, <2>3 DEF WorkflowInv
  <1> QED
    BY <1>10, <1>11

\* A step that changes nothing.
LEMMA StutterKeeps ==
  ASSUME WorkflowInv, UNCHANGED vars
  PROVE  WorkflowInv'
  BY DEF WorkflowInv, TypeOK, GraphInv, GraphTypeOK, Unbegun, Begun, Resumes, Complete,
         ExecutionLevels, vars, graph, run

\* Every step keeps the invariant.
LEMMA NextKeeps ==
  ASSUME WorkflowInv, [Next]_vars
  PROVE  WorkflowInv'
  <1>1. CASE begun = 0 /\ Build /\ UNCHANGED run
    BY <1>1, BuildKeeps
  <1>2. ASSUME NEW r \in Run, NEW n \in Node \cup {None, Stranger}, Begin(r, n)
        PROVE  WorkflowInv'
    BY <1>2, BeginKeeps
  <1>3. ASSUME begun = 0, NEW r \in Run PROVE ~Proceed(r) /\ ~Die(r)
    BY <1>3 DEF WorkflowInv, Unbegun, Proceed, Die, StartSave, Replace, NodeDone
  <1>4. ASSUME NEW r \in Run, Proceed(r) PROVE WorkflowInv'
    BY <1>3, <1>4, StartSaveKeeps, ReplaceKeeps, NodeDoneKeeps DEF Proceed
  <1>5. ASSUME NEW r \in Run, Die(r) PROVE WorkflowInv'
    BY <1>3, <1>5, DieKeeps
  <1>6. CASE Delete
    BY <1>6, DeleteKeeps
  <1>7. CASE UNCHANGED vars
    BY <1>7, StutterKeeps
  <1> QED
    BY <1>1, <1>2, <1>4, <1>5, <1>6, <1>7 DEF Next

\* WorkflowInv holds in every state, for any agents and edges, any number of
\* runs, and any calls that build the graph, begin, fail and resume.
THEOREM Invariant == Spec => []WorkflowInv
  <1>1. Init => WorkflowInv
    BY InitWorkflow
  <1>2. WorkflowInv /\ [Next]_vars => WorkflowInv'
    BY NextKeeps
  <1> QED
    BY <1>1, <1>2, PTL DEF Spec

\* The variables of the workflow stay in their types; a run executes nodes just
\* when its level has some left (execute()).
THEOREM TypeCorrect == Spec => []TypeOK
  <1>1. WorkflowInv => TypeOK
    BY DEF WorkflowInv
  <1> QED
    BY <1>1, Invariant, PTL

\* However agents and edges come and go, the adjacency cache, validate(),
\* detect_cycle() and topological_sort() agree (composition.py).
THEOREM GraphsAreSound == Spec => []BuiltSound
  <1>1. WorkflowInv => BuiltSound
    BY GraphInvSound DEF WorkflowInv, BuiltSound
  <1> QED
    BY <1>1, Invariant, PTL

\* A run that begins afresh, or resumes where the checkpoint leads up to, has an
\* output of every node below its level, none computed from a missing one, and
\* so has every checkpoint it saves; a fresh run hands out nothing of another
\* run's (execute(), CheckpointManager).
THEOREM ResumesAreSound == Spec => []ResumeSound
  <1>1. WorkflowInv => ResumeSound
    <2>1. Unbegun => ResumeSound
      BY DEF Unbegun, ResumeSound, NoOutputs
    <2>2. Resumes => ResumeSound
      BY DEF Resumes, ResumeSound
    <2> QED
      BY <2>1, <2>2 DEF WorkflowInv
  <1> QED
    BY <1>1, Invariant, PTL

=============================================================================
