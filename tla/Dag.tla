-------------------------------- MODULE Dag --------------------------------
(***************************************************************************)
(* detect_cycle and topological_sort of agents/composition.py, over a set  *)
(* of nodes N and the list of successors A[n] of each.                     *)
(***************************************************************************)
EXTENDS Integers, FiniteSets, SequencesExt

Successors(A, n) == ToSet(A[n])

(***************************************************************************)
(* detect_cycle: a depth-first search.  The grey nodes are those of the    *)
(* path it has gone down, which the parent links lead back along; the      *)
(* black ones are explored.                                                *)
(***************************************************************************)

\* The path's way back to its node v, and down to it again.
CycleTo(path, v) ==
  Append(SubSeq(path, CHOOSE i \in DOMAIN path : path[i] = v, Len(path)), v)

\* The search, in state s, comes to node v from the end of the path.  A node on
\* the path closes a cycle, and ends the search.
Visit(search, path, s, v) ==
  IF s.cycle # <<>> \/ v \in s.black THEN s
  ELSE IF v \in ToSet(path) THEN [s EXCEPT !.cycle = CycleTo(path, v)]
  ELSE search[[path |-> Append(path, v), black |-> s.black]]

\* _dfs() of the path's last node, which visits its successors.
Dfs(search, A, path, black) ==
  LET u == Last(path)
      after[i \in 0..Len(A[u])] ==
        IF i = 0 THEN [cycle |-> <<>>, black |-> black]
        ELSE Visit(search, path, after[i - 1], A[u][i])
  IN [after[Len(A[u])] EXCEPT !.black = @ \cup {u}]

\* The search that calls itself.
Search(N, A) ==
  LET search[call \in [path : Seq(N) \ {<<>>}, black : SUBSET N]] ==
        Dfs(search, A, call.path, call.black)
  IN search

\* The cycle found from any of the nodes, or <<>>.
DetectCycle(N, A) ==
  LET search == Search(N, A)
      order == SetToSeq(N)
      after[i \in 0..Len(order)] ==
        IF i = 0 THEN [cycle |-> <<>>, black |-> {}]
        ELSE Visit(search, <<>>, after[i - 1], order[i])
  IN after[Len(order)].cycle

(***************************************************************************)
(* topological_sort: Kahn's algorithm                                      *)
(***************************************************************************)

\* Visited(N, A)[i]: the nodes visited in i rounds.  A round takes the nodes
\* whose in-degree has fallen to zero, that is, those all of whose predecessors
\* an earlier round took.
Visited(N, A) ==
  LET visited[i \in 0..Cardinality(N)] ==
        IF i = 0 THEN {}
        ELSE LET before == visited[i - 1]
             IN {n \in N : {p \in N : n \in Successors(A, p)} \subseteq before}
  IN visited

\* visited = len(nodes): the queue ran empty with every node visited.
Sortable(N, A) == Visited(N, A)[Cardinality(N)] = N

\* The index of each node's level.
Levels(N, A) ==
  LET visited == Visited(N, A)
  IN [n \in N |-> CHOOSE i \in 0..(Cardinality(N) - 1) :
                    n \in visited[i + 1] /\ n \notin visited[i]]

=============================================================================
