---------------------------- MODULE WorkflowGraph ----------------------------
(***************************************************************************)
(* The graph of an AgentWorkflow (agents/composition.py) as its callers    *)
(* build it: agents and edges come and go, beside a cache of each agent's  *)
(* successors that cycles are looked for in and the levels computed from.  *)
(***************************************************************************)
EXTENDS Dag

CONSTANTS
  Node,     \* the agents a workflow may have
  Edge,     \* the edges add_edge() is tried with
  From, To, \* From[e], To[e]: the agents edge e joins
  Barred,   \* the edges whose condition comes out false
  MaxEdges  \* bound: edges in the graph

ASSUME WorkflowGraphAssumption ==
  /\ IsFiniteSet(Node)
  /\ From \in [Edge -> Node] /\ To \in [Edge -> Node]
  /\ Barred \subseteq Edge
  /\ MaxEdges \in Nat

VARIABLES
  nodes,     \* self.nodes
  edges,     \* self.edges
  adjacency  \* self._adjacency; an agent it does not have has no successors

graph == <<nodes, edges, adjacency>>

GraphTypeOK ==
  /\ nodes \in SUBSET Node
  /\ edges \in Seq(Edge)
  /\ adjacency \in [Node -> Seq(Node)]

InitGraph ==
  /\ nodes = {}
  /\ edges = <<>>
  /\ adjacency = [n \in Node |-> <<>>]

----------------------------------------------------------------------------
\* add_agent(): an agent there already is replaced, and keeps its edges.
AddAgent(n) ==
  /\ nodes' = nodes \cup {n}
  /\ UNCHANGED <<edges, adjacency>>

Appended(e) == [adjacency EXCEPT ![From[e]] = Append(@, To[e])]

\* The edge stays in the adjacency when it is refused.
AddEdge_NoRollback(e) ==
  /\ {From[e], To[e]} \subseteq nodes
  /\ Len(edges) < MaxEdges
  /\ adjacency' = Appended(e)
  /\ edges' = IF DetectCycle(nodes, Appended(e)) = <<>> THEN Append(edges, e) ELSE edges
  /\ UNCHANGED nodes

\* add_edge() between two agents of the graph.  The edge is tried in the
\* adjacency, and taken out again if it closes a cycle.
AddEdge(e) ==
  /\ {From[e], To[e]} \subseteq nodes
  /\ Len(edges) < MaxEdges
  /\ IF DetectCycle(nodes, Appended(e)) = <<>>
     THEN /\ adjacency' = Appended(e)
          /\ edges' = Append(edges, e)
     ELSE UNCHANGED <<adjacency, edges>>
  /\ UNCHANGED nodes

\* The edges es that neither come from n nor lead to it, in order.
Without(es, n) ==
  LET kept[i \in 0..Len(es)] ==
        IF i = 0 THEN <<>>
        ELSE IF n \in {From[es[i]], To[es[i]]} THEN kept[i - 1]
        ELSE Append(kept[i - 1], es[i])
  IN kept[Len(es)]

\* _rebuild_adjacency() from the edges es.
Rebuilt(es) ==
  LET rebuilt[i \in 0..Len(es)] ==
        IF i = 0 THEN [n \in Node |-> <<>>]
        ELSE [rebuilt[i - 1] EXCEPT ![From[es[i]]] = Append(@, To[es[i]])]
  IN rebuilt[Len(es)]

\* remove_agent(): the agent goes, and every edge from it or to it.
RemoveAgent(n) ==
  /\ n \in nodes
  /\ nodes' = nodes \ {n}
  /\ edges' = Without(edges, n)
  /\ adjacency' = Rebuilt(edges')

Build ==
  \/ \E n \in Node : AddAgent(n) \/ RemoveAgent(n)
  \/ \E e \in Edge : AddEdge(e)

----------------------------------------------------------------------------
(***************************************************************************)
(* Queries                                                                 *)
(***************************************************************************)

Predecessors(n) == {From[e] : e \in {f \in ToSet(edges) : To[f] = n}}

\* get_edge(): the first of the edges between two agents.
GetEdge(p, n) ==
  SelectInSeq(edges, LAMBDA e : From[e] = p /\ To[e] = n)

ExecutionLevels == Levels(nodes, adjacency)

\* The issues validate() finds.
Validate ==
  {issue \in {"no nodes", "dangling edge", "cycle"} :
     CASE issue = "no nodes" -> nodes = {}
       [] issue = "dangling edge" ->
            \E e \in ToSet(edges) : ~({From[e], To[e]} \subseteq nodes)
       [] issue = "cycle" -> DetectCycle(nodes, adjacency) # <<>>}

IsCycle(A, c) ==
  /\ Len(c) > 1
  /\ c[1] = Last(c)
  /\ \A i \in 1..(Len(c) - 1) : c[i + 1] \in Successors(A, c[i])

\* However agents and edges came and went: the cache of successors says what
\* the list of edges says; a workflow with an agent validates ("No cycles
\* (should be impossible if add_edge was used)", composition.py:272), and can
\* be sorted; and for any edge that may come next, the search finds a cycle
\* just when Kahn's algorithm cannot sort the graph, and what it finds is one.
GraphSound ==
  /\ adjacency = Rebuilt(edges)
  /\ Validate \subseteq {"no nodes"}
  /\ Sortable(nodes, adjacency)
  /\ \A e \in Edge : {From[e], To[e]} \subseteq nodes =>
       LET cycle == DetectCycle(nodes, Appended(e))
       IN IF Sortable(nodes, Appended(e))
          THEN cycle = <<>>
          ELSE IsCycle(Appended(e), cycle)

=============================================================================
