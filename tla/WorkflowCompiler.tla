-------------------------- MODULE WorkflowCompiler --------------------------
(***************************************************************************)
(* compile_workflow (src/ws/compiler.py), edge by edge and frontier by     *)
(* frontier, checked against the definitions of SealedGraph.               *)
(***************************************************************************)
EXTENDS SealedGraph

VARIABLES
  graph,     \* the input
  edgesSeen, \* how many edges the edge loop has taken
  incoming,  \* unit -> producers not yet in a frontier; also `remaining`
  order,     \* canonical order so far
  levels,    \* frontiers so far
  result     \* "idle", "running", "published" or the reason of the rejection

vars == <<graph, edgesSeen, incoming, order, levels, result>>

NoGraph == [n |-> 0, band |-> <<>>, group |-> <<>>, rank |-> <<>>, edges |-> <<>>]
Remaining == DOMAIN incoming

\* ws.bad_edge and ws.duplicate_or_self_edge
BadEdge(p, c) ==
  \/ p \notin Nodes(graph) \/ c \notin Nodes(graph)
  \/ p \in incoming[c] \/ p = c

TakeEdge ==
  /\ result = "running"
  /\ edgesSeen < Len(graph.edges)
  /\ LET edge == graph.edges[edgesSeen + 1]
     IN  IF BadEdge(edge[1], edge[2])
           THEN /\ result' = "bad_edge"
                /\ UNCHANGED <<edgesSeen, incoming>>
           ELSE /\ incoming' = [incoming EXCEPT ![edge[2]] = @ \cup {edge[1]}]
                /\ edgesSeen' = edgesSeen + 1
                /\ UNCHANGED result
  /\ UNCHANGED <<graph, order, levels>>

Frontier == {u \in Remaining : incoming[u] = {}}

\* One round of the while loop.
Round ==
  /\ result = "running"
  /\ edgesSeen = Len(graph.edges)
  /\ Remaining # {}
  /\ IF Frontier = {}
       THEN /\ result' = "cycle"
            /\ UNCHANGED <<incoming, order, levels>>
       ELSE /\ levels' = Append(levels, Frontier)
            /\ order' = order \o SetToSortSeq(Frontier, <)
            /\ incoming' = [u \in Remaining \ Frontier |-> incoming[u] \ Frontier]
            /\ UNCHANGED result
  /\ UNCHANGED <<graph, edgesSeen>>

Publish ==
  /\ result = "running"
  /\ edgesSeen = Len(graph.edges)
  /\ Remaining = {}
  /\ result' = "published"
  /\ UNCHANGED <<graph, edgesSeen, incoming, order, levels>>

\* The call of compile_workflow with the graph g.
Call(g) ==
  /\ result = "idle"
  /\ graph' = g
  /\ incoming' = [u \in Nodes(g) |-> {}]
  /\ result' = "running"
  /\ UNCHANGED <<edgesSeen, order, levels>>

Init ==
  /\ graph = NoGraph
  /\ edgesSeen = 0
  /\ incoming = <<>>
  /\ order = <<>>
  /\ levels = <<>>
  /\ result = "idle"

Steps == TakeEdge \/ Round \/ Publish

-----------------------------------------------------------------------------
(* Properties.                                                             *)

\* INVARIANT (WS-W1, W4, W6): a graph is published exactly when its edges are well
\* formed, no edge occurs twice and there is no cycle; "cycle" is reported only
\* for a graph that has one.  The order of a published graph is the canonical one,
\* by length of the longest chain of requirements, then by unit id, whatever the
\* order of the edges in the input.
CompilesExactly ==
  /\ result = "published" =>
       /\ Acyclic(graph) /\ Cardinality(EdgeSet(graph)) = Len(graph.edges)
       /\ order = CanonicalOrder(graph)
       /\ \A i \in DOMAIN levels : levels[i] = {u \in Nodes(graph) : Level(graph)[u] = i}
  /\ result = "cycle" => ~Acyclic(graph)
  /\ result = "bad_edge" =>
       \/ Cardinality(EdgeSet(graph)) < Len(graph.edges)
       \/ \E e \in EdgeSet(graph) : e[1] = e[2] \/ ~({e[1], e[2]} \subseteq Nodes(graph))
=============================================================================
