---------------------------- MODULE SealedGraph -----------------------------
(***************************************************************************)
(* The data the workflow scheduler works on: the sealed capability graph   *)
(* that the planner hands over, and what an artifact compiled from it has  *)
(* to be.                                                                  *)
(*                                                                         *)
(* A unit is named by the position of its hashed id in the sort order, so  *)
(* node ids, unit ids and their order are the numbers 1..n; a graph over   *)
(* the numbers stands for all graphs whose hashes sort that way.           *)
(***************************************************************************)
EXTENDS Naturals, Sequences, FiniteSets, SequencesExt
LOCAL INSTANCE FiniteSetsExt

Bands == {"CRITICAL", "REQUIRED", "OPTIONAL", "DEFERRED"}
NoGroup == 0

\* Nodes 1..n, each with a band, a group (NoGroup, or the place of the group id
\* in the sort order) and a rank, and the list of requires-edges.
Graphs(n, bands, groups, ranks, edgeLists) ==
  [n : {n}, band : [1..n -> bands], group : [1..n -> groups], rank : [1..n -> ranks],
   edges : edgeLists]

Nodes(g) == 1..g.n
EdgeSet(g) == {g.edges[i] : i \in DOMAIN g.edges}
Predecessors(g, u) == {v \in Nodes(g) : <<v, u>> \in EdgeSet(g)}

\* Nodes from which a path of requires-edges leads to u, after n extensions.
Ancestors(g, u) ==
  LET reach[k \in 0..g.n] ==
        IF k = 0 THEN Predecessors(g, u)
                 ELSE reach[k - 1] \cup UNION {Predecessors(g, v) : v \in reach[k - 1]}
  IN  reach[g.n]

Acyclic(g) == \A u \in Nodes(g) : u \notin Ancestors(g, u)

\* The number of nodes on a longest path that ends in u.
Level(g) ==
  LET depth[k \in 0..g.n] ==
        IF k = 0 THEN [u \in Nodes(g) |-> 1]
        ELSE [u \in Nodes(g) |-> 1 + Max({0} \cup {depth[k - 1][v] : v \in Predecessors(g, u)})]
  IN  depth[g.n]

\* The canonical total order: by level, then by unit id.
CanonicalOrder(g) ==
  LET level == Level(g)
      before(u, v) == level[u] < level[v] \/ (level[u] = level[v] /\ u < v)
  IN  SetToSortSeq(Nodes(g), before)

\* The groups in sorted order, each with its members by (rank, unit id).
GroupMembers(g, grp) ==
  LET before(u, v) == g.rank[u] < g.rank[v] \/ (g.rank[u] = g.rank[v] /\ u < v)
  IN  SetToSortSeq({u \in Nodes(g) : g.group[u] = grp}, before)
GroupsOf(g) ==
  LET ids == SetToSortSeq({g.group[u] : u \in Nodes(g)} \ {NoGroup}, <)
  IN  [i \in DOMAIN ids |-> GroupMembers(g, ids[i])]

\* The artifact of a graph that compiles.
ArtifactOf(g) ==
  [units  |-> Nodes(g),
   preds  |-> [u \in Nodes(g) |-> Predecessors(g, u)],
   band   |-> g.band,
   groups |-> GroupsOf(g),
   order  |-> CanonicalOrder(g)]
=============================================================================
