------------------------- MODULE CapabilityPlanner --------------------------
(***************************************************************************)
(* The capability planner (src/cp/): a planning spec, the plan artifact    *)
(* built from drafted nodes and typed edges, its projection to the sealed  *)
(* graph, and the fixture of src/system.py that drafts one node per goal.  *)
(* Nodes are named by their place in the sort order, confidences are       *)
(* tenths, and Missing stands for a field that is absent or ill-typed.     *)
(* Hashes, versions and the lineage of revisions are left out.             *)
(***************************************************************************)
EXTENDS SealedGraph, Integers

EdgeTypes == {"requires", "composes", "alternative-of", "conflicts-with", "serves-goal"}
Origins == {"explicit", "implicit", "derived"}
GapTypes == {"unknown-ability", "missing-capability", "unsatisfiable-constraint",
             "ambiguous-mapping"}
TupleKeys == {"request_id", "registry_version", "priors_version", "request_memory_hash",
              "config_version"}
Missing == -1
NoText == ""

\* The inputs of build_spec: the goals in the order of the request.
SpecBuilds(s) ==
  /\ s.request # NoText
  /\ s.intent # NoText
  /\ \A i \in DOMAIN s.goals : s.goals[i] # NoText
  /\ s.memory # NoText
  /\ \A v \in {s.registry, s.priors, s.config} : v >= 0

Confident(c) == c \in 0..10

NodeBuilds(node) ==
  /\ node.origin \in Origins
  /\ node.band \in Bands
  /\ node.capability # NoText
  /\ Confident(node.confidence)
  /\ ~node.namesProvider
  /\ node.group # NoGroup => node.rank # Missing

EdgeBuilds(d, e) == e[1] \in EdgeTypes /\ {e[2], e[3]} \subseteq DOMAIN d.nodes

\* build_artifact constructs the whole plan or raises ArtifactRefusal.
ArtifactBuilds(d) ==
  /\ d.determinism = TupleKeys
  /\ d.nodes # <<>>
  /\ \A n \in DOMAIN d.nodes : NodeBuilds(d.nodes[n])
  /\ \A i \in DOMAIN d.edges : EdgeBuilds(d, d.edges[i])
  /\ \A g \in DOMAIN d.groups : d.groups[g] \subseteq DOMAIN d.nodes
  /\ d.gaps \subseteq GapTypes
  /\ Confident(d.confidence)

EdgeBefore(e, f) == e[1] < f[1] \/ (e[1] = f[1] /\ e[2] < f[2])

\* Mutant: every edge of the plan becomes an ordering.
RequiresEdgesAll(d) == SortSeq([i \in DOMAIN d.edges |-> Tail(d.edges[i])], EdgeBefore)
\* to_sealed_graph keeps the requires-edges, which build_artifact has sorted.
RequiresEdges(d) ==
  LET kept == SelectSeq(d.edges, LAMBDA e : e[1] = "requires")
  IN  SortSeq([i \in DOMAIN kept |-> Tail(kept[i])], EdgeBefore)

ToSealedGraph(d) ==
  [n     |-> Len(d.nodes),
   band  |-> [n \in DOMAIN d.nodes |-> d.nodes[n].band],
   group |-> [n \in DOMAIN d.nodes |-> d.nodes[n].group],
   rank  |-> [n \in DOMAIN d.nodes |-> d.nodes[n].rank],
   edges |-> RequiresEdges(d)]

-----------------------------------------------------------------------------
(* The fixture of System.submit.                                           *)

\* NoText goals are skipped; no goal at all means an analysis.
GoalsOf(goals) ==
  LET said == SelectSeq(goals, LAMBDA g : g # NoText)
  IN  IF said = <<>> THEN <<"analyze">> ELSE said

\* A capability nobody has a command for is replaced by the analysis.
CapabilityOf(goal, commands) == IF goal \in commands THEN goal ELSE "analyze"

\* One node per goal, each requiring the one before it.
GoalDraft(goals, commands) ==
  [determinism |-> TupleKeys,
   nodes |-> [i \in DOMAIN goals |->
                [origin |-> "explicit", band |-> IF i = 1 THEN "CRITICAL" ELSE "REQUIRED",
                 capability |-> CapabilityOf(goals[i], commands), confidence |-> 9,
                 namesProvider |-> FALSE, group |-> NoGroup, rank |-> Missing]],
   edges |-> [i \in 1..(Len(goals) - 1) |-> <<"requires", i, i + 1>>],
   groups |-> <<>>, gaps |-> {}, confidence |-> 9]
=============================================================================
