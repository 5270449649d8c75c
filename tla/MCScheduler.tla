---------------------------- MODULE MCScheduler -----------------------------
(* Small instances of Scheduler for TLC.                                   *)
EXTENDS Scheduler

\* Every list of at most three edges over three nodes and a stranger.
Pairs == ((1..3) \X (1..3)) \cup {<<1, 4>>}
AnyEdges == Graphs(3, {"REQUIRED"}, {NoGroup}, {1}, UNION {[1..k -> Pairs] : k \in 0..3})

\* Required and optional units and at most one group of alternatives, over
\* every acyclic shape of three nodes.
DagLists == {SetToSeq(E) : E \in SUBSET {<<1, 2>>, <<1, 3>>, <<2, 3>>}}
OneGroup == Graphs(3, {"REQUIRED", "OPTIONAL"}, {NoGroup, 1}, {1}, DagLists)

\* Two groups over four units, ranked against the unit ids.
TwoGroups ==
  {[n |-> 4, band |-> [u \in 1..4 |-> "CRITICAL"], group |-> <<1, 1, 2, 2>>,
    rank |-> <<2, 1, 2, 1>>, edges |-> e] : e \in {<<>>, << <<2, 4>> >>}}

\* Drafts of two nodes: every list of at most two typed edges, also to a stranger,
\* and every way one other field can be wrong.
Node(b, g, r) == [origin |-> "explicit", band |-> b, capability |-> "build", confidence |-> 10,
                  namesProvider |-> FALSE, group |-> g, rank |-> r]
Base == [determinism |-> TupleKeys, nodes |-> <<Node("CRITICAL", 1, 2), Node("OPTIONAL", 1, 1)>>,
         edges |-> <<>>, groups |-> <<{1, 2}>>, gaps |-> {"missing-capability"}, confidence |-> 0]
TypedEdges == ({"requires", "conflicts-with", "orders"} \X {1, 2} \X {1, 2, 3})
MCDrafts ==
  {[Base EXCEPT !.edges = e] : e \in UNION {[1..k -> TypedEdges] : k \in 0..2}}
  \cup {[Base EXCEPT !.determinism = @ \ {"request_id"}], [Base EXCEPT !.nodes = <<>>],
        [Base EXCEPT !.groups = <<{1, 3}>>], [Base EXCEPT !.gaps = {"other"}],
        [Base EXCEPT !.confidence = 11], [Base EXCEPT !.nodes[1].origin = "guessed"],
        [Base EXCEPT !.nodes[1].band = "LOW"], [Base EXCEPT !.nodes[2].capability = NoText],
        [Base EXCEPT !.nodes[2].confidence = Missing], [Base EXCEPT !.nodes[1].rank = Missing],
        [Base EXCEPT !.nodes[1].namesProvider = TRUE]}

\* Requests with up to three goals, some of them blank, and one without an intent.
MCCommands == {"analyze", "build"}
MCRequests ==
  {[request |-> "r", intent |-> "i", goals |-> g, memory |-> "m", registry |-> 1, priors |-> 0,
    config |-> 1] : g \in UNION {[1..k -> {NoText, "build", "bake"}] : k \in 0..3}}
  \cup {[request |-> "r", intent |-> NoText, goals |-> <<"build">>, memory |-> "m",
         registry |-> 1, priors |-> 0, config |-> 1]}

AllGraphs == AnyEdges \cup OneGroup \cup TwoGroups
Compiled == {ArtifactOf(g) : g \in OneGroup \cup TwoGroups}
=============================================================================
