----------------------------- MODULE MCLearning -----------------------------
(* Approach x succeeds and fails under facet a, approach y succeeds; one     *)
(* attestation is delivered under two identities and one identity under two  *)
(* attestations; the last episode has no usable verdict and a newer facet.   *)
EXTENDS Learning, TLC

A == <<"a">>
B == <<"b">>
MCTermRank == (A :> 1) @@ (B :> 2)

X == [name |-> "x", steps |-> <<"s">>]
Y == [name |-> "y", steps |-> <<>>]
MCHashRank(h) == IF h = X THEN 1 ELSE 2

Episode(n, ref, project, facets, approach, verdict) ==
  [kind |-> "episode", id |-> <<"record", n>>, ref |-> ref, closed |-> TRUE, vocabulary |-> 1,
   project |-> project, facets |-> facets, approach |-> approach, verdict |-> verdict, measured |-> n = 1]

MCRecords ==
  {Episode(1, "r1", "p", {A}, X, "passed"), Episode(2, "r2", "q", {A}, X, "failed"),
   Episode(3, "r3", "q", {A}, Y, "passed"), [Episode(1, "r5", "q", {A}, X, "passed") EXCEPT !.vocabulary = 2],
   [Episode(5, "r6", "p", {A, B}, Y, "errored") EXCEPT !.vocabulary = 2],
   [Episode(6, "r7", "p", {A}, X, "passed") EXCEPT !.closed = FALSE],
   [kind |-> "decision", id |-> <<"record", 4>>, ref |-> "r1", closed |-> TRUE, vocabulary |-> 1,
    project |-> "p", facets |-> {A}, options |-> {1, 2}, chosen |-> 1, verdict |-> "none"]}

MCRulings ==
  {[kind |-> "supersession", targets |-> {<<"record", 1>>}],
   [kind |-> "deprecation", targets |-> {<<"record", 5>>, <<"record", 2>>}],
   [kind |-> "contradiction_resolution", targets |-> {PatternId({A}, X)}]}

Rules(version, recipes, packs) ==
  [version |-> version, patternMin |-> 1, recipeMin |-> recipes, corroborated |-> 2, established |-> 2,
   packs |-> packs]

MCFirstRuleset == Rules(1, 1, "all" :> {A, B})
MCRulesets == {Rules(2, 2, <<>>), [Rules(1, 1, <<>>) EXCEPT !.patternMin = 2]}
MCFirstTerms == {A}
MCNewTerms == {{A, B}, {B}}
=============================================================================
