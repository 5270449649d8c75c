--------------------------- MODULE RequestMemory ----------------------------
(***************************************************************************)
(* How CM makes a request memory (src/cm): gather, expand, dedup,          *)
(* prioritize, fit, validate.  Pure; ContextFlow.tla gives it its state.   *)
(*                                                                         *)
(* A candidate's content is the list of [tier, text] pairs that may be     *)
(* tried in order.  A text that is not a string is None and costs nothing. *)
(***************************************************************************)
EXTENDS CodeIndex

CONSTANTS
  Weights,   \* section_weights of the configuration
  DepthCap   \* resolver_depth_cap of the configuration

SECTION_NAMES == <<"symbols", "files", "dependency_graph", "knowledge", "experience">>
SectionSet == ToSet(SECTION_NAMES)
SectionRank == [s \in SectionSet |-> CHOOSE i \in 1..5 :
                  <<"dependency_graph", "experience", "files", "knowledge", "symbols">>[i] = s]

\* ConfigView: what validate() accepts.
ConfigBuilds ==
  /\ DepthCap \in Nat
  /\ DOMAIN Weights \subseteq SectionSet
  /\ \A s \in DOMAIN Weights : Weights[s] \in Nat

WeightOf(s) == IF s \in DOMAIN Weights THEN Weights[s] ELSE 0

\* spec.build: what it accepts.  Capabilities and references are sets afterwards.
SpecBuilds(spec) == spec.request_id # "" /\ spec.budget \in Nat

-----------------------------------------------------------------------------
(* Gather: one query to UMS, the RSM blocks of the request, the references. *)

FromHit(hit) ==
  [id |-> hit.id, section |-> IF hit.kind = "symbol" THEN "symbols" ELSE "files",
   content |-> <<[tier |-> "full", text |-> hit.content]>>, score |-> hit.score,
   stale |-> hit.stale, source |-> "ums", contradiction |-> FALSE]

Tiered(full, section, reference) ==
  <<[tier |-> "full", text |-> full], [tier |-> "section", text |-> section],
    [tier |-> "reference", text |-> reference]>>

Other(id, section, content, score, source) ==
  [id |-> id, section |-> section, content |-> content, score |-> score, stale |-> None,
   source |-> source, contradiction |-> FALSE]

\* gather_rsm: a block's full tier is a mapping, not a string; an absent request is
\* one candidate that says so.
GatherRsm(status) ==
  CASE status = "none" -> <<>>
    [] status = "absent" ->
         <<Other(<<"rsm", "absent">>, "knowledge", Tiered(None, None, None), None, "rsm")>>
    [] status = "present" ->
         [i \in 1..3 |-> LET block == <<"identity", "plan", "budget">>[i] IN
            Other(<<"rsm", block>>, "knowledge", Tiered(None, <<block>>, <<block>>), None, "rsm")]

\* resolve_references, when every reference names a section that has them.
ReferencesResolve(spec) == \A r \in spec.references : r.section \in {"knowledge", "experience"}
ResolveReferences(refs) ==
  LET sorted == SortedBy(refs, LAMBDA a, b : NameRank[a.name] < NameRank[b.name])
  IN [i \in DOMAIN sorted |->
        Other(<<"ref", sorted[i].name>>, sorted[i].section,
              Tiered(<<sorted[i].name>>, <<sorted[i].name>>, <<sorted[i].name>>), None, "reference")]

FromHits(hits) == [i \in DOMAIN hits |-> FromHit(hits[i])]
Gather(spec, files, summaries, fresh) ==
  FromHits(Query(files, summaries, fresh, spec.objective, spec.budget, "concept").hits)
  \o GatherRsm(spec.rsm) \o ResolveReferences(spec.references)

-----------------------------------------------------------------------------
(* Resolve, dedup, prioritize.                                             *)

Ids(cands) == {cands[i].id : i \in DOMAIN cands}

\* expand: breadth first over the edges, at most DepthCap deep, each node once.
Stubs(ids) ==
  [i \in DOMAIN ids |-> Other(ids[i], "dependency_graph", Tiered(None, None, <<"reference">>),
                              0, "resolver")]
Expand(cands, edges) ==
  LET Deeper(acc, depth) ==
        LET next == {e.dst : e \in {x \in edges : x.src \in acc.frontier}} \ acc.visited
        IN [visited |-> acc.visited \cup next, frontier |-> next,
            found |-> acc.found \o Stubs(SortedBy(next, IdLess))]
      start == [visited |-> Ids(cands), frontier |-> Ids(cands), found |-> <<>>]
  IN cands \o FoldLeft(Deeper, start, [depth \in 1..DepthCap |-> depth]).found

\* dedup: repeats go, different contents under one id stay and are marked.
Dedup(cands) ==
  LET contents(id) == {cands[i].content : i \in {j \in DOMAIN cands : cands[j].id = id}}
      firsts == {i \in DOMAIN cands : \A j \in 1..i-1 :
                   cands[j].id # cands[i].id \/ cands[j].content # cands[i].content}
      kept == SortedBy(firsts, <)
  IN [k \in DOMAIN kept |-> [cands[kept[k]] EXCEPT
        !.contradiction = Cardinality(contents(cands[kept[k]].id)) > 1]]

ScoreKey(score) == IF score = None THEN -1 ELSE score

Prioritize(cands) ==
  StableSort(cands, LAMBDA a, b :
    LET wa == WeightOf(a.section) wb == WeightOf(b.section)
        sa == ScoreKey(a.score) sb == ScoreKey(b.score)
    IN \/ wa > wb
       \/ wa = wb /\ sa > sb
       \/ wa = wb /\ sa = sb /\ IdLess(a.id, b.id))

Pipeline(spec, files, summaries, fresh) ==
  Prioritize(Dedup(Expand(Gather(spec, files, summaries, fresh), BuildGraph(files))))

-----------------------------------------------------------------------------
(* The budget.                                                             *)

TokenCount(text) == IF text = None THEN 0 ELSE Len(text)

\* section_envelopes: largest remainder, ties by section name.
SectionEnvelopes(budget) ==
  LET total == MapThenSumSet(WeightOf, SectionSet)
      floor(s) == (WeightOf(s) * budget) \div total
      rest(s) == (WeightOf(s) * budget) % total
      left == budget - MapThenSumSet(floor, SectionSet)
      order == SortedBy(SectionSet, LAMBDA a, b :
                 rest(a) > rest(b) \/ (rest(a) = rest(b) /\ SectionRank[a] < SectionRank[b]))
  IN IF total = 0 \/ budget = 0 THEN [s \in SectionSet |-> 0]
     ELSE [s \in SectionSet |-> floor(s) + IF \E i \in 1..left : order[i] = s THEN 1 ELSE 0]

\* fit: the first tier that fits the section's envelope and the ceiling, or dropped.
Fit(cands, budget) ==
  LET envelopes == SectionEnvelopes(budget)
  IN FoldLeft(LAMBDA acc, c :
       LET fits == {i \in DOMAIN c.content :
                      /\ acc.used[c.section] + TokenCount(c.content[i].text) <= envelopes[c.section]
                      /\ acc.total + TokenCount(c.content[i].text) <= budget}
       IN IF fits = {} THEN [acc EXCEPT !.dropped = @ + 1]
          ELSE LET choice == c.content[Min(fits)] IN
               [acc EXCEPT !.total = @ + TokenCount(choice.text),
                           !.used[c.section] = @ + TokenCount(choice.text),
                           !.items = Append(@, [c EXCEPT !.content = choice]),
                           !.degraded = IF choice.tier = "full" THEN @ ELSE @ + 1],
       [items |-> <<>>, total |-> 0, used |-> [s \in SectionSet |-> 0],
        dropped |-> 0, degraded |-> 0], cands)

-----------------------------------------------------------------------------
(* The artifact.                                                           *)

\* Mutant: the variants of a contradiction keep their id.
DisambiguateNot(items) == items
\* The variants of a contradiction get an id of their own, from the content chosen.
Disambiguate(items) ==
  [i \in DOMAIN items |->
     IF items[i].contradiction THEN [items[i] EXCEPT !.id = Append(@, items[i].content.text)]
                               ELSE items[i]]

\* assemble up to validation: the request memory that is built.
Build(spec, cands) ==
  LET result == Fit(cands, spec.budget)
      items == Disambiguate(result.items)
  IN [spec |-> spec,
      sections |-> [s \in SectionSet |-> SelectSeq(items, LAMBDA i : i.section = s)],
      candidate_count |-> Len(cands), selected_count |-> Len(items),
      dropped |-> result.dropped, degraded |-> result.degraded,
      tokens_used |-> result.total, section_used |-> result.used,
      truncated |-> result.dropped > 0 \/ result.degraded > 0]

ItemsOf(rm) == FlattenSeq([k \in 1..5 |-> rm.sections[SECTION_NAMES[k]]])

\* validate: ceiling, no id twice, scores that do not rise within a section.
Validate(rm) ==
  /\ rm.tokens_used <= rm.spec.budget
  /\ Cardinality(Ids(ItemsOf(rm))) = Len(ItemsOf(rm))
  /\ \A s \in SectionSet : \A i \in 1..Len(rm.sections[s]) - 1 :
       ScoreKey(rm.sections[s][i + 1].score) <= ScoreKey(rm.sections[s][i].score)

\* freshness._item_paths: only what came from UMS traces back to a path.
ItemPaths(item) == IF item.source = "ums" THEN {item.id[2]} ELSE {}
ArtifactPaths(rm) == UNION {ItemPaths(item) : item \in ToSet(ItemsOf(rm))}
=============================================================================
