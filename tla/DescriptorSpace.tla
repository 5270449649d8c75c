--------------------------- MODULE DescriptorSpace ---------------------------
(***************************************************************************)
(* The descriptor space of the reasoning orchestrator                      *)
(* (src/src/ro/records.py, src/src/ro/descriptor_space.py): reasoning      *)
(* capabilities, the relationships between them, and one descriptor row    *)
(* per provider.  A space is a value; Admit gives the spaces one mutation  *)
(* leads to, none when the mutation is refused.  Identifiers, compliance   *)
(* tags and facets are model values.                                       *)
(***************************************************************************)
EXTENDS Integers, Sequences, FiniteSets, SequencesExt, FiniteSetsExt

LIFECYCLE_STATES == <<"proposed", "active", "deprecated", "retired">>

CATEGORIES == {"INTERPRETIVE", "ANALYTIC", "GENERATIVE", "DELIBERATIVE", "INFERENTIAL"}

RELATIONSHIP_KINDS == {"composition", "specialization", "dependency"}

COMPLEXITY_RUNGS == <<"C0", "C1", "C2", "C3", "C4">>

Bands == {"low", "medium", "high"}

\* The characteristics the pipeline reads; the other five are shape only.
CHARACTERISTIC_BANDS ==
  [knowledge_dependency : Bands, context_sensitivity : Bands, determinism_tolerance : Bands]

CONTEXT_CAPACITY_CLASSES == <<"small", "medium", "large", "xlarge">>
COST_CLASSES             == <<"low", "medium", "high">>
LATENCY_CLASSES          == <<"fast", "standard", "slow">>
PRIVACY_DOMAINS          == <<"public", "internal", "restricted">>
LOCALITIES               == {"local", "remote"}
REQUEST_FORMS            == {"prompt_text"}

\* The place of a value in a closed, ordered vocabulary.
IndexIn(vocabulary, x) == CHOOSE i \in DOMAIN vocabulary : vocabulary[i] = x

---------------------------------------------------------------------------
(* What the record builders accept. *)

CapabilityBuilds(c) ==
  /\ DOMAIN c = {"id", "category", "lifecycle", "characteristics"}
  /\ c.category \in CATEGORIES
  /\ c.lifecycle \in Range(LIFECYCLE_STATES)
  /\ c.characteristics \in CHARACTERISTIC_BANDS

RelationshipBuilds(r) == r.kind \in RELATIONSHIP_KINDS

RowBuilds(row) ==
  /\ row.request_form \in REQUEST_FORMS
  /\ row.capacity \in Range(CONTEXT_CAPACITY_CLASSES)
  /\ row.cost \in Range(COST_CLASSES)
  /\ row.privacy \in Range(PRIVACY_DOMAINS)
  /\ row.locality \in LOCALITIES
  /\ DOMAIN row.claims # {}
  /\ \A c \in DOMAIN row.claims :
       row.claims[c] # {} /\ row.claims[c] \subseteq Range(COMPLEXITY_RUNGS)

\* The mutations a caller can construct: their records went through a builder.
Constructible(m) ==
  CASE m.kind \in {"add_capability", "update_capability"}         -> CapabilityBuilds(m.record)
    [] m.kind = "add_relationship"                                 -> RelationshipBuilds(m.record)
    [] m.kind \in {"add_descriptor_row", "update_descriptor_row"} -> RowBuilds(m.record)
    [] OTHER                                                       -> TRUE

---------------------------------------------------------------------------
(* The handlers.  caps and rows map identifiers to records. *)

EmptySpace == [caps |-> << >>, rels |-> {}, rows |-> << >>]

Put(f, k, v) == [x \in DOMAIN f \cup {k} |-> IF x = k THEN v ELSE f[x]]

Without(f, k) == [x \in DOMAIN f \ {k} |-> f[x]]

Matchable == {"active", "deprecated"}

AddCapabilityLegal(space, c) == c.id \notin DOMAIN space.caps

UpdateCapabilityLegal(space, c) ==
  /\ c.id \in DOMAIN space.caps
  /\ LET old == space.caps[c.id]
     IN  old.lifecycle # "retired" /\ c.category = old.category /\ c.lifecycle = old.lifecycle

\* _check_forward: skipping a state is allowed, standing still is not.
Forward(from, to) ==
  /\ to \in Range(LIFECYCLE_STATES)
  /\ IndexIn(LIFECYCLE_STATES, to) > IndexIn(LIFECYCLE_STATES, from)

Claimants(space, c) == {p \in DOMAIN space.rows : c \in DOMAIN space.rows[p].claims}

\* Mutant: a capability may retire while rows claim it.
TransitionLegalUnclaimed(space, c, to) ==
  c \in DOMAIN space.caps /\ Forward(space.caps[c].lifecycle, to)

TransitionLegal(space, c, to) ==
  /\ c \in DOMAIN space.caps
  /\ Forward(space.caps[c].lifecycle, to)
  /\ (to = "retired" => Claimants(space, c) = {})

\* A set of edges has a cycle iff some non-empty set of nodes has no way out.
HasCycle(edges) ==
  \E S \in SUBSET {e[1] : e \in edges} :
    S # {} /\ \A n \in S : \E m \in S : <<n, m>> \in edges

Dependencies(rels) == {<<r.src, r.dst>> : r \in {q \in rels : q.kind = "dependency"}}

AddRelationshipLegal(space, r) ==
  /\ {r.src, r.dst} \subseteq DOMAIN space.caps
  /\ r \notin space.rels
  /\ (r.kind = "dependency" => ~HasCycle(Dependencies(space.rels \cup {r})))

ClaimsValid(space, row) ==
  \A c \in DOMAIN row.claims : c \in DOMAIN space.caps /\ space.caps[c].lifecycle \in Matchable

AddRowLegal(space, row) == row.provider \notin DOMAIN space.rows /\ ClaimsValid(space, row)

UpdateRowLegal(space, row) == row.provider \in DOMAIN space.rows /\ ClaimsValid(space, row)

Legal(space, m) ==
  CASE m.kind = "add_capability"        -> AddCapabilityLegal(space, m.record)
    [] m.kind = "update_capability"     -> UpdateCapabilityLegal(space, m.record)
    [] m.kind = "transition"            -> TransitionLegal(space, m.id, m.to)
    [] m.kind = "add_relationship"      -> AddRelationshipLegal(space, m.record)
    [] m.kind = "remove_relationship"   -> m.record \in space.rels
    [] m.kind = "add_descriptor_row"    -> AddRowLegal(space, m.record)
    [] m.kind = "update_descriptor_row" -> UpdateRowLegal(space, m.record)
    [] m.kind = "remove_descriptor_row" -> m.id \in DOMAIN space.rows
    [] OTHER                             -> FALSE

Enact(space, m) ==
  CASE m.kind \in {"add_capability", "update_capability"} ->
         [space EXCEPT !.caps = Put(@, m.record.id, m.record)]
    [] m.kind = "transition" ->
         [space EXCEPT !.caps[m.id].lifecycle = m.to]
    [] m.kind = "add_relationship"    -> [space EXCEPT !.rels = @ \cup {m.record}]
    [] m.kind = "remove_relationship" -> [space EXCEPT !.rels = @ \ {m.record}]
    [] m.kind \in {"add_descriptor_row", "update_descriptor_row"} ->
         [space EXCEPT !.rows = Put(@, m.record.provider, m.record)]
    [] m.kind = "remove_descriptor_row" -> [space EXCEPT !.rows = Without(@, m.id)]

\* apply(): clone, validate, commit.
Admit(space, m) == {Enact(space, n) : n \in {x \in {m} : Constructible(x) /\ Legal(space, x)}}

---------------------------------------------------------------------------
(* Matching and selection over the rows of one version. *)

\* The size class a byte count falls in; above the last threshold, "xlarge".
SizeThresholds == <<2000, 8000, 32000>>

DeriveSizeClass(bytes) ==
  LET fits == {i \in DOMAIN SizeThresholds : bytes <= SizeThresholds[i]}
  IN  IF fits = {} THEN "xlarge" ELSE CONTEXT_CAPACITY_CLASSES[Min(fits)]

CandidateSet(rows, capability, rung) ==
  {p \in DOMAIN rows : capability \in DOMAIN rows[p].claims /\ rung \in rows[p].claims[capability]}

\* demands: what the caller requires of the provider.
Eligible(row, demands, sizeClass) ==
  /\ IndexIn(PRIVACY_DOMAINS, row.privacy) >= IndexIn(PRIVACY_DOMAINS, demands.privacy)
  /\ demands.tags \subseteq row.tags
  /\ IndexIn(CONTEXT_CAPACITY_CLASSES, row.capacity)
       >= IndexIn(CONTEXT_CAPACITY_CLASSES, sizeClass)
  /\ demands.locality \in {"any", row.locality}

PreferenceRank(preference, p) ==
  LET at == {i \in DOMAIN preference : preference[i] = p}
  IN  IF at = {} THEN Len(preference) + 1 ELSE Min(at)

\* The sort key: cost class, declared preference, then the provider id.
Preferable(rows, preference, rank, p, q) ==
  LET cost(x) == IndexIn(COST_CLASSES, rows[x].cost)
      pref(x) == PreferenceRank(preference, x)
  IN  \/ cost(p) < cost(q)
      \/ cost(p) = cost(q) /\ pref(p) < pref(q)
      \/ cost(p) = cost(q) /\ pref(p) = pref(q) /\ rank[p] <= rank[q]

\* The providers selection leads to: one, or none when nothing is eligible.
SelectProvider(rows, capability, rung, demands, sizeClass, rank) ==
  LET eligible == {p \in CandidateSet(rows, capability, rung) :
                     Eligible(rows[p], demands, sizeClass)}
  IN  {p \in eligible : \A q \in eligible : Preferable(rows, demands.preference, rank, p, q)}
=============================================================================
