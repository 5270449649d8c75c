--------------------------- MODULE PluginRegistry ---------------------------
(***************************************************************************)
(* The capability registry of the plugin runtime (src/src/prt) as a value  *)
(* and the pure functions over it: the mutation handlers behind            *)
(* Registry.apply, the admission pipeline's stages, the availability       *)
(* ladder, late binding, and the replay of a persisted registry.           *)
(*                                                                         *)
(* A registry is [caps, provs, binds, aliases : partial functions,         *)
(* rels : a bag of edges].  A capability is [category, facets, lifecycle,  *)
(* aliases, expects, constraints, rev], where rev stands for the           *)
(* description, entry version and deprecation pointer; a provider is       *)
(* [version, constraints, loadable, lifecycle].  A content hash is the     *)
(* content itself.                                                         *)
(***************************************************************************)
EXTENDS Integers, FiniteSets, Sequences, SequencesExt, Bags, TLC

\* The None of a lookup of an id, and of a record.
None == "None"
NoRecord == [lifecycle |-> None]

---------------------------------------------------------------------------
(* Records. *)

LifecycleStates == <<"proposed", "active", "deprecated", "retired">>

RelationshipKinds == {"dependency", "composition", "alternative", "conflict"}

\* What build_capability accepts.
CapabilityBuilds(rec) == /\ rec.lifecycle \in Range(LifecycleStates)
                         /\ rec.expects # {}

\* What build_provider accepts.
ProviderBuilds(rec) == rec.lifecycle \in Range(LifecycleStates)

\* What build_relationship accepts.
EdgeBuilds(e) == e.kind \in RelationshipKinds

---------------------------------------------------------------------------
(* The read surface, shared by the live registry and its snapshots. *)

EmptyRegistry == [caps |-> <<>>, provs |-> <<>>, binds |-> <<>>, aliases |-> <<>>, rels |-> EmptyBag]

At(f, x) == IF x \in DOMAIN f THEN f[x] ELSE NoRecord

Resolve(r, c) == IF c \in DOMAIN r.aliases THEN r.aliases[c]
                 ELSE IF c \in DOMAIN r.caps THEN c ELSE None

GetCapability(r, c) == At(r.caps, Resolve(r, c))

GetProvider(r, p) == At(r.provs, p)

\* The providers bound to a capability, found through its alias.
BoundProviders(r, c) == {p \in DOMAIN r.provs : <<Resolve(r, c), p>> \in DOMAIN r.binds}

---------------------------------------------------------------------------
(* The mutation handlers: what each requires, and what it does. *)

Without(f, S) == [x \in DOMAIN f \ S |-> f[x]]

Compatible(a, b) == \A k \in DOMAIN a \cap DOMAIN b : a[k] = b[k]

AddCapabilityLegal(r, m) ==
  /\ m.id \notin DOMAIN r.caps \cup DOMAIN r.aliases
  /\ m.rec.expects # {}
  /\ m.rec.aliases \cap (DOMAIN r.caps \cup DOMAIN r.aliases) = {}

AddCapability(r, m) ==
  [r EXCEPT !.caps = (m.id :> m.rec) @@ @, !.aliases = [a \in m.rec.aliases |-> m.id] @@ @]

UpdateCapabilityLegal(r, m) ==
  /\ m.id \in DOMAIN r.caps
  /\ LET old == r.caps[m.id]
     IN  /\ old.lifecycle # "retired"
         /\ m.rec.lifecycle = old.lifecycle
         /\ m.rec.category = old.category
         /\ m.rec.aliases = old.aliases
         /\ m.rec.expects # {}

UpdateCapability(r, m) == [r EXCEPT !.caps[m.id] = m.rec]

AddProviderLegal(r, m) == m.id \notin DOMAIN r.provs

AddProvider(r, m) == [r EXCEPT !.provs = (m.id :> m.rec) @@ @]

AddBindingLegal(r, m) ==
  LET c == Resolve(r, m.cap)
  IN  /\ c # None
      /\ r.caps[c].lifecycle \in {"active", "deprecated"}
      /\ m.prov \in DOMAIN r.provs
      /\ Compatible(r.caps[c].constraints, r.provs[m.prov].constraints)

AddBinding(r, m) == [r EXCEPT !.binds = (<<Resolve(r, m.cap), m.prov>> :> m.terms) @@ @]

RemoveBindingLegal(r, m) == <<Resolve(r, m.cap), m.prov>> \in DOMAIN r.binds

RemoveBinding(r, m) == [r EXCEPT !.binds = Without(@, {<<Resolve(r, m.cap), m.prov>>})]

AddRelationshipLegal(r, m) ==
  EdgeBuilds(m.edge) /\ Resolve(r, m.edge.src) # None /\ Resolve(r, m.edge.dst) # None

AddRelationship(r, m) == [r EXCEPT !.rels = @ (+) SetToBag({m.edge})]

\* Lifecycle states only ever advance.
Forward(from, to) ==
  \E i, j \in DOMAIN LifecycleStates : i < j /\ LifecycleStates[i] = from /\ LifecycleStates[j] = to

\* A capability that an alias still names may not retire.
TransitionLegal(r, m) ==
  \/ /\ m.entity = "capability" /\ m.id \in DOMAIN r.caps
     /\ Forward(r.caps[m.id].lifecycle, m.to)
     /\ m.to = "retired" => \A a \in DOMAIN r.aliases : r.aliases[a] # m.id
  \/ /\ m.entity = "provider" /\ m.id \in DOMAIN r.provs
     /\ Forward(r.provs[m.id].lifecycle, m.to)

\* Mutant: the bindings of a retired provider are left for a later clean-up.
TransitionOnly(r, m) ==
  IF m.entity = "capability" THEN [r EXCEPT !.caps[m.id].lifecycle = m.to]
  ELSE [r EXCEPT !.provs[m.id].lifecycle = m.to]

\* A provider's bindings leave with it, in the same mutation; a capability's stay.
Transition(r, m) ==
  IF m.entity = "capability" THEN [r EXCEPT !.caps[m.id].lifecycle = m.to]
  ELSE [r EXCEPT !.provs[m.id].lifecycle = m.to,
                 !.binds = IF m.to = "retired" THEN Without(@, (DOMAIN r.caps) \X {m.id}) ELSE @]

\* One admitted declaration, as the mutations its bundle is composed of.
Bundle(d) ==
     [i \in DOMAIN d.caps |-> [kind |-> "add_capability"] @@ d.caps[i]]
  \o <<[kind |-> "add_provider"] @@ d.provider>>
  \o [i \in DOMAIN d.binds |-> [kind |-> "add_binding"] @@ d.binds[i]]
  \o [i \in DOMAIN d.rels |-> [kind |-> "add_relationship", edge |-> d.rels[i]]]

Legal(r, m) ==
  CASE m.kind = "add_capability"       -> AddCapabilityLegal(r, m)
    [] m.kind = "update_capability"    -> UpdateCapabilityLegal(r, m)
    [] m.kind = "add_provider"         -> AddProviderLegal(r, m)
    [] m.kind = "add_binding"          -> AddBindingLegal(r, m)
    [] m.kind = "remove_binding"       -> RemoveBindingLegal(r, m)
    [] m.kind = "add_relationship"     -> AddRelationshipLegal(r, m)
    [] m.kind = "lifecycle_transition" -> TransitionLegal(r, m)
    [] OTHER                           -> FALSE

Enact(r, m) ==
  CASE m.kind = "add_capability"       -> AddCapability(r, m)
    [] m.kind = "update_capability"    -> UpdateCapability(r, m)
    [] m.kind = "add_provider"         -> AddProvider(r, m)
    [] m.kind = "add_binding"          -> AddBinding(r, m)
    [] m.kind = "remove_binding"       -> RemoveBinding(r, m)
    [] m.kind = "add_relationship"     -> AddRelationship(r, m)
    [] m.kind = "lifecycle_transition" -> Transition(r, m)

\* The candidate next state: the mutations one after the other on a working
\* copy, dropped as a whole when one is refused.
Candidate(r, ms) ==
  FoldLeft(LAMBDA acc, m : IF acc.ok /\ Legal(acc.reg, m)
                           THEN [acc EXCEPT !.reg = Enact(@, m)]
                           ELSE [acc EXCEPT !.ok = FALSE],
           [ok |-> TRUE, reg |-> r], ms)

---------------------------------------------------------------------------
(* Admission: the stages a declaration passes, cheapest first.  A          *)
(* declaration is [hash, provider, caps, binds, rels].                     *)

\* A live id under other content, or a retired id, may not be proposed again.
IdentityClash(existing, proposed) ==
  existing # NoRecord /\ (existing.lifecycle = "retired" \/ existing # proposed)

StageIdentity(r, d) ==
  /\ ~IdentityClash(GetProvider(r, d.provider.id), d.provider.rec)
  /\ \A i \in DOMAIN d.caps : ~IdentityClash(GetCapability(r, d.caps[i].id), d.caps[i].rec)

ProposedIds(d) == UNION {{d.caps[i].id} \cup d.caps[i].rec.aliases : i \in DOMAIN d.caps}

StageCapability(r, d) ==
  \A i \in DOMAIN d.binds : Resolve(r, d.binds[i].cap) # None \/ d.binds[i].cap \in ProposedIds(d)

StageMetadata(r, d) == \A i \in DOMAIN d.caps : d.caps[i].rec.expects # {}

\* The terms of a binding agree with its provider and with a proposed capability.
StageConstraint(r, d) ==
  \A i \in DOMAIN d.binds :
    /\ Compatible(d.binds[i].terms, d.provider.rec.constraints)
    /\ \A j \in DOMAIN d.caps : d.caps[j].id = d.binds[i].cap
                                  => Compatible(d.binds[i].terms, d.caps[j].rec.constraints)

StageRelationship(r, d) ==
  \A i \in DOMAIN d.rels : \A c \in {d.rels[i].src, d.rels[i].dst} :
    Resolve(r, c) # None \/ c \in ProposedIds(d)

\* The capability a binding would have, from the registry or this declaration;
\* the declaration's own aliases are not looked up here.
WouldBe(r, d, c) ==
  IF Resolve(r, c) # None THEN GetCapability(r, c)
  ELSE LET own == {i \in DOMAIN d.caps : d.caps[i].id = c}
       IN  IF own = {} THEN NoRecord ELSE d.caps[CHOOSE i \in own : \A j \in own : i <= j].rec

StageBinding(r, d) ==
  \A i \in DOMAIN d.binds :
    LET cap  == WouldBe(r, d, d.binds[i].cap)
        prov == IF d.binds[i].prov = d.provider.id THEN d.provider.rec
                ELSE GetProvider(r, d.binds[i].prov)
    IN  /\ cap # NoRecord /\ cap.lifecycle \in {"active", "deprecated"}
        /\ prov # NoRecord /\ Compatible(cap.constraints, prov.constraints)

StageCompatibility(r, d) ==
  /\ ~ /\ GetProvider(r, d.provider.id) = d.provider.rec
       /\ d.provider.rec.lifecycle # "retired"
  /\ \A i \in DOMAIN d.caps : \A a \in d.caps[i].rec.aliases :
       Resolve(r, a) = None /\ \A j \in DOMAIN d.caps : a # d.caps[j].id

\* Consistency: the bundle against the registry's own handlers, uncommitted.
StageConsistency(r, d) == Candidate(r, Bundle(d)).ok

\* The stages that refuse d, named; admission stops at the first.
Refusals(r, d) ==
  LET stages == <<<<"identity", StageIdentity(r, d)>>, <<"capability", StageCapability(r, d)>>,
                  <<"metadata", StageMetadata(r, d)>>, <<"constraint", StageConstraint(r, d)>>,
                  <<"relationship", StageRelationship(r, d)>>, <<"binding", StageBinding(r, d)>>,
                  <<"compatibility", StageCompatibility(r, d)>>,
                  <<"consistency", StageConsistency(r, d)>>>>
  IN  SelectSeq(stages, LAMBDA s : ~s[2])

---------------------------------------------------------------------------
(* Binding.  A health snapshot maps providers to [avail, reliability].     *)

\* Mutant: a provider that is being loaded is not eligible.
RungLoading(r, p, barred, snap, loadState) ==
  IF GetProvider(r, p) = NoRecord \/ At(r.provs, p).lifecycle = "retired" THEN "RETIRED"
  ELSE IF loadState[p] = "LOADING" THEN "LOADABLE" ELSE "AVAILABLE"

\* The rung of a provider on the availability ladder; the first gate that
\* fails fixes it.
Rung(r, p, barred, snap, loadState) ==
  IF GetProvider(r, p) = NoRecord \/ At(r.provs, p).lifecycle = "retired" THEN "RETIRED"
  ELSE IF p \in barred THEN "UNAVAILABLE"
  ELSE IF ~r.provs[p].loadable THEN "REGISTERED"
  ELSE IF p \notin DOMAIN snap THEN "LOADABLE"
  ELSE IF snap[p].avail = "unavailable" THEN "UNAVAILABLE"
  ELSE IF loadState[p] \in {"PREPARED", "LOADED"} THEN "OPERATIONAL"
  ELSE "AVAILABLE"

\* The rank of a provider in a declared preference order.
Preference(pref, p) ==
  IF p \in Range(pref) THEN CHOOSE i \in DOMAIN pref : pref[i] = p ELSE Len(pref) + 1

\* Declared preference, then reliability, then the provider's stable id.
PreferredTo(p, q, pref, snap, rank) ==
  \/ Preference(pref, p) < Preference(pref, q)
  \/ /\ Preference(pref, p) = Preference(pref, q)
     /\ \/ snap[p].reliability > snap[q].reliability
        \/ snap[p].reliability = snap[q].reliability /\ rank[p] < rank[q]

\* The contract bound for capability c at a version of the registry, or the
\* binding failure when nobody is eligible.
ResolveBinding(r, version, c, snap, env) ==
  LET canonical == Resolve(r, c)
      eligible  == {p \in BoundProviders(r, c) :
                      Rung(r, p, env.barred, snap, env.load) \in {"AVAILABLE", "OPERATIONAL"}}
      pref      == IF canonical \in DOMAIN env.prefs THEN env.prefs[canonical] ELSE <<>>
      winner    == CHOOSE p \in eligible :
                     \A q \in eligible \ {p} : PreferredTo(p, q, pref, snap, env.rank)
  IN  IF canonical = None \/ eligible = {}
      THEN [bound |-> FALSE, capability |-> IF canonical = None THEN c ELSE canonical,
            version |-> version, snap |-> snap,
            reasons |-> IF canonical = None THEN <<>>
                        ELSE [p \in BoundProviders(r, c) |-> Rung(r, p, env.barred, snap, env.load)]]
      ELSE [bound |-> TRUE, provider |-> winner, providerVersion |-> r.provs[winner].version,
            capability |-> canonical, terms |-> r.binds[<<canonical, winner>>],
            loadable |-> r.provs[winner].loadable, version |-> version, snap |-> snap]

---------------------------------------------------------------------------
(* Persistence: the content is replayed through the mutation handlers of   *)
(* an empty registry, capabilities first, each kind in the order of ids.   *)

\* Every edge, as often as it was added.
ReplayEdges(r) ==
  LET rels == SetToSeq(BagToSet(r.rels))
  IN  FlattenSeq([i \in DOMAIN rels |->
        [j \in 1..CopiesIn(rels[i], r.rels) |-> [kind |-> "add_relationship", edge |-> rels[i]]]])

ReplayMutations(r, idOrder) ==
  LET sorted(S) == SetToSortSeq(S, LAMBDA a, b : idOrder[a] < idOrder[b])
      caps  == sorted(DOMAIN r.caps)
      provs == sorted(DOMAIN r.provs)
      binds == SetToSeq(DOMAIN r.binds)
  IN     [i \in DOMAIN caps  |-> [kind |-> "add_capability", id |-> caps[i], rec |-> r.caps[caps[i]]]]
      \o [i \in DOMAIN provs |-> [kind |-> "add_provider", id |-> provs[i], rec |-> r.provs[provs[i]]]]
      \o [i \in DOMAIN binds |-> [kind |-> "add_binding", cap |-> binds[i][1], prov |-> binds[i][2],
                                  terms |-> r.binds[binds[i]]]]
      \o ReplayEdges(r)

\* What load_registry makes of a persisted registry.
LoadRegistry(r, idOrder) == Candidate(EmptyRegistry, ReplayMutations(r, idOrder))
=============================================================================
