----------------------------- MODULE Distillery -----------------------------
(* The learning engine's compiler: what lie/distillery.py derives from the   *)
(* ledger, the curation overlay and one ruleset, and the builders of the     *)
(* records it reads and writes.  Pure; Learning.tla gives it its state.      *)
(*                                                                           *)
(* A facet term is a sequence of words, "a+b" being <<"a", "b">>: joining    *)
(* the terms of a scope by "+" is then concatenation, and joins that         *)
(* coincide in the code coincide here.  An approach is [name, steps]; its    *)
(* 12-digit hash is the approach itself, ordered by HashRank.                *)
EXTENDS Integers, FiniteSets, Sequences, SequencesExt

CONSTANTS None,          \* no instead-of target
          TermRank,      \* the string order of the facet terms
          HashRank(_)    \* the string order of the hashes of approaches and step lists

POLARITIES == {"positive", "negative"}
MATURITY_GRADES == {"provisional", "corroborated", "established"}
ANNOTATION_KINDS == {"deprecation", "supersession", "contradiction_resolution"}

-----------------------------------------------------------------------------
(* What the builders of the inputs accept. *)

(* The attestation, the origin and the envelope of an experience record. *)
EnvelopeBuilds(r) ==
  /\ r.ref # "" /\ r.closed \in BOOLEAN /\ r.vocabulary \in Nat \ {0}
  /\ r.project # "" /\ r.facets # {}

EpisodeBuilds(r) == r.kind = "episode" /\ DOMAIN r.approach # {}

DecisionBuilds(r) == r.kind = "decision" /\ r.chosen \in r.options

RecordBuilds(r) == EnvelopeBuilds(r) /\ (EpisodeBuilds(r) \/ DecisionBuilds(r))

AnnotationBuilds(a) == a.kind \in ANNOTATION_KINDS /\ a.targets # {}

RulesetBuilds(rs) ==
  /\ {rs.version, rs.patternMin, rs.recipeMin, rs.corroborated, rs.established} \subseteq Nat \ {0}
  /\ \A name \in DOMAIN rs.packs : rs.packs[name] # {}

-----------------------------------------------------------------------------
(* What the builders of the derived artifacts accept. *)

(* INV-4: an artifact that cannot cite its evidence is not built. *)
DerivedEnvelopeBuilds(envelope) ==
  /\ envelope.facets # {} /\ envelope.cites # {}
  /\ {envelope.state.ledger, envelope.state.overlay, envelope.state.ruleset} \subseteq Nat

RelationshipBuilds(rel) == rel[1] # "" /\ rel[2] # {}
PatternBuilds(a) == DOMAIN a.approach # {} /\ a.contested \in BOOLEAN
RecipeBuilds(a) == a.steps # <<>>
DossierBuilds(a) == \A rel \in a.relationships : RelationshipBuilds(rel)
PackBuilds(a) == a.memberRefs # {}

DerivedBuilds(a) ==
  /\ DerivedEnvelopeBuilds(a.envelope)
  /\ a.maturity \in MATURITY_GRADES
  /\ CASE a.kind = "lesson" -> TRUE
       [] a.kind \in {"pattern", "anti_pattern"} -> PatternBuilds(a)
       [] a.kind = "recipe" -> RecipeBuilds(a)
       [] a.kind = "project_dossier" -> DossierBuilds(a)
       [] a.kind = "domain_knowledge_pack" -> PackBuilds(a)

-----------------------------------------------------------------------------
(* Identities, polarity and grade. *)

FacetsKey(facets) ==
  FlattenSeq(SetToSortSeq(facets, LAMBDA f, g : TermRank[f] < TermRank[g]))

LessonId(facets, polarity) == <<"lesson", FacetsKey(facets), polarity>>
PatternId(facets, approach) == <<"pattern", FacetsKey(facets), approach>>
AntiId(facets, approach) == <<"anti_pattern", FacetsKey(facets), approach>>
RecipeId(facets, steps) == <<"recipe", FacetsKey(facets), steps>>

Verdictless(e) == e.verdict \notin {"passed", "failed"}

polarity_of(e) == IF e.verdict = "passed" THEN "positive" ELSE "negative"

Projects(records) == {r.project : r \in records}

Grade(members, rs) ==
  CASE Cardinality(Projects(members)) >= rs.established -> "established"
    [] Cardinality(members) >= rs.corroborated -> "corroborated"
    [] OTHER -> "provisional"

DerivedEnvelope(id, facets, evidence, state, insteadOf) ==
  [identity |-> id, facets |-> facets, cites |-> {m.id : m \in evidence},
   projects |-> Projects(evidence), state |-> state, insteadOf |-> insteadOf]

Identities(artifacts) == {a.envelope.identity : a \in artifacts}

-----------------------------------------------------------------------------
(* The overlay as a weighting input. *)

(* A slip: only deprecations exclude. *)
ExcludedIdsDeprecatedOnly(rulings) ==
  UNION {a.targets : a \in {b \in rulings : b.kind = "deprecation"}}

ExcludedIds(rulings) ==
  UNION {a.targets : a \in {b \in rulings : b.kind \in {"deprecation", "supersession"}}}

RuledAgainst(rulings) ==
  UNION {a.targets : a \in {b \in rulings : b.kind = "contradiction_resolution"}}

Weighed(records, rulings, kind) ==
  {r \in records : r.kind = kind /\ r.id \notin ExcludedIds(rulings)}

(* regenerate raises on a verdict outside the closed two. *)
Compilable(records, rulings) ==
  \A e \in Weighed(records, rulings, "episode") : ~Verdictless(e)

-----------------------------------------------------------------------------
(* Artifacts, kind by kind.  E is the set of weighed episodes, R the ids     *)
(* ruled against.                                                            *)

Signatures(E) == {e.facets : e \in E}

Members(E, facets, polarity) == {e \in E : e.facets = facets /\ polarity_of(e) = polarity}

Lessons(E, R, rs, state) ==
  {[kind |-> "lesson", maturity |-> Grade(Members(E, k[1], k[2]), rs),
    envelope |-> DerivedEnvelope(LessonId(k[1], k[2]), k[1], Members(E, k[1], k[2]), state, None)] :
     k \in {q \in Signatures(E) \X POLARITIES :
              Members(E, q[1], q[2]) # {} /\ LessonId(q[1], q[2]) \notin R}}

(* The sub-group of one signature and polarity that shares an approach. *)
ApproachGroup(E, facets, polarity, approach) ==
  {e \in Members(E, facets, polarity) : e.approach = approach}

(* The (signature, approach) keys whose sub-group recurred often enough. *)
Specs(E, rs, polarity) ==
  {k \in {<<e.facets, e.approach>> : e \in E} :
     Cardinality(ApproachGroup(E, k[1], polarity, k[2])) >= rs.patternMin}

(* The identities flagged contested: both sides of a key that recurred with  *)
(* both polarities and that no ruling has decided.                           *)
ContestedIds(E, R, rs) ==
  UNION {{PatternId(k[1], k[2]), AntiId(k[1], k[2])} :
           k \in {q \in Specs(E, rs, "positive") \cap Specs(E, rs, "negative") :
                    {PatternId(q[1], q[2]), AntiId(q[1], q[2])} \cap R = {}}}

Patterns(E, R, rs, state) ==
  {LET members == ApproachGroup(E, k[1], "positive", k[2])
       id == PatternId(k[1], k[2])
   IN [kind |-> "pattern", approach |-> k[2], maturity |-> Grade(members, rs),
       contested |-> id \in ContestedIds(E, R, rs),
       envelope |-> DerivedEnvelope(id, k[1], members, state, None)] :
     k \in {q \in Specs(E, rs, "positive") : PatternId(q[1], q[2]) \notin R}}

StepGroup(E, facets, steps) ==
  {e \in Members(E, facets, "positive") : e.approach.steps = steps}

Recipes(E, R, rs, state) ==
  {[kind |-> "recipe", steps |-> k[2], maturity |-> Grade(StepGroup(E, k[1], k[2]), rs),
    envelope |-> DerivedEnvelope(RecipeId(k[1], k[2]), k[1], StepGroup(E, k[1], k[2]), state, None)] :
     k \in {q \in {<<e.facets, e.approach.steps>> : e \in E} :
              /\ q[2] # <<>>
              /\ Cardinality(StepGroup(E, q[1], q[2])) >= rs.recipeMin
              /\ RecipeId(q[1], q[2]) \notin R}}

Least(S) == CHOOSE x \in S : \A y \in S : HashRank(x) <= HashRank(y)

(* The automatic instead-of target of an anti-pattern: a surviving pattern   *)
(* of another approach, else a recipe, else the positive lesson when some    *)
(* positive episode took another approach.                                   *)
Alternative(facets, approach, E, patterns, recipes, lessons) ==
  LET others == {p.approach : p \in {q \in patterns : q.envelope.facets = facets /\ q.approach # approach}}
      threads == {r.steps : r \in {q \in recipes : q.envelope.facets = facets}}
  IN CASE others # {} -> PatternId(facets, Least(others))
       [] others = {} /\ threads # {} -> RecipeId(facets, Least(threads))
       [] /\ others = {} /\ threads = {}
          /\ \E l \in lessons : l.envelope.facets = facets /\ l.envelope.identity[3] = "positive"
          /\ \E e \in Members(E, facets, "positive") : e.approach # approach
            -> LessonId(facets, "positive")
       [] OTHER -> None

AntiPatterns(E, R, rs, state, patterns, recipes, lessons) ==
  {LET members == ApproachGroup(E, k[1], "negative", k[2])
       id == AntiId(k[1], k[2])
   IN [kind |-> "anti_pattern", approach |-> k[2], maturity |-> Grade(members, rs),
       contested |-> id \in ContestedIds(E, R, rs),
       envelope |-> DerivedEnvelope(id, k[1], members, state,
                                    Alternative(k[1], k[2], E, patterns, recipes, lessons))] :
     k \in {q \in Specs(E, rs, "negative") : AntiId(q[1], q[2]) \notin R}}

(* The aggregate facet profile of a project's records. *)
ProjectSignature(E, D, project) == UNION {r.facets : r \in {q \in E \cup D : q.project = project}}

Dossiers(E, D, R, rs, state, lessons) ==
  {LET eps == {e \in E : e.project = p}
       profile == ProjectSignature(E, D, p)
   IN [kind |-> "project_dossier", maturity |-> Grade(eps, rs),
       decisionRefs |-> {d.id : d \in {c \in D : c.project = p}},
       episodeRefs |-> {e.id : e \in eps},
       lessonRefs |-> Identities({l \in lessons : l.envelope.cites \cap {e.id : e \in eps} # {}}),
       relationships |-> {<<o, profile \cap ProjectSignature(E, D, o)>> :
                            o \in {q \in Projects(E) \ {p} : profile \cap ProjectSignature(E, D, q) # {}}},
       envelope |-> DerivedEnvelope(<<"dossier", p>>, profile, eps, state, None)] :
     p \in {q \in Projects(E) : <<"dossier", q>> \notin R}}

(* A pack lists the core artifacts and the measured episodes in its scope,   *)
(* and cites what they cite; an empty one is not compiled.                   *)
Packs(E, R, rs, state, core) ==
  LET inScope(name) == {a \in core : a.envelope.facets \subseteq rs.packs[name]}
      measured(name) == {e \in E : e.measured /\ e.facets \subseteq rs.packs[name]}
      evidence(name) == measured(name)
                        \cup {e \in E : \E a \in inScope(name) : e.id \in a.envelope.cites}
  IN {[kind |-> "domain_knowledge_pack", maturity |-> Grade(evidence(n), rs),
       memberRefs |-> Identities(inScope(n)) \cup {e.id : e \in measured(n)},
       envelope |-> DerivedEnvelope(<<"pack", n>>, rs.packs[n], evidence(n), state, None)] :
        n \in {m \in DOMAIN rs.packs : <<"pack", m>> \notin R /\ inScope(m) \cup measured(m) # {}}}

(* The artifacts compiled from the evidence alone. *)
Core(E, R, rs, state) ==
  LET lessons == Lessons(E, R, rs, state)
      patterns == Patterns(E, R, rs, state)
      recipes == Recipes(E, R, rs, state)
  IN lessons \cup patterns \cup recipes
     \cup AntiPatterns(E, R, rs, state, patterns, recipes, lessons)

(* Full regeneration: the whole ledger, the whole overlay, one ruleset. *)
regenerate(ledger, overlay, rs) ==
  LET state == [ledger |-> Len(ledger), overlay |-> Len(overlay), ruleset |-> rs.version]
      rulings == ToSet(overlay)
      R == RuledAgainst(rulings)
      E == Weighed(ToSet(ledger), rulings, "episode")
      D == Weighed(ToSet(ledger), rulings, "decision")
      core == Core(E, R, rs, state)
  IN [state |-> state,
      artifacts |-> core \cup Dossiers(E, D, R, rs, state, Lessons(E, R, rs, state))
                         \cup Packs(E, R, rs, state, core)]

-----------------------------------------------------------------------------
(* Consultation. *)

AdviceKinds == {"lesson", "pattern", "anti_pattern", "recipe"}

Advice(layer) == {a \in layer.artifacts : a.kind \in AdviceKinds}

(* A citation chain that cannot be walked in the ledger raises. *)
Walkable(artifact, ledger) ==
  /\ artifact.envelope.cites # {}
  /\ \A id \in artifact.envelope.cites : \E i \in DOMAIN ledger : ledger[i].id = id

(* The advice a situation is answered with; the empty set is the definite    *)
(* NoRelevantExperience.                                                     *)
Matches(a, situation) == a.envelope.facets \subseteq situation
consult(layer, situation) == {a \in Advice(layer) : Matches(a, situation)}

(* A slip: an artifact known under its identity is never announced again. *)
ChangedAdviceNewOnly(previous, layer) ==
  {a \in Advice(layer) : previous = None \/ a.envelope.identity \notin Identities(previous.artifacts)}

(* The artifacts publish() announces: new ones, and ones not equal to the    *)
(* prior artifact of their identity.                                         *)
ChangedAdvice(previous, layer) ==
  {a \in Advice(layer) : previous = None \/ a \notin previous.artifacts}

(* The Curator's queue: what a layer flags for a deliberate ruling. *)
contested_queue(layer) ==
  {a \in layer.artifacts : a.kind \in {"pattern", "anti_pattern"} /\ a.contested}
=============================================================================
