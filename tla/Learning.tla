------------------------------ MODULE Learning ------------------------------
(* The learning and experience engine (src/lie): the Gate admits attested    *)
(* records to the ledger, the Curator appends rulings and governs the        *)
(* vocabulary and the ruleset, the runtime's triggers recompile the layer    *)
(* and the Advisory Interface publishes, announces and answers from it.      *)
(* The Gate's and the Curator's callers fire the triggers, in their own      *)
(* time.  An operation that refuses changes nothing and is not a step: a     *)
(* rejected candidate, a storage rejection, a regeneration that raises.      *)
EXTENDS Distillery

CONSTANTS Records,         \* candidates delivered to the Gate, any number of times
          Rulings,         \* annotations the Curator may issue
          Rulesets,        \* rulesets the Curator may be handed
          FirstRuleset,    \* the ruleset everything is constructed with
          FirstTerms,      \* terms of vocabulary version 1
          NewTerms,        \* term sets handed to evolve_vocabulary
          MaxLedger, MaxOverlay

ASSUME InputsBuild ==
  /\ \A r \in Records : RecordBuilds(r)
  /\ \A a \in Rulings : AnnotationBuilds(a)
  /\ \A rs \in Rulesets \cup {FirstRuleset} : RulesetBuilds(rs)
  /\ FirstTerms # {} /\ {} \notin NewTerms

(* The order of the approach hashes, and of the step thread hashes. *)
ASSUME HashesRanked ==
  \A r \in Records : r.kind = "episode" => {HashRank(r.approach), HashRank(r.approach.steps)} \subseteq Nat

VARIABLES ledger,          \* ExperienceLedger._entries, a position is an index
          admittedBy,      \* AdmissionGate._admitted_by_attestation
          answers,         \* what admit() has answered: <<attestation, position>>
          gateVocabulary,  \* the version the Gate checks against
          vocabularies,    \* Curator._vocabularies, a version is an index
          overlay,         \* CurationOverlay._entries
          rulesets,        \* Curator._rulesets: version -> ruleset
          current,         \* LieRuntime._ruleset
          layer,           \* AdvisoryInterface._layer
          announced,       \* lesson.recorded events of the layer's state: <<identity, state>>
          cutShort         \* the state whose publication the bus cut short, or None

vars == <<ledger, admittedBy, answers, gateVocabulary, vocabularies, overlay,
          rulesets, current, layer, announced, cutShort>>

gateVars == <<ledger, admittedBy, answers>>
curatorVars == <<vocabularies, overlay, rulesets>>
advisoryVars == <<layer, announced, cutShort>>

(* dict[key] = value *)
Put(dict, key, value) ==
  [k \in DOMAIN dict \cup {key} |-> IF k = key THEN value ELSE dict[k]]

Init ==
  /\ ledger = <<>> /\ admittedBy = <<>> /\ answers = {}
  /\ gateVocabulary = 1 /\ vocabularies = <<FirstTerms>>
  /\ overlay = <<>>
  /\ rulesets = [v \in {FirstRuleset.version} |-> FirstRuleset] /\ current = FirstRuleset
  /\ layer = None /\ announced = {} /\ cutShort = None

-----------------------------------------------------------------------------
(* The Gate. *)

(* Provenance, then normalisation onto the Gate's vocabulary.  A missing     *)
(* attestation or project never reaches it: the builders refuse those.       *)
Acceptable(r) ==
  /\ r.closed
  /\ r.vocabulary <= gateVocabulary
  /\ r.facets \subseteq vocabularies[gateVocabulary]

PositionOf(id) == CHOOSE i \in DOMAIN ledger : ledger[i].id = id

Durable(id) == \E i \in DOMAIN ledger : ledger[i].id = id

Answer(r, position) == answers' = answers \cup {<<r.ref, position>>}

(* One attested unit is admitted once: its redelivery, under whatever        *)
(* identity, is answered from the index.                                     *)
AdmitDeduped(r) ==
  /\ r.ref \in DOMAIN admittedBy
  /\ Answer(r, admittedBy[r.ref])
  /\ UNCHANGED <<ledger, admittedBy>>

(* The ledger refuses a durable identity; the Gate answers from its entry.   *)
AdmitKnownIdentity(r) ==
  /\ r.ref \notin DOMAIN admittedBy /\ Acceptable(r) /\ Durable(r.id)
  /\ admittedBy' = Put(admittedBy, r.ref, PositionOf(r.id))
  /\ Answer(r, PositionOf(r.id))
  /\ UNCHANGED ledger

(* A slip: the attestation index is not written on admission. *)
AdmitNewUnindexed(r) ==
  /\ r.ref \notin DOMAIN admittedBy /\ Acceptable(r) /\ ~Durable(r.id)
  /\ Len(ledger) < MaxLedger
  /\ ledger' = Append(ledger, r)
  /\ Answer(r, Len(ledger) + 1)
  /\ UNCHANGED admittedBy

(* The write commits, the position is assigned, the index is written. *)
AdmitNew(r) ==
  /\ r.ref \notin DOMAIN admittedBy /\ Acceptable(r) /\ ~Durable(r.id)
  /\ Len(ledger) < MaxLedger
  /\ ledger' = Append(ledger, r)
  /\ admittedBy' = Put(admittedBy, r.ref, Len(ledger) + 1)
  /\ Answer(r, Len(ledger) + 1)

Admit(r) ==
  /\ AdmitDeduped(r) \/ AdmitKnownIdentity(r) \/ AdmitNew(r)
  /\ UNCHANGED <<gateVocabulary, curatorVars, current, advisoryVars>>

(* Forward only, to a version the Curator minted. *)
AdoptVocabulary(version) ==
  /\ version > gateVocabulary
  /\ gateVocabulary' = version
  /\ UNCHANGED <<gateVars, curatorVars, current, advisoryVars>>

-----------------------------------------------------------------------------
(* The Curator. *)

Rule(annotation) ==
  /\ Len(overlay) < MaxOverlay
  /\ overlay' = Append(overlay, annotation)
  /\ UNCHANGED <<gateVars, gateVocabulary, vocabularies, rulesets, current, advisoryVars>>

(* Additive only: a strict superset of the current terms. *)
EvolveVocabulary(terms) ==
  /\ Last(vocabularies) \subseteq terms /\ terms # Last(vocabularies)
  /\ vocabularies' = Append(vocabularies, terms)
  /\ UNCHANGED <<gateVars, gateVocabulary, overlay, rulesets, current, advisoryVars>>

CurrentVersion == CHOOSE v \in DOMAIN rulesets : \A w \in DOMAIN rulesets : w <= v

(* A slip: a version number may be adopted again. *)
AdoptRulesetAgain(rs) ==
  /\ rs.version >= CurrentVersion
  /\ rulesets' = Put(rulesets, rs.version, rs)
  /\ UNCHANGED <<gateVars, gateVocabulary, vocabularies, overlay, current, advisoryVars>>

AdoptRuleset(rs) ==
  /\ rs.version > CurrentVersion
  /\ rulesets' = Put(rulesets, rs.version, rs)
  /\ UNCHANGED <<gateVars, gateVocabulary, vocabularies, overlay, current, advisoryVars>>

-----------------------------------------------------------------------------
(* The runtime's triggers and the publication they end in. *)

Announcement(a, state) == <<a.envelope.identity, state>>

(* The layer is swapped in one assignment, then one event goes out for each  *)
(* changed artifact; a bus that refuses one ends the loop there.  Of the     *)
(* events sent only those of the state now published are kept.               *)
Sent(artifacts, state) ==
  {x \in announced : x[2] = state} \cup {Announcement(a, state) : a \in artifacts}

(* The loop's order, by identity in the code, is any fixed one here. *)
InOrder(artifacts) == FoldSet(LAMBDA a, seq : Append(seq, a), <<>>, artifacts)

Publish(new) ==
  \E changed \in {ChangedAdvice(layer, new)} :
     /\ layer' = new
     /\ \/ /\ announced' = Sent(changed, new.state)
           /\ UNCHANGED cutShort
        \/ /\ cutShort = None
           /\ \E k \in 0..(Cardinality(changed) - 1) :
                announced' = Sent(ToSet(SubSeq(InOrder(changed), 1, k)), new.state)
           /\ cutShort' = new.state

PublishRegenerated(rs) == \E new \in {regenerate(ledger, overlay, rs)} : Publish(new)

(* The compilation raises on an unknown verdict, or where a builder refuses. *)
Compiles(rs) ==
  /\ Compilable(ToSet(ledger), ToSet(overlay))
  /\ \A a \in regenerate(ledger, overlay, rs).artifacts : DerivedBuilds(a)

(* on_ledger_appended, on_curation_ruling and regenerate are one operation.  *)
Republish ==
  /\ Compiles(current)
  /\ PublishRegenerated(current)
  /\ UNCHANGED <<gateVars, gateVocabulary, curatorVars, current>>

(* The ruleset is assigned first, so it stays when the compilation raises.   *)
(* The caller hands over some version the Curator adopted.                   *)
OnRulesetChanged(rs) ==
  /\ current' = rs
  /\ IF Compiles(rs)
     THEN PublishRegenerated(rs)
     ELSE UNCHANGED advisoryVars
  /\ UNCHANGED <<gateVars, gateVocabulary, curatorVars>>

Next ==
  \/ \E r \in Records : Admit(r)
  \/ \E v \in DOMAIN vocabularies : AdoptVocabulary(v)
  \/ \E a \in Rulings : Rule(a)
  \/ \E terms \in NewTerms : EvolveVocabulary(terms)
  \/ \E rs \in Rulesets : AdoptRuleset(rs)
  \/ Republish
  \/ \E v \in DOMAIN rulesets : OnRulesetChanged(rulesets[v])

Spec == Init /\ [][Next]_vars

-----------------------------------------------------------------------------
(* What the engine promises. *)

(* One attested unit has at most one ledger record however often and under   *)
(* whatever identity it is delivered, an identity is never reused, and every *)
(* delivery of an attestation is answered with the same position             *)
(* (gate.py admit, ledger.py append).                                        *)
OneRecordPerAttestation ==
  /\ \A i, j \in DOMAIN ledger :
       ledger[i].ref = ledger[j].ref \/ ledger[i].id = ledger[j].id => i = j
  /\ \A a, b \in answers : a[1] = b[1] => a = b
  /\ \A a \in answers : a[2] \in DOMAIN ledger

(* The published layer is what its own derivation state compiles to, however *)
(* far the ledger, the overlay and the rulesets have moved on: the triple    *)
(* names one layer for good; and nothing but an unknown verdict ever stops   *)
(* the compilation (distillery.py regenerate, curator.py adopt_ruleset,      *)
(* runtime.py on_ruleset_changed, derived.py builders).                      *)
LayerReproducible ==
  /\ layer # None =>
       layer = regenerate(SubSeq(ledger, 1, layer.state.ledger), SubSeq(overlay, 1, layer.state.overlay),
                          rulesets[layer.state.ruleset])
  /\ Compilable(ToSet(ledger), ToSet(overlay)) => Compiles(current)

(* Every answer stands on its evidence: the chain of each recommendation     *)
(* walks to attested records in the ledger whose verdicts agree with the     *)
(* advice, none of them withdrawn by a ruling the layer has seen, and the    *)
(* recommendation itself is not ruled against (advisory.py consult,          *)
(* distillery.py citation_chain and the overlay weighting).                  *)
AdviceStands ==
  layer # None =>
    LET seen == ToSet(SubSeq(overlay, 1, layer.state.overlay))
        against == {a \in seen : a.kind = "contradiction_resolution"}
        withdrawn == UNION {a.targets : a \in seen \ against}
        cited(a) == {ledger[i] : i \in {j \in DOMAIN ledger : ledger[j].id \in a.envelope.cites}}
    IN \A a \in consult(layer, Last(vocabularies)) :
         /\ Walkable(a, SubSeq(ledger, 1, layer.state.ledger))
         /\ a.envelope.identity \notin UNION {b.targets : b \in against}
         /\ \A r \in cited(a) :
              /\ r.closed /\ r.id \notin withdrawn
              /\ r.facets = a.envelope.facets
              /\ a.kind \in {"pattern", "recipe"} => r.verdict = "passed"
              /\ a.kind = "anti_pattern" => r.verdict = "failed"

(* Conflicts are shown, never settled by the compiler: a pattern and an      *)
(* anti-pattern of one scope and approach that are both in the layer are     *)
(* both flagged for ruling and nothing else is; and "do Y instead" names     *)
(* advice that is in the same layer, positive and of the same scope          *)
(* (distillery.py contested flags and instead-of link).                      *)
ConflictsFaced ==
  layer # None =>
    LET of(kind) == {a \in layer.artifacts : a.kind = kind}
        twins == {x \in of("pattern") \X of("anti_pattern") :
                    /\ x[1].approach = x[2].approach
                    /\ x[1].envelope.facets = x[2].envelope.facets}
    IN /\ contested_queue(layer) = {x[1] : x \in twins} \cup {x[2] : x \in twins}
       /\ \A a \in of("anti_pattern") :
            a.envelope.insteadOf # None =>
              \E b \in Advice(layer) :
                /\ b.envelope.identity = a.envelope.insteadOf
                /\ b.envelope.facets = a.envelope.facets
                /\ \A i \in DOMAIN ledger : ledger[i].id \in b.envelope.cites => ledger[i].verdict = "passed"

(* What consult answers with stands on its evidence, and says so where it    *)
(* is contested.                                                             *)
AdviceSound == AdviceStands /\ ConflictsFaced

(* A publication the bus cut short is made good by the next layer of another *)
(* derivation state: whatever advice the engine answers with was announced   *)
(* under the state it is stamped with (advisory.py publish).                 *)
PublicationHeals ==
  layer # None /\ layer.state # cutShort =>
    \A a \in Advice(layer) : Announcement(a, layer.state) \in announced
=============================================================================
