--------------------------- MODULE LearningProofs ---------------------------
(***************************************************************************)
(* Proofs about Learning, for any records, rulings, rulesets, vocabularies *)
(* and bounds: one record per attestation, a layer its own state explains, *)
(* advice that stands on its evidence, and publications that heal.         *)
(***************************************************************************)
EXTENDS Learning, SequenceTheorems, FiniteSetTheorems, NaturalsInduction, TLAPS

-----------------------------------------------------------------------------
(* The ledger and the overlay only grow, so what a layer was compiled from *)
(* stays where it was.                                                     *)

\* A prefix of a sequence is a prefix of any longer one.
LEMMA PrefixKept ==
  ASSUME NEW S, NEW s \in Seq(S), NEW e \in S, NEW n \in 0..Len(s)
  PROVE  /\ SubSeq(Append(s, e), 1, n) = SubSeq(s, 1, n)
         /\ n \in 0..Len(Append(s, e))
         /\ Append(s, e) \in Seq(S)
BY SMT

LEMMA WholePrefix ==
  ASSUME NEW S, NEW s \in Seq(S)
  PROVE  SubSeq(s, 1, Len(s)) = s /\ Len(s) \in 0..Len(s)
BY SMT

LEMMA PrefixElements ==
  ASSUME NEW S, NEW s \in Seq(S), NEW n \in 0..Len(s), NEW x \in ToSet(SubSeq(s, 1, n))
  PROVE  /\ x \in S
         /\ \E j \in DOMAIN s : x = s[j]
         /\ \E j \in DOMAIN SubSeq(s, 1, n) : x = SubSeq(s, 1, n)[j]
BY SMT DEF ToSet

-----------------------------------------------------------------------------
(* Grades and evidence. *)

LEMMA GradeIsMaturity ==
  ASSUME NEW members, NEW rs
  PROVE  Grade(members, rs) \in MATURITY_GRADES
BY DEF Grade, MATURITY_GRADES

\* What recurred at least once is not empty.
LEMMA RecurredNotEmpty ==
  ASSUME NEW S, NEW n \in Nat \ {0}, Cardinality(S) >= n
  PROVE  S # {}
BY FS_EmptySet

EpisodesBuild(E) == \A e \in E : EnvelopeBuilds(e) /\ EpisodeBuilds(e)

StateBuilds(state) == {state.ledger, state.overlay, state.ruleset} \subseteq Nat

Positive(a) == a.kind \in {"pattern", "recipe"}
Negative(a) == a.kind = "anti_pattern"

\* The artifact cites a set of episodes of its own scope, all of the polarity
\* its kind calls for, was not ruled against, and carries the layer's state.
RestsOn(a, M) ==
  /\ M # {}
  /\ a.envelope.cites = {m.id : m \in M}
  /\ \A m \in M : m.facets = a.envelope.facets
  /\ Positive(a) => \A m \in M : polarity_of(m) = "positive"
  /\ Negative(a) => \A m \in M : polarity_of(m) = "negative"

Stands(a, E, R, state) ==
  /\ \E M \in SUBSET E : RestsOn(a, M)
  /\ a.envelope.identity \notin R
  /\ a.envelope.state = state

LEMMA MembersBasic ==
  ASSUME NEW E, NEW facets, NEW polarity
  PROVE  /\ Members(E, facets, polarity) \subseteq E
         /\ \A m \in Members(E, facets, polarity) : m.facets = facets /\ polarity_of(m) = polarity
BY DEF Members

LEMMA EnvelopeFields ==
  ASSUME NEW id, NEW facets, NEW evidence, NEW state, NEW insteadOf
  PROVE  LET envelope == DerivedEnvelope(id, facets, evidence, state, insteadOf)
         IN /\ envelope.identity = id
            /\ envelope.facets = facets
            /\ envelope.cites = {m.id : m \in evidence}
            /\ envelope.state = state
            /\ envelope.insteadOf = insteadOf
BY DEF DerivedEnvelope

\* An envelope over members of one scope that build, itself builds.
LEMMA EnvelopeOfMembersBuilds ==
  ASSUME NEW E, EpisodesBuild(E), NEW M \in SUBSET E, M # {}, NEW id, NEW facets,
         \A m \in M : m.facets = facets, NEW state, StateBuilds(state), NEW insteadOf
  PROVE  DerivedEnvelopeBuilds(DerivedEnvelope(id, facets, M, state, insteadOf))
<1> DEFINE envelope == DerivedEnvelope(id, facets, M, state, insteadOf)
<1>1. facets # {}
  BY DEF EpisodesBuild, EnvelopeBuilds
<1>2. envelope.facets = facets /\ envelope.cites = {m.id : m \in M} /\ envelope.state = state
  BY EnvelopeFields
<1>3. envelope.cites # {}
  BY <1>2
<1> QED
  BY <1>1, <1>2, <1>3 DEF DerivedEnvelopeBuilds, StateBuilds

-----------------------------------------------------------------------------
(* What each kind of artifact is. *)

LEMMA LessonStands ==
  ASSUME NEW E, NEW R, NEW rs, NEW state, NEW a \in Lessons(E, R, rs, state)
  PROVE  Stands(a, E, R, state) /\ a.kind = "lesson" /\ a.maturity \in MATURITY_GRADES
<1>1. PICK k \in Signatures(E) \X POLARITIES :
        /\ Members(E, k[1], k[2]) # {} /\ LessonId(k[1], k[2]) \notin R
        /\ a = [kind |-> "lesson", maturity |-> Grade(Members(E, k[1], k[2]), rs),
                envelope |-> DerivedEnvelope(LessonId(k[1], k[2]), k[1], Members(E, k[1], k[2]), state, None)]
  BY DEF Lessons
<1> DEFINE M == Members(E, k[1], k[2])
<1>2. /\ a.kind = "lesson" /\ a.maturity \in MATURITY_GRADES
      /\ a.envelope = DerivedEnvelope(LessonId(k[1], k[2]), k[1], M, state, None)
  BY <1>1, GradeIsMaturity
<1>3. /\ a.envelope.identity = LessonId(k[1], k[2]) /\ a.envelope.facets = k[1]
      /\ a.envelope.cites = {m.id : m \in M} /\ a.envelope.state = state
  BY <1>2, EnvelopeFields
<1>4. M \subseteq E /\ \A m \in M : m.facets = k[1]
  BY MembersBasic
<1>5. ~Positive(a) /\ ~Negative(a)
  BY <1>2 DEF Positive, Negative
<1>6. RestsOn(a, M)
  BY <1>1, <1>3, <1>4, <1>5 DEF RestsOn
<1> HIDE DEF M
<1> QED
  BY <1>1, <1>2, <1>3, <1>4, <1>6 DEF Stands

\* A pattern, an anti-pattern and a recipe by the key they were compiled for.
IsPattern(a, k, E, R, rs, state) ==
  /\ a.kind = "pattern" /\ a.approach = k[2] /\ a.maturity \in MATURITY_GRADES
  /\ a.contested = (PatternId(k[1], k[2]) \in ContestedIds(E, R, rs))
  /\ a.envelope = DerivedEnvelope(PatternId(k[1], k[2]), k[1],
                                  ApproachGroup(E, k[1], "positive", k[2]), state, None)

IsAntiPattern(a, k, E, R, rs, state, insteadOf) ==
  /\ a.kind = "anti_pattern" /\ a.approach = k[2] /\ a.maturity \in MATURITY_GRADES
  /\ a.contested = (AntiId(k[1], k[2]) \in ContestedIds(E, R, rs))
  /\ a.envelope = DerivedEnvelope(AntiId(k[1], k[2]), k[1],
                                  ApproachGroup(E, k[1], "negative", k[2]), state, insteadOf)

IsRecipe(a, k, E, state) ==
  /\ a.kind = "recipe" /\ a.steps = k[2] /\ a.maturity \in MATURITY_GRADES
  /\ a.envelope = DerivedEnvelope(RecipeId(k[1], k[2]), k[1], StepGroup(E, k[1], k[2]), state, None)

LEMMA PatternShape ==
  ASSUME NEW E, NEW R, NEW rs, NEW state, NEW a
  PROVE  a \in Patterns(E, R, rs, state) <=>
         \E k \in Specs(E, rs, "positive") :
            /\ PatternId(k[1], k[2]) \notin R
            /\ a = [kind |-> "pattern", approach |-> k[2],
                    maturity |-> Grade(ApproachGroup(E, k[1], "positive", k[2]), rs),
                    contested |-> PatternId(k[1], k[2]) \in ContestedIds(E, R, rs),
                    envelope |-> DerivedEnvelope(PatternId(k[1], k[2]), k[1],
                                   ApproachGroup(E, k[1], "positive", k[2]), state, None)]
BY DEF Patterns

LEMMA PatternKey ==
  ASSUME NEW E, NEW R, NEW rs, NEW state, NEW a \in Patterns(E, R, rs, state)
  PROVE  \E k \in Specs(E, rs, "positive") :
            PatternId(k[1], k[2]) \notin R /\ IsPattern(a, k, E, R, rs, state)
<1>1. PICK k \in Specs(E, rs, "positive") :
            /\ PatternId(k[1], k[2]) \notin R
            /\ a = [kind |-> "pattern", approach |-> k[2],
                    maturity |-> Grade(ApproachGroup(E, k[1], "positive", k[2]), rs),
                    contested |-> PatternId(k[1], k[2]) \in ContestedIds(E, R, rs),
                    envelope |-> DerivedEnvelope(PatternId(k[1], k[2]), k[1],
                                   ApproachGroup(E, k[1], "positive", k[2]), state, None)]
  BY PatternShape
<1>2. Grade(ApproachGroup(E, k[1], "positive", k[2]), rs) \in MATURITY_GRADES
  BY GradeIsMaturity
<1>3. IsPattern(a, k, E, R, rs, state)
  BY <1>1, <1>2 DEF IsPattern
<1> QED
  BY <1>1, <1>3

LEMMA AntiPatternKey ==
  ASSUME NEW E, NEW R, NEW rs, NEW state, NEW patterns, NEW recipes, NEW lessons,
         NEW a \in AntiPatterns(E, R, rs, state, patterns, recipes, lessons)
  PROVE  \E k \in Specs(E, rs, "negative") :
            /\ AntiId(k[1], k[2]) \notin R
            /\ IsAntiPattern(a, k, E, R, rs, state,
                             Alternative(k[1], k[2], E, patterns, recipes, lessons))
<1>1. PICK k \in Specs(E, rs, "negative") :
            /\ AntiId(k[1], k[2]) \notin R
            /\ a = [kind |-> "anti_pattern", approach |-> k[2],
                    maturity |-> Grade(ApproachGroup(E, k[1], "negative", k[2]), rs),
                    contested |-> AntiId(k[1], k[2]) \in ContestedIds(E, R, rs),
                    envelope |-> DerivedEnvelope(AntiId(k[1], k[2]), k[1],
                                   ApproachGroup(E, k[1], "negative", k[2]), state,
                                   Alternative(k[1], k[2], E, patterns, recipes, lessons))]
  BY DEF AntiPatterns
<1>2. Grade(ApproachGroup(E, k[1], "negative", k[2]), rs) \in MATURITY_GRADES
  BY GradeIsMaturity
<1> DEFINE insteadOf == Alternative(k[1], k[2], E, patterns, recipes, lessons)
<1> HIDE DEF insteadOf
<1>3. IsAntiPattern(a, k, E, R, rs, state, insteadOf)
  BY <1>1, <1>2 DEF IsAntiPattern, insteadOf
<1> QED
  BY <1>1, <1>3 DEF insteadOf

\* The key of a recipe is the scope and the step thread of an episode.
RecipeKeyOk(k, E, R, rs) ==
  /\ k[2] # <<>>
  /\ Cardinality(StepGroup(E, k[1], k[2])) >= rs.recipeMin
  /\ RecipeId(k[1], k[2]) \notin R

LEMMA RecipeKey ==
  ASSUME NEW E, NEW R, NEW rs, NEW state, NEW a \in Recipes(E, R, rs, state)
  PROVE  \E k \in {<<e.facets, e.approach.steps>> : e \in E} :
            RecipeKeyOk(k, E, R, rs) /\ IsRecipe(a, k, E, state)
<1>1. PICK k \in {<<e.facets, e.approach.steps>> : e \in E} :
        /\ RecipeKeyOk(k, E, R, rs)
        /\ a = [kind |-> "recipe", steps |-> k[2], maturity |-> Grade(StepGroup(E, k[1], k[2]), rs),
                envelope |-> DerivedEnvelope(RecipeId(k[1], k[2]), k[1],
                                             StepGroup(E, k[1], k[2]), state, None)]
  BY DEF Recipes, RecipeKeyOk
<1>2. Grade(StepGroup(E, k[1], k[2]), rs) \in MATURITY_GRADES
  BY GradeIsMaturity
<1>3. IsRecipe(a, k, E, state)
  BY <1>1, <1>2 DEF IsRecipe
<1> QED
  BY <1>1, <1>3

-----------------------------------------------------------------------------
(* What they rest on. *)

MinimaBuild(rs) == rs.patternMin \in Nat \ {0} /\ rs.recipeMin \in Nat \ {0}

LEMMA GroupBasic ==
  ASSUME NEW E, NEW facets, NEW polarity, NEW approach
  PROVE  /\ ApproachGroup(E, facets, polarity, approach) \subseteq E
         /\ \A m \in ApproachGroup(E, facets, polarity, approach) :
              m.facets = facets /\ polarity_of(m) = polarity /\ m.approach = approach
BY MembersBasic DEF ApproachGroup

LEMMA StepGroupBasic ==
  ASSUME NEW E, NEW facets, NEW steps
  PROVE  /\ StepGroup(E, facets, steps) \subseteq E
         /\ \A m \in StepGroup(E, facets, steps) :
              m.facets = facets /\ polarity_of(m) = "positive" /\ m.approach.steps = steps
BY MembersBasic DEF StepGroup

LEMMA SpecGroup ==
  ASSUME NEW E, NEW rs, MinimaBuild(rs), NEW polarity, NEW k \in Specs(E, rs, polarity)
  PROVE  /\ ApproachGroup(E, k[1], polarity, k[2]) # {}
         /\ \E e \in E : k = <<e.facets, e.approach>>
<1>1. Cardinality(ApproachGroup(E, k[1], polarity, k[2])) >= rs.patternMin
  BY DEF Specs
<1>2. rs.patternMin \in Nat \ {0}
  BY DEF MinimaBuild
<1>3. ApproachGroup(E, k[1], polarity, k[2]) # {}
  BY <1>1, <1>2, RecurredNotEmpty
<1>4. \E e \in E : k = <<e.facets, e.approach>>
  BY DEF Specs
<1> QED
  BY <1>3, <1>4

LEMMA PatternStands ==
  ASSUME NEW E, NEW R, NEW rs, NEW state, MinimaBuild(rs),
         NEW a, NEW k \in Specs(E, rs, "positive"),
         PatternId(k[1], k[2]) \notin R, IsPattern(a, k, E, R, rs, state)
  PROVE  Stands(a, E, R, state)
<1> DEFINE M == ApproachGroup(E, k[1], "positive", k[2])
<1>1. M # {} /\ M \subseteq E /\ \A m \in M : m.facets = k[1] /\ polarity_of(m) = "positive"
  BY SpecGroup, GroupBasic
<1>2. /\ a.envelope.identity = PatternId(k[1], k[2]) /\ a.envelope.facets = k[1]
      /\ a.envelope.cites = {m.id : m \in M} /\ a.envelope.state = state
  BY EnvelopeFields DEF IsPattern
<1>3. ~Negative(a)
  BY DEF IsPattern, Negative
<1> HIDE DEF M
<1>4. RestsOn(a, M)
  BY <1>1, <1>2, <1>3 DEF RestsOn
<1> QED
  BY <1>1, <1>2, <1>4 DEF Stands

LEMMA AntiPatternStands ==
  ASSUME NEW E, NEW R, NEW rs, NEW state, MinimaBuild(rs), NEW insteadOf,
         NEW a, NEW k \in Specs(E, rs, "negative"),
         AntiId(k[1], k[2]) \notin R, IsAntiPattern(a, k, E, R, rs, state, insteadOf)
  PROVE  Stands(a, E, R, state)
<1> DEFINE M == ApproachGroup(E, k[1], "negative", k[2])
<1>1. M # {} /\ M \subseteq E /\ \A m \in M : m.facets = k[1] /\ polarity_of(m) = "negative"
  BY SpecGroup, GroupBasic
<1>2. /\ a.envelope.identity = AntiId(k[1], k[2]) /\ a.envelope.facets = k[1]
      /\ a.envelope.cites = {m.id : m \in M} /\ a.envelope.state = state
  BY EnvelopeFields DEF IsAntiPattern
<1>3. ~Positive(a)
  BY DEF IsAntiPattern, Positive
<1> HIDE DEF M
<1>4. RestsOn(a, M)
  BY <1>1, <1>2, <1>3 DEF RestsOn
<1> QED
  BY <1>1, <1>2, <1>4 DEF Stands

LEMMA RecipeStands ==
  ASSUME NEW E, NEW R, NEW rs, NEW state, MinimaBuild(rs), NEW a, NEW k,
         RecipeKeyOk(k, E, R, rs), IsRecipe(a, k, E, state)
  PROVE  Stands(a, E, R, state)
<1> DEFINE M == StepGroup(E, k[1], k[2])
<1>1. M # {}
  BY RecurredNotEmpty DEF RecipeKeyOk, MinimaBuild
<1>2. M \subseteq E /\ \A m \in M : m.facets = k[1] /\ polarity_of(m) = "positive"
  BY StepGroupBasic
<1>3. /\ a.envelope.identity = RecipeId(k[1], k[2]) /\ a.envelope.facets = k[1]
      /\ a.envelope.cites = {m.id : m \in M} /\ a.envelope.state = state
  BY EnvelopeFields DEF IsRecipe
<1>4. ~Negative(a) /\ RecipeId(k[1], k[2]) \notin R
  BY DEF IsRecipe, Negative, RecipeKeyOk
<1> HIDE DEF M
<1>5. RestsOn(a, M)
  BY <1>1, <1>2, <1>3, <1>4 DEF RestsOn
<1> QED
  BY <1>2, <1>3, <1>4, <1>5 DEF Stands
\* The core artifacts, whatever their kind.
LEMMA CoreStands ==
  ASSUME NEW E, NEW R, NEW rs, NEW state, MinimaBuild(rs), NEW a \in Core(E, R, rs, state)
  PROVE  Stands(a, E, R, state)
<1>1. CASE a \in Lessons(E, R, rs, state)
  BY <1>1, LessonStands
<1>2. CASE a \in Patterns(E, R, rs, state)
  BY <1>2, PatternKey, PatternStands
<1>3. CASE a \in Recipes(E, R, rs, state)
  BY <1>3, RecipeKey, RecipeStands
<1>4. ASSUME a \in AntiPatterns(E, R, rs, state, Patterns(E, R, rs, state),
                                Recipes(E, R, rs, state), Lessons(E, R, rs, state))
      PROVE  Stands(a, E, R, state)
  BY <1>4, AntiPatternKey, AntiPatternStands
<1> QED
  BY <1>1, <1>2, <1>3, <1>4 DEF Core

-----------------------------------------------------------------------------
(* No builder refuses a derived artifact. *)

LEMMA StandingEnvelopeBuilds ==
  ASSUME NEW E, NEW R, NEW state, NEW a, Stands(a, E, R, state), EpisodesBuild(E), StateBuilds(state)
  PROVE  DerivedEnvelopeBuilds(a.envelope)
<1>1. PICK M \in SUBSET E : RestsOn(a, M)
  BY DEF Stands
<1>2. PICK m \in M : m.facets = a.envelope.facets
  BY <1>1 DEF RestsOn
<1>3. m.id \in a.envelope.cites
  BY <1>1 DEF RestsOn
<1>4. m.facets # {}
  BY DEF EpisodesBuild, EnvelopeBuilds
<1> QED
  BY <1>2, <1>3, <1>4 DEF DerivedEnvelopeBuilds, StateBuilds, Stands

LEMMA CoreBuilds ==
  ASSUME NEW E, NEW R, NEW rs, NEW state, MinimaBuild(rs), EpisodesBuild(E), StateBuilds(state),
         NEW a \in Core(E, R, rs, state)
  PROVE  DerivedBuilds(a)
<1>1. DerivedEnvelopeBuilds(a.envelope)
  BY CoreStands, StandingEnvelopeBuilds
<1>2. CASE a \in Lessons(E, R, rs, state)
  BY <1>1, <1>2, LessonStands DEF DerivedBuilds
<1>3. CASE a \in Patterns(E, R, rs, state)
  <2>1. PICK k \in Specs(E, rs, "positive") : IsPattern(a, k, E, R, rs, state)
    BY <1>3, PatternKey
  <2>2. PICK e \in E : k = <<e.facets, e.approach>>
    BY SpecGroup
  <2>3. a.kind = "pattern" /\ a.maturity \in MATURITY_GRADES /\ PatternBuilds(a)
    BY <2>1, <2>2 DEF IsPattern, PatternBuilds, EpisodesBuild, EpisodeBuilds
  <2> QED
    BY <1>1, <2>3 DEF DerivedBuilds
<1>4. CASE a \in Recipes(E, R, rs, state)
  <2>1. PICK k \in {<<e.facets, e.approach.steps>> : e \in E} :
          RecipeKeyOk(k, E, R, rs) /\ IsRecipe(a, k, E, state)
    BY <1>4, RecipeKey
  <2>2. a.kind = "recipe" /\ a.maturity \in MATURITY_GRADES /\ RecipeBuilds(a)
    BY <2>1 DEF IsRecipe, RecipeKeyOk, RecipeBuilds
  <2> QED
    BY <1>1, <2>2 DEF DerivedBuilds
<1>5. ASSUME a \in AntiPatterns(E, R, rs, state, Patterns(E, R, rs, state),
                                Recipes(E, R, rs, state), Lessons(E, R, rs, state))
      PROVE  DerivedBuilds(a)
  <2> DEFINE insteadOf(k) == Alternative(k[1], k[2], E, Patterns(E, R, rs, state),
                                         Recipes(E, R, rs, state), Lessons(E, R, rs, state))
  <2>1. PICK k \in Specs(E, rs, "negative") : IsAntiPattern(a, k, E, R, rs, state, insteadOf(k))
    BY <1>5, AntiPatternKey
  <2> HIDE DEF insteadOf
  <2>2. PICK e \in E : k = <<e.facets, e.approach>>
    BY SpecGroup
  <2>3. a.kind = "anti_pattern" /\ a.maturity \in MATURITY_GRADES /\ PatternBuilds(a)
    BY <2>1, <2>2 DEF IsAntiPattern, PatternBuilds, EpisodesBuild, EpisodeBuilds
  <2> QED
    BY <1>1, <2>3 DEF DerivedBuilds
<1> QED
  BY <1>2, <1>3, <1>4, <1>5 DEF Core

IsDossier(a, p, E, D, state) ==
  /\ a.kind = "project_dossier" /\ a.maturity \in MATURITY_GRADES
  /\ a.envelope = DerivedEnvelope(<<"dossier", p>>, ProjectSignature(E, D, p),
                                  {e \in E : e.project = p}, state, None)
  /\ \A rel \in a.relationships : rel[1] \in Projects(E) /\ rel[2] # {}

LEMMA DossierFields ==
  ASSUME NEW E, NEW D, NEW R, NEW rs, NEW state, NEW lessons,
         NEW a \in Dossiers(E, D, R, rs, state, lessons)
  PROVE  \E p \in Projects(E) : IsDossier(a, p, E, D, state)
<1> DEFINE eps(p) == {e \in E : e.project = p}
           profile(p) == ProjectSignature(E, D, p)
           near(p) == {<<o, profile(p) \cap profile(o)>> :
                         o \in {q \in Projects(E) \ {p} : profile(p) \cap profile(q) # {}}}
           decided(p) == {d.id : d \in {c \in D : c.project = p}}
           episodes(p) == {e.id : e \in eps(p)}
           taught(p) == Identities({l \in lessons : l.envelope.cites \cap {e.id : e \in eps(p)} # {}})
<1>1. PICK p \in Projects(E) :
        a = [kind |-> "project_dossier", maturity |-> Grade(eps(p), rs),
             decisionRefs |-> decided(p), episodeRefs |-> episodes(p), lessonRefs |-> taught(p),
             relationships |-> near(p),
             envelope |-> DerivedEnvelope(<<"dossier", p>>, profile(p), eps(p), state, None)]
  BY DEF Dossiers
<1>2. \A rel \in near(p) : rel[1] \in Projects(E) /\ rel[2] # {}
  OBVIOUS
<1>3. Grade(eps(p), rs) \in MATURITY_GRADES
  BY GradeIsMaturity
<1> HIDE DEF near, decided, episodes, taught, eps, profile
<1>4. /\ a.kind = "project_dossier" /\ a.maturity \in MATURITY_GRADES
      /\ a.envelope = DerivedEnvelope(<<"dossier", p>>, profile(p), eps(p), state, None)
      /\ a.relationships = near(p)
  BY <1>1, <1>3
<1>5. \A rel \in a.relationships : rel[1] \in Projects(E) /\ rel[2] # {}
  BY <1>2, <1>4
<1>6. IsDossier(a, p, E, D, state)
  BY <1>4, <1>5 DEF IsDossier, eps, profile
<1> QED
  BY <1>6

LEMMA DossierBuildsAll ==
  ASSUME NEW E, NEW D, NEW R, NEW rs, NEW state, NEW lessons, EpisodesBuild(E), StateBuilds(state),
         NEW a \in Dossiers(E, D, R, rs, state, lessons)
  PROVE  DerivedBuilds(a) /\ a.kind = "project_dossier" /\ a.envelope.state = state
<1>1. PICK p \in Projects(E) : IsDossier(a, p, E, D, state)
  BY DossierFields
<1>2. PICK e \in E : e.project = p
  BY DEF Projects
<1>3. e.facets # {} /\ e.facets \subseteq ProjectSignature(E, D, p)
  BY <1>2 DEF ProjectSignature, EpisodesBuild, EnvelopeBuilds
<1>4. /\ a.envelope.facets = ProjectSignature(E, D, p) /\ a.envelope.state = state
      /\ a.envelope.cites = {m.id : m \in {x \in E : x.project = p}}
  BY <1>1, EnvelopeFields DEF IsDossier
<1>5. a.envelope.facets # {} /\ e.id \in a.envelope.cites
  BY <1>2, <1>3, <1>4
<1>6. DerivedEnvelopeBuilds(a.envelope)
  BY <1>4, <1>5 DEF DerivedEnvelopeBuilds, StateBuilds
<1>7. \A o \in Projects(E) : o # ""
  BY DEF Projects, EpisodesBuild, EnvelopeBuilds
<1>8. DossierBuilds(a)
  BY <1>1, <1>7 DEF DossierBuilds, RelationshipBuilds, IsDossier
<1> QED
  BY <1>1, <1>4, <1>6, <1>8 DEF DerivedBuilds, IsDossier

PacksBuild(rs) == \A name \in DOMAIN rs.packs : rs.packs[name] # {}

LEMMA PackBuildsAll ==
  ASSUME NEW E, NEW R, NEW rs, NEW state, NEW core, EpisodesBuild(E), StateBuilds(state),
         PacksBuild(rs), \A b \in core : Stands(b, E, R, state),
         NEW a \in Packs(E, R, rs, state, core)
  PROVE  DerivedBuilds(a) /\ a.kind = "domain_knowledge_pack" /\ a.envelope.state = state
<1> DEFINE inScope(n) == {b \in core : b.envelope.facets \subseteq rs.packs[n]}
           measured(n) == {e \in E : e.measured /\ e.facets \subseteq rs.packs[n]}
           cited(n) == {e \in E : \E b \in inScope(n) : e.id \in b.envelope.cites}
           evidence(n) == measured(n) \cup cited(n)
           refs(n) == Identities(inScope(n)) \cup {e.id : e \in measured(n)}
<1>1. PICK n \in DOMAIN rs.packs :
        /\ inScope(n) \cup measured(n) # {}
        /\ a = [kind |-> "domain_knowledge_pack", maturity |-> Grade(evidence(n), rs),
                memberRefs |-> refs(n),
                envelope |-> DerivedEnvelope(<<"pack", n>>, rs.packs[n], evidence(n), state, None)]
  BY DEF Packs
<1>2. \A b \in inScope(n) : \E m \in E : m.id \in b.envelope.cites
  BY DEF Stands, RestsOn
<1>3. evidence(n) # {}
  <2>1. CASE measured(n) # {}
    BY <2>1
  <2>2. CASE inScope(n) # {}
    BY <1>2, <2>2
  <2> QED
    BY <1>1, <2>1, <2>2
<1>4. refs(n) # {}
  <2>1. CASE measured(n) # {}
    BY <2>1
  <2>2. CASE inScope(n) # {}
    BY <2>2 DEF Identities
  <2> QED
    BY <1>1, <2>1, <2>2
<1> HIDE DEF inScope, measured, cited, evidence, refs
<1>5. Grade(evidence(n), rs) \in MATURITY_GRADES
  BY GradeIsMaturity
<1>6. /\ a.kind = "domain_knowledge_pack" /\ a.maturity \in MATURITY_GRADES /\ PackBuilds(a)
      /\ a.envelope = DerivedEnvelope(<<"pack", n>>, rs.packs[n], evidence(n), state, None)
  BY <1>1, <1>4, <1>5 DEF PackBuilds
<1>7. /\ a.envelope.facets = rs.packs[n] /\ a.envelope.state = state
      /\ a.envelope.cites = {m.id : m \in evidence(n)}
  BY <1>6, EnvelopeFields
<1>8. a.envelope.cites # {} /\ a.envelope.facets # {}
  BY <1>3, <1>7 DEF PacksBuild
<1>9. DerivedEnvelopeBuilds(a.envelope)
  BY <1>7, <1>8 DEF DerivedEnvelopeBuilds, StateBuilds
<1> QED
  BY <1>6, <1>7, <1>9 DEF DerivedBuilds
-----------------------------------------------------------------------------
(* The layer that regenerate returns. *)

EpisodesOf(l, o) == Weighed(ToSet(l), ToSet(o), "episode")
DecisionsOf(l, o) == Weighed(ToSet(l), ToSet(o), "decision")
AgainstOf(o) == RuledAgainst(ToSet(o))
StateOf(l, o, rs) == [ledger |-> Len(l), overlay |-> Len(o), ruleset |-> rs.version]
CoreOf(l, o, rs) == Core(EpisodesOf(l, o), AgainstOf(o), rs, StateOf(l, o, rs))

LEMMA LayerParts ==
  ASSUME NEW l, NEW o, NEW rs
  PROVE  /\ regenerate(l, o, rs).state = StateOf(l, o, rs)
         /\ regenerate(l, o, rs).artifacts =
              CoreOf(l, o, rs)
              \cup Dossiers(EpisodesOf(l, o), DecisionsOf(l, o), AgainstOf(o), rs, StateOf(l, o, rs),
                            Lessons(EpisodesOf(l, o), AgainstOf(o), rs, StateOf(l, o, rs)))
              \cup Packs(EpisodesOf(l, o), AgainstOf(o), rs, StateOf(l, o, rs), CoreOf(l, o, rs))
BY DEF regenerate, CoreOf, StateOf, EpisodesOf, DecisionsOf, AgainstOf

LEMMA EpisodesOfBasic ==
  ASSUME NEW l \in Seq(Records), NEW o
  PROVE  /\ EpisodesBuild(EpisodesOf(l, o))
         /\ \A e \in EpisodesOf(l, o) :
              e \in ToSet(l) /\ e.kind = "episode" /\ e.id \notin ExcludedIds(ToSet(o))
<1>1. ToSet(l) \subseteq Records
  BY DEF ToSet
<1>2. \A e \in EpisodesOf(l, o) :
        e \in ToSet(l) /\ e.kind = "episode" /\ e.id \notin ExcludedIds(ToSet(o))
  BY DEF EpisodesOf, Weighed
<1>3. \A e \in EpisodesOf(l, o) : EnvelopeBuilds(e) /\ EpisodeBuilds(e)
  BY <1>1, <1>2, InputsBuild DEF RecordBuilds, DecisionBuilds
<1> QED
  BY <1>2, <1>3 DEF EpisodesBuild

LEMMA RulesetMinima ==
  ASSUME NEW rs, RulesetBuilds(rs)
  PROVE  MinimaBuild(rs) /\ PacksBuild(rs) /\ rs.version \in Nat \ {0}
BY DEF RulesetBuilds, MinimaBuild, PacksBuild

\* Every artifact of a layer builds and carries the layer's state, and what is
\* advice is a core artifact.
LEMMA LayerArtifacts ==
  ASSUME NEW l \in Seq(Records), NEW o \in Seq(Rulings), NEW rs, RulesetBuilds(rs),
         NEW a \in regenerate(l, o, rs).artifacts
  PROVE  /\ DerivedBuilds(a)
         /\ a.envelope.state = StateOf(l, o, rs)
         /\ a \in CoreOf(l, o, rs) \/ a.kind = "project_dossier" \/ a.kind = "domain_knowledge_pack"
<1> DEFINE E == EpisodesOf(l, o)
           R == AgainstOf(o)
           state == StateOf(l, o, rs)
           lessons == Lessons(E, R, rs, state)
<1>1. EpisodesBuild(E) /\ MinimaBuild(rs) /\ PacksBuild(rs)
  BY EpisodesOfBasic, RulesetMinima
<1>2. StateBuilds(state)
  <2>1. Len(l) \in Nat /\ Len(o) \in Nat /\ rs.version \in Nat
    BY RulesetMinima
  <2> QED
    BY <2>1 DEF StateBuilds, StateOf
<1>3. \A b \in CoreOf(l, o, rs) : Stands(b, E, R, state)
  BY <1>1, CoreStands DEF CoreOf
<1> HIDE DEF E, R, state, lessons
<1>4. CASE a \in CoreOf(l, o, rs)
  <2>1. DerivedBuilds(a)
    BY <1>1, <1>2, <1>4, CoreBuilds DEF CoreOf, E, R, state
  <2>2. a.envelope.state = state
    BY <1>3, <1>4 DEF Stands
  <2> QED
    BY <1>4, <2>1, <2>2 DEF state
<1>5. CASE a \in Dossiers(E, DecisionsOf(l, o), R, rs, state, lessons)
  BY <1>1, <1>2, <1>5, DossierBuildsAll DEF state
<1>6. CASE a \in Packs(E, R, rs, state, CoreOf(l, o, rs))
  BY <1>1, <1>2, <1>3, <1>6, PackBuildsAll DEF state
<1> QED
  BY <1>4, <1>5, <1>6, LayerParts DEF E, R, state, lessons

LEMMA AdviceIsCore ==
  ASSUME NEW l \in Seq(Records), NEW o \in Seq(Rulings), NEW rs, RulesetBuilds(rs),
         NEW a \in Advice(regenerate(l, o, rs))
  PROVE  /\ a \in CoreOf(l, o, rs)
         /\ Stands(a, EpisodesOf(l, o), AgainstOf(o), StateOf(l, o, rs))
<1>1. a \in regenerate(l, o, rs).artifacts /\ a.kind \in AdviceKinds
  BY DEF Advice
<1>2. a \in CoreOf(l, o, rs)
  BY <1>1, LayerArtifacts DEF AdviceKinds
<1>3. MinimaBuild(rs)
  BY RulesetMinima
<1> QED
  BY <1>2, <1>3, CoreStands DEF CoreOf

-----------------------------------------------------------------------------
(* The inductive invariant. *)

TypeInv == ledger \in Seq(Records) /\ overlay \in Seq(Rulings)

\* Every entry's attestation is in the Gate's index, an index that only names
\* entries, and every answer given is still what the index says.
GateInv ==
  /\ \A i \in DOMAIN ledger : ledger[i].closed /\ ledger[i].ref \in DOMAIN admittedBy
  /\ \A ref \in DOMAIN admittedBy : admittedBy[ref] \in DOMAIN ledger
  /\ \A i, j \in DOMAIN ledger :
       ledger[i].ref = ledger[j].ref \/ ledger[i].id = ledger[j].id => i = j
  /\ \A a \in answers : a[1] \in DOMAIN admittedBy /\ a = <<a[1], admittedBy[a[1]]>>

\* A version names one ruleset for good: a new one is above all others.
RulesInv ==
  /\ \A v \in DOMAIN rulesets : RulesetBuilds(rulesets[v]) /\ rulesets[v].version = v
  /\ \E v \in DOMAIN rulesets : v \in Nat /\ \A w \in DOMAIN rulesets : w <= v
  /\ current.version \in DOMAIN rulesets /\ rulesets[current.version] = current

\* What the published layer was compiled from.
CompiledFrom(l, o, rs) == layer = regenerate(l, o, rs) /\ Compilable(ToSet(l), ToSet(o))

LayerInv ==
  layer # None =>
    /\ layer.state.ledger \in 0..Len(ledger)
    /\ layer.state.overlay \in 0..Len(overlay)
    /\ layer.state.ruleset \in DOMAIN rulesets
    /\ CompiledFrom(SubSeq(ledger, 1, layer.state.ledger), SubSeq(overlay, 1, layer.state.overlay),
                    rulesets[layer.state.ruleset])

IInv == TypeInv /\ GateInv /\ RulesInv /\ LayerInv /\ PublicationHeals

LEMMA InitIInv == Init => IInv
<1> SUFFICES ASSUME Init PROVE IInv
  OBVIOUS
<1>1. TypeInv
  BY DEF Init, TypeInv
<1>2. GateInv
  BY DEF Init, GateInv
<1>3. RulesInv
  <2>1. RulesetBuilds(FirstRuleset) /\ FirstRuleset.version \in Nat
    BY InputsBuild, RulesetMinima
  <2>2. /\ DOMAIN rulesets = {FirstRuleset.version}
        /\ rulesets[FirstRuleset.version] = FirstRuleset /\ current = FirstRuleset
    BY DEF Init
  <2> QED
    BY <2>1, <2>2 DEF RulesInv
<1>4. LayerInv /\ PublicationHeals
  BY DEF Init, LayerInv, PublicationHeals
<1> QED
  BY <1>1, <1>2, <1>3, <1>4 DEF IInv
-----------------------------------------------------------------------------
(* The Gate. *)

LEMMA DedupedGate == ASSUME GateInv, NEW r \in Records, AdmitDeduped(r) PROVE GateInv'
BY DEF GateInv, AdmitDeduped, Answer

LEMMA PositionFound ==
  ASSUME NEW id, Durable(id)
  PROVE  PositionOf(id) \in DOMAIN ledger /\ ledger[PositionOf(id)].id = id
BY DEF Durable, PositionOf

LEMMA KnownIdentityGate == ASSUME GateInv, NEW r \in Records, AdmitKnownIdentity(r) PROVE GateInv'
<1>1. PositionOf(r.id) \in DOMAIN ledger
  BY PositionFound DEF AdmitKnownIdentity
<1>2. PICK p : p = PositionOf(r.id)
  OBVIOUS
<1>3. /\ DOMAIN admittedBy' = DOMAIN admittedBy \cup {r.ref} /\ admittedBy'[r.ref] = p
      /\ \A ref \in DOMAIN admittedBy : ref # r.ref /\ admittedBy'[ref] = admittedBy[ref]
  BY <1>2 DEF AdmitKnownIdentity, Put
<1>4. answers' = answers \cup {<<r.ref, p>>} /\ ledger' = ledger /\ p \in DOMAIN ledger
  BY <1>1, <1>2 DEF AdmitKnownIdentity, Answer
<1>5. \A a \in answers' : a[1] \in DOMAIN admittedBy' /\ a = <<a[1], admittedBy'[a[1]]>>
  BY <1>3, <1>4 DEF GateInv
<1> QED
  BY <1>3, <1>4, <1>5 DEF GateInv

LEMMA NewGate == ASSUME TypeInv, GateInv, NEW r \in Records, AdmitNew(r) PROVE GateInv'
<1> DEFINE p == Len(ledger) + 1
<1>1. ledger \in Seq(Records)
  BY DEF TypeInv
<1>2. ledger' = Append(ledger, r) /\ r.closed /\ r.ref \notin DOMAIN admittedBy /\ ~Durable(r.id)
  BY DEF AdmitNew, Acceptable
<1>3. /\ DOMAIN ledger' = DOMAIN ledger \cup {p} /\ p \notin DOMAIN ledger /\ ledger'[p] = r
      /\ \A i \in DOMAIN ledger : ledger'[i] = ledger[i]
  BY <1>1, <1>2, AppendProperties
<1>4. /\ DOMAIN admittedBy' = DOMAIN admittedBy \cup {r.ref} /\ admittedBy'[r.ref] = p
      /\ \A ref \in DOMAIN admittedBy : ref # r.ref /\ admittedBy'[ref] = admittedBy[ref]
  BY <1>2 DEF AdmitNew, Put
<1>5. answers' = answers \cup {<<r.ref, p>>}
  BY DEF AdmitNew, Answer
<1> HIDE DEF p
<1>6. \A i \in DOMAIN ledger : ledger[i].ref # r.ref /\ ledger[i].id # r.id
  BY <1>2 DEF GateInv, Durable
<1>7. \A i \in DOMAIN ledger' : ledger'[i].closed /\ ledger'[i].ref \in DOMAIN admittedBy'
  BY <1>2, <1>3, <1>4 DEF GateInv
<1>8. \A ref \in DOMAIN admittedBy' : admittedBy'[ref] \in DOMAIN ledger'
  BY <1>3, <1>4 DEF GateInv
<1>9. \A i, j \in DOMAIN ledger' :
        ledger'[i].ref = ledger'[j].ref \/ ledger'[i].id = ledger'[j].id => i = j
  BY <1>3, <1>6 DEF GateInv
<1>10. \A a \in answers' : a[1] \in DOMAIN admittedBy' /\ a = <<a[1], admittedBy'[a[1]]>>
  BY <1>4, <1>5 DEF GateInv
<1> QED
  BY <1>7, <1>8, <1>9, <1>10 DEF GateInv

-----------------------------------------------------------------------------
(* What the layer was compiled from stays in place. *)

\* The ledger and the overlay keep every prefix a layer can name, and every
\* version keeps its ruleset.
Kept ==
  /\ Len(ledger) <= Len(ledger') /\ Len(overlay) <= Len(overlay')
  /\ \A n \in 0..Len(ledger) : SubSeq(ledger', 1, n) = SubSeq(ledger, 1, n)
  /\ \A n \in 0..Len(overlay) : SubSeq(overlay', 1, n) = SubSeq(overlay, 1, n)
  /\ \A v \in DOMAIN rulesets : v \in DOMAIN rulesets' /\ rulesets'[v] = rulesets[v]

LEMMA KeptLayer ==
  ASSUME TypeInv, TypeInv', LayerInv, Kept, UNCHANGED advisoryVars
  PROVE  LayerInv'
<1> SUFFICES ASSUME layer' # None PROVE LayerInv'
  BY DEF LayerInv
<1>1. layer' = layer /\ layer # None
  BY DEF advisoryVars
<1> DEFINE n == layer.state.ledger
           m == layer.state.overlay
           v == layer.state.ruleset
<1>2. n \in 0..Len(ledger) /\ m \in 0..Len(overlay) /\ v \in DOMAIN rulesets
  BY <1>1 DEF LayerInv
<1>3. CompiledFrom(SubSeq(ledger, 1, n), SubSeq(overlay, 1, m), rulesets[v])
  BY <1>1 DEF LayerInv
<1>4. layer'.state.ledger = n /\ layer'.state.overlay = m /\ layer'.state.ruleset = v
  BY <1>1
<1> HIDE DEF n, m, v
<1>5. n \in 0..Len(ledger') /\ m \in 0..Len(overlay') /\ v \in DOMAIN rulesets'
  <2>1. Len(ledger) \in Nat /\ Len(ledger') \in Nat /\ Len(overlay) \in Nat /\ Len(overlay') \in Nat
    BY DEF TypeInv
  <2> QED
    BY <1>2, <2>1 DEF Kept
<1>6. /\ SubSeq(ledger', 1, n) = SubSeq(ledger, 1, n) /\ SubSeq(overlay', 1, m) = SubSeq(overlay, 1, m)
      /\ rulesets'[v] = rulesets[v]
  BY <1>2 DEF Kept
<1>7. /\ layer' = regenerate(SubSeq(ledger', 1, n), SubSeq(overlay', 1, m), rulesets'[v])
      /\ Compilable(ToSet(SubSeq(ledger', 1, n)), ToSet(SubSeq(overlay', 1, m)))
  BY <1>1, <1>3, <1>6 DEF CompiledFrom
<1> QED
  BY <1>4, <1>5, <1>7 DEF LayerInv, CompiledFrom

LEMMA UnpublishedHeals == ASSUME PublicationHeals, UNCHANGED advisoryVars PROVE PublicationHeals'
BY DEF PublicationHeals, advisoryVars, Advice, Announcement

LEMMA SameKept ==
  ASSUME TypeInv, UNCHANGED <<ledger, overlay, rulesets>>
  PROVE  Kept /\ TypeInv'
BY DEF Kept, TypeInv

LEMMA AppendKept ==
  ASSUME NEW S, NEW s \in Seq(S), NEW e \in S
  PROVE  /\ Len(s) <= Len(Append(s, e))
         /\ \A n \in 0..Len(s) : SubSeq(Append(s, e), 1, n) = SubSeq(s, 1, n)
BY PrefixKept

LEMMA AdmitIInv == ASSUME IInv, NEW r \in Records, Admit(r) PROVE IInv'
<1> USE DEF IInv
<1>1. UNCHANGED <<overlay, rulesets, current>> /\ UNCHANGED advisoryVars
  BY DEF Admit, curatorVars
<1>2. GateInv'
  BY DedupedGate, KnownIdentityGate, NewGate DEF Admit
<1>3. Kept /\ TypeInv'
  <2>1. CASE ledger' = ledger
    BY <1>1, <2>1, SameKept
  <2>2. CASE ledger' = Append(ledger, r)
    BY <1>1, <2>2, AppendKept DEF Kept, TypeInv
  <2> QED
    BY <2>1, <2>2 DEF Admit, AdmitDeduped, AdmitKnownIdentity, AdmitNew
<1>4. LayerInv' /\ PublicationHeals'
  BY <1>1, <1>3, KeptLayer, UnpublishedHeals
<1>5. RulesInv'
  BY <1>1 DEF RulesInv
<1> QED
  BY <1>2, <1>3, <1>4, <1>5

LEMMA GateUnchanged == ASSUME GateInv, UNCHANGED gateVars PROVE GateInv'
BY DEF GateInv, gateVars

LEMMA RuleIInv == ASSUME IInv, NEW a \in Rulings, Rule(a) PROVE IInv'
<1> USE DEF IInv
<1>1. /\ UNCHANGED gateVars /\ UNCHANGED advisoryVars /\ UNCHANGED <<ledger, rulesets, current>>
      /\ overlay' = Append(overlay, a)
  BY DEF Rule, gateVars
<1>2. Kept /\ TypeInv'
  BY <1>1, AppendKept DEF Kept, TypeInv
<1>3. RulesInv'
  BY <1>1 DEF RulesInv
<1> QED
  BY <1>1, <1>2, <1>3, GateUnchanged, KeptLayer, UnpublishedHeals

LEMMA VersionIsNew ==
  ASSUME RulesInv, NEW rs \in Rulesets, rs.version > CurrentVersion
  PROVE  rs.version \in Nat /\ \A w \in DOMAIN rulesets : w <= rs.version /\ w # rs.version
<1>1. CurrentVersion \in DOMAIN rulesets /\ \A w \in DOMAIN rulesets : w <= CurrentVersion
  BY DEF RulesInv, CurrentVersion
<1>2. \A w \in DOMAIN rulesets : w \in Nat
  BY RulesetMinima DEF RulesInv
<1>3. rs.version \in Nat
  BY InputsBuild, RulesetMinima
<1> HIDE DEF CurrentVersion
<1> QED
  BY <1>1, <1>2, <1>3

LEMMA AdoptRulesetIInv == ASSUME IInv, NEW rs \in Rulesets, AdoptRuleset(rs) PROVE IInv'
<1> USE DEF IInv
<1>1. /\ UNCHANGED gateVars /\ UNCHANGED advisoryVars /\ UNCHANGED <<ledger, overlay, current>>
      /\ rulesets' = Put(rulesets, rs.version, rs)
  BY DEF AdoptRuleset, gateVars
<1>2. rs.version \in Nat /\ \A w \in DOMAIN rulesets : w <= rs.version /\ w # rs.version
  BY VersionIsNew DEF AdoptRuleset
<1>3. /\ DOMAIN rulesets' = DOMAIN rulesets \cup {rs.version} /\ rulesets'[rs.version] = rs
      /\ \A v \in DOMAIN rulesets : rulesets'[v] = rulesets[v]
  BY <1>1, <1>2 DEF Put
<1>4. TypeInv' /\ Kept
  BY <1>1, <1>3 DEF TypeInv, Kept
<1>5. RulesetBuilds(rs)
  BY InputsBuild
<1>6. \A v \in DOMAIN rulesets' : RulesetBuilds(rulesets'[v]) /\ rulesets'[v].version = v
  BY <1>3, <1>5 DEF RulesInv
<1>7. \A w \in DOMAIN rulesets' : w <= rs.version
  BY <1>2, <1>3
<1>8. current' = current /\ current.version \in DOMAIN rulesets' /\ rulesets'[current.version] = current
  BY <1>1, <1>3 DEF RulesInv
<1>9. RulesInv'
  BY <1>2, <1>3, <1>6, <1>7, <1>8 DEF RulesInv
<1> QED
  BY <1>1, <1>4, <1>9, GateUnchanged, KeptLayer, UnpublishedHeals
-----------------------------------------------------------------------------
(* Publication. *)

\* An artifact left out of the announcements is one the layer before held, of
\* the same state, and its announcement is kept.
LEMMA PublishHeals ==
  ASSUME TypeInv, RulesInv, LayerInv, PublicationHeals, NEW rs, RulesetBuilds(rs),
         PublishRegenerated(rs)
  PROVE  PublicationHeals'
<1> DEFINE new == regenerate(ledger, overlay, rs)
           changed == ChangedAdvice(layer, new)
<1>1. /\ layer' = new
      /\ \/ announced' = Sent(changed, new.state) /\ cutShort' = cutShort
         \/ cutShort' = new.state
  BY DEF PublishRegenerated, Publish
<1> SUFFICES ASSUME layer' # None, layer'.state # cutShort', NEW a \in Advice(layer)'
             PROVE  (Announcement(a, layer.state) \in announced)'
  BY DEF PublicationHeals
<1>2. announced' = Sent(changed, new.state) /\ cutShort' = cutShort /\ new.state # cutShort
  BY <1>1
<1>3. a \in Advice(new)
  BY <1>1 DEF Advice
<1>4. a.envelope.state = new.state
  <2>1. a \in regenerate(ledger, overlay, rs).artifacts
    BY <1>3 DEF Advice
  <2> QED
    BY <2>1, LayerArtifacts, LayerParts DEF TypeInv
<1> HIDE DEF new
<1>5. CASE a \in changed
  BY <1>1, <1>2, <1>5 DEF Sent, Announcement
<1>6. CASE a \notin changed
  <2>1. layer # None /\ a \in layer.artifacts
    BY <1>3, <1>6 DEF ChangedAdvice
  <2>2. a \in Advice(layer)
    BY <1>3, <2>1 DEF Advice
  <2>3. PICK l, o, r0 :
          /\ l \in Seq(Records) /\ o \in Seq(Rulings) /\ RulesetBuilds(r0)
          /\ layer = regenerate(l, o, r0)
    <3>1. /\ layer.state.ledger \in 0..Len(ledger) /\ layer.state.overlay \in 0..Len(overlay)
          /\ layer.state.ruleset \in DOMAIN rulesets
          /\ layer = regenerate(SubSeq(ledger, 1, layer.state.ledger),
                                SubSeq(overlay, 1, layer.state.overlay), rulesets[layer.state.ruleset])
      BY <2>1 DEF LayerInv, CompiledFrom
    <3>2. SubSeq(ledger, 1, layer.state.ledger) \in Seq(Records)
      BY <3>1 DEF TypeInv
    <3>3. SubSeq(overlay, 1, layer.state.overlay) \in Seq(Rulings)
      BY <3>1 DEF TypeInv
    <3>4. RulesetBuilds(rulesets[layer.state.ruleset])
      BY <3>1 DEF RulesInv
    <3> QED
      BY <3>1, <3>2, <3>3, <3>4
  <2>4. a.envelope.state = layer.state
    BY <2>1, <2>3, LayerArtifacts, LayerParts
  <2>5. Announcement(a, layer.state) \in announced
    BY <1>2, <1>4, <2>1, <2>2, <2>4 DEF PublicationHeals
  <2> QED
    BY <1>1, <1>2, <1>4, <2>4, <2>5 DEF Sent, Announcement
<1> QED
  BY <1>5, <1>6

LEMMA PublishLayer ==
  ASSUME TypeInv, RulesInv, NEW rs, RulesetBuilds(rs),
         rs.version \in DOMAIN rulesets, rulesets[rs.version] = rs,
         Compiles(rs), PublishRegenerated(rs), UNCHANGED <<ledger, overlay, rulesets>>
  PROVE  LayerInv'
<1>1. layer' = regenerate(ledger, overlay, rs)
  BY DEF PublishRegenerated, Publish
<1>2. layer'.state = StateOf(ledger, overlay, rs)
  BY <1>1, LayerParts
<1>3. /\ layer'.state.ledger = Len(ledger) /\ layer'.state.overlay = Len(overlay)
      /\ layer'.state.ruleset = rs.version
  BY <1>2 DEF StateOf
<1>4. /\ SubSeq(ledger, 1, Len(ledger)) = ledger /\ Len(ledger) \in 0..Len(ledger)
      /\ SubSeq(overlay, 1, Len(overlay)) = overlay /\ Len(overlay) \in 0..Len(overlay)
  BY WholePrefix DEF TypeInv
<1>5. Compilable(ToSet(ledger), ToSet(overlay))
  BY DEF Compiles
<1> QED
  BY <1>1, <1>3, <1>4, <1>5 DEF LayerInv, CompiledFrom

LEMMA RepublishIInv == ASSUME IInv, Republish PROVE IInv'
<1> USE DEF IInv
<1>1. /\ UNCHANGED gateVars /\ UNCHANGED <<ledger, overlay, rulesets, current>>
      /\ Compiles(current) /\ PublishRegenerated(current)
  BY DEF Republish, gateVars, curatorVars
<1>2. RulesetBuilds(current) /\ current.version \in DOMAIN rulesets /\ rulesets[current.version] = current
  BY DEF RulesInv
<1>3. LayerInv'
  BY <1>1, <1>2, PublishLayer
<1>4. PublicationHeals'
  BY <1>1, <1>2, PublishHeals
<1>5. TypeInv' /\ RulesInv'
  BY <1>1 DEF TypeInv, RulesInv
<1> QED
  BY <1>1, <1>3, <1>4, <1>5, GateUnchanged

LEMMA OnRulesetChangedIInv ==
  ASSUME IInv, NEW v \in DOMAIN rulesets, OnRulesetChanged(rulesets[v])
  PROVE  IInv'
<1> USE DEF IInv
<1> DEFINE rs == rulesets[v]
<1>1. UNCHANGED gateVars /\ UNCHANGED <<ledger, overlay, rulesets>> /\ current' = rs
  BY DEF OnRulesetChanged, gateVars, curatorVars
<1>2. RulesetBuilds(rs) /\ rs.version \in DOMAIN rulesets /\ rulesets[rs.version] = rs
  BY DEF RulesInv
<1>3. TypeInv' /\ RulesInv'
  BY <1>1, <1>2 DEF TypeInv, RulesInv
<1>4. LayerInv' /\ PublicationHeals'
  <2>1. CASE Compiles(rs)
    <3>1. PublishRegenerated(rs)
      BY <2>1 DEF OnRulesetChanged
    <3> QED
      BY <1>1, <1>2, <2>1, <3>1, PublishLayer, PublishHeals
  <2>2. CASE ~Compiles(rs)
    <3>1. UNCHANGED advisoryVars
      BY <2>2 DEF OnRulesetChanged
    <3> QED
      BY <1>1, <3>1, SameKept, KeptLayer, UnpublishedHeals
  <2> QED
    BY <2>1, <2>2
<1> QED
  BY <1>1, <1>3, <1>4, GateUnchanged

\* Every step that only touches the vocabularies.
LEMMA VocabularyIInv ==
  ASSUME IInv, UNCHANGED gateVars, UNCHANGED advisoryVars, UNCHANGED <<ledger, overlay, rulesets, current>>
  PROVE  IInv'
<1> USE DEF IInv
<1>1. RulesInv'
  BY DEF RulesInv
<1> QED
  BY <1>1, SameKept, KeptLayer, UnpublishedHeals, GateUnchanged

LEMMA NextIInv == IInv /\ [Next]_vars => IInv'
<1> SUFFICES ASSUME IInv, [Next]_vars PROVE IInv'
  OBVIOUS
<1>1. CASE \E r \in Records : Admit(r)
  BY <1>1, AdmitIInv
<1>2. CASE \E v \in DOMAIN vocabularies : AdoptVocabulary(v)
  <2>1. UNCHANGED gateVars /\ UNCHANGED advisoryVars /\ UNCHANGED <<ledger, overlay, rulesets, current>>
    BY <1>2 DEF AdoptVocabulary, gateVars, curatorVars
  <2> QED
    BY <2>1, VocabularyIInv
<1>3. CASE \E a \in Rulings : Rule(a)
  BY <1>3, RuleIInv
<1>4. CASE \E terms \in NewTerms : EvolveVocabulary(terms)
  <2>1. UNCHANGED gateVars /\ UNCHANGED advisoryVars /\ UNCHANGED <<ledger, overlay, rulesets, current>>
    BY <1>4 DEF EvolveVocabulary, gateVars
  <2> QED
    BY <2>1, VocabularyIInv
<1>5. CASE \E rs \in Rulesets : AdoptRuleset(rs)
  BY <1>5, AdoptRulesetIInv
<1>6. CASE Republish
  BY <1>6, RepublishIInv
<1>7. CASE \E v \in DOMAIN rulesets : OnRulesetChanged(rulesets[v])
  BY <1>7, OnRulesetChangedIInv
<1>8. CASE UNCHANGED vars
  <2>1. UNCHANGED gateVars /\ UNCHANGED advisoryVars /\ UNCHANGED <<ledger, overlay, rulesets, current>>
    BY <1>8 DEF vars, gateVars, advisoryVars
  <2> QED
    BY <2>1, VocabularyIInv
<1> QED
  BY <1>1, <1>2, <1>3, <1>4, <1>5, <1>6, <1>7, <1>8 DEF Next

THEOREM Invariance == Spec => []IInv
<1>1. Init => IInv
  BY InitIInv
<1>2. IInv /\ [Next]_vars => IInv'
  BY NextIInv
<1> QED
  BY <1>1, <1>2, PTL DEF Spec

-----------------------------------------------------------------------------
(* The theorems. *)

\* One attested unit has at most one ledger record, an identity is never
\* reused, and every delivery of an attestation is answered with the same
\* position (gate.py admit, ledger.py append).
THEOREM AttestationsAreAdmittedOnce == Spec => []OneRecordPerAttestation
<1>1. IInv => OneRecordPerAttestation
  BY DEF IInv, GateInv, OneRecordPerAttestation
<1> QED
  BY <1>1, Invariance, PTL

\* However a publication was cut short, the next layer of another state
\* announces what the engine answers with (advisory.py publish).
THEOREM PublicationsHeal == Spec => []PublicationHeals
<1>1. IInv => PublicationHeals
  BY DEF IInv
<1> QED
  BY <1>1, Invariance, PTL

\* Whatever the Gate admitted and the Curator ruled, the compilation stops only
\* on an unknown verdict.
LEMMA NothingElseStops ==
  ASSUME TypeInv, RulesInv, Compilable(ToSet(ledger), ToSet(overlay))
  PROVE  Compiles(current)
<1>1. RulesetBuilds(current)
  BY DEF RulesInv
<1>2. \A a \in regenerate(ledger, overlay, current).artifacts : DerivedBuilds(a)
  BY <1>1, LayerArtifacts DEF TypeInv
<1> QED
  BY <1>2 DEF Compiles

\* The derivation state a layer is stamped with names that layer for good, and
\* no builder refuses what is derived (distillery.py regenerate, curator.py
\* adopt_ruleset, runtime.py on_ruleset_changed, derived.py).
THEOREM LayersAreReproducible == Spec => []LayerReproducible
<1>1. IInv => LayerReproducible
  <2> SUFFICES ASSUME IInv PROVE LayerReproducible
    OBVIOUS
  <2>1. Compilable(ToSet(ledger), ToSet(overlay)) => Compiles(current)
    BY NothingElseStops DEF IInv
  <2>2. layer # None =>
          layer = regenerate(SubSeq(ledger, 1, layer.state.ledger), SubSeq(overlay, 1, layer.state.overlay),
                             rulesets[layer.state.ruleset])
    BY DEF IInv, LayerInv, CompiledFrom
  <2> QED
    BY <2>1, <2>2 DEF LayerReproducible
<1> QED
  BY <1>1, Invariance, PTL
-----------------------------------------------------------------------------
(* Advice and its evidence. *)

\* The published layer is a layer of a part of the ledger and of the overlay.
PublishedFrom(l, o, rs) ==
  /\ l \in Seq(Records) /\ o \in Seq(Rulings) /\ RulesetBuilds(rs)
  /\ layer = regenerate(l, o, rs)
  /\ Compilable(ToSet(l), ToSet(o))
  /\ \A x \in ToSet(l) : \E j \in DOMAIN ledger : x = ledger[j]

LEMMA LayerIsPublished ==
  ASSUME IInv, layer # None
  PROVE  PublishedFrom(SubSeq(ledger, 1, layer.state.ledger), SubSeq(overlay, 1, layer.state.overlay),
                       rulesets[layer.state.ruleset])
<1> DEFINE n == layer.state.ledger
           m == layer.state.overlay
           rs == rulesets[layer.state.ruleset]
<1>1. /\ n \in 0..Len(ledger) /\ m \in 0..Len(overlay) /\ layer.state.ruleset \in DOMAIN rulesets
      /\ CompiledFrom(SubSeq(ledger, 1, n), SubSeq(overlay, 1, m), rs)
  BY DEF IInv, LayerInv
<1>2. ledger \in Seq(Records) /\ overlay \in Seq(Rulings)
  BY DEF IInv, TypeInv
<1>3. RulesetBuilds(rs)
  BY <1>1 DEF IInv, RulesInv
<1> HIDE DEF n, m, rs
<1>4. SubSeq(ledger, 1, n) \in Seq(Records) /\ SubSeq(overlay, 1, m) \in Seq(Rulings)
  BY <1>1, <1>2
<1>5. \A x \in ToSet(SubSeq(ledger, 1, n)) : \E j \in DOMAIN ledger : x = ledger[j]
  BY <1>1, <1>2, PrefixElements
<1> QED
  BY <1>1, <1>3, <1>4, <1>5 DEF PublishedFrom, CompiledFrom, n, m, rs

\* An identity that is cited names one entry of the ledger, whatever was
\* admitted since.
LEMMA CitedIsMember ==
  ASSUME IInv, NEW l, NEW o, NEW rs, PublishedFrom(l, o, rs), NEW a,
         NEW M \in SUBSET EpisodesOf(l, o), RestsOn(a, M),
         NEW i \in DOMAIN ledger, ledger[i].id \in a.envelope.cites
  PROVE  ledger[i] \in M
<1>1. PICK m \in M : m.id = ledger[i].id
  BY DEF RestsOn
<1>2. m \in ToSet(l)
  BY EpisodesOfBasic DEF PublishedFrom
<1>3. PICK j \in DOMAIN ledger : m = ledger[j]
  BY <1>2 DEF PublishedFrom
<1>4. i = j
  BY <1>1, <1>3 DEF IInv, GateInv
<1> QED
  BY <1>3, <1>4

LEMMA PositivePassed ==
  ASSUME NEW e, polarity_of(e) = "positive"
  PROVE  e.verdict = "passed"
BY DEF polarity_of

LEMMA NegativeFailed ==
  ASSUME NEW e, polarity_of(e) = "negative", ~Verdictless(e)
  PROVE  e.verdict = "failed"
BY DEF polarity_of, Verdictless

LEMMA WithdrawnIsExcluded ==
  ASSUME NEW S \in SUBSET Rulings
  PROVE  /\ UNION {a.targets : a \in S \ {b \in S : b.kind = "contradiction_resolution"}}
              \subseteq ExcludedIds(S)
         /\ UNION {a.targets : a \in {b \in S : b.kind = "contradiction_resolution"}} = RuledAgainst(S)
<1>1. \A a \in S : a.kind = "contradiction_resolution" \/ a.kind \in {"deprecation", "supersession"}
  BY InputsBuild DEF AnnotationBuilds, ANNOTATION_KINDS
<1> QED
  BY <1>1 DEF ExcludedIds, RuledAgainst

LEMMA StandingAdvice == ASSUME IInv PROVE AdviceStands
<1> SUFFICES ASSUME layer # None PROVE AdviceStands
  BY DEF AdviceStands
<1> DEFINE l == SubSeq(ledger, 1, layer.state.ledger)
           o == SubSeq(overlay, 1, layer.state.overlay)
           rs == rulesets[layer.state.ruleset]
           seen == ToSet(o)
           against == {b \in seen : b.kind = "contradiction_resolution"}
           withdrawn == UNION {b.targets : b \in seen \ against}
           cited(a) == {ledger[i] : i \in {j \in DOMAIN ledger : ledger[j].id \in a.envelope.cites}}
           fine(a) == /\ Walkable(a, l)
                      /\ a.envelope.identity \notin UNION {b.targets : b \in against}
                      /\ \A r \in cited(a) :
                           /\ r.closed /\ r.id \notin withdrawn
                           /\ r.facets = a.envelope.facets
                           /\ a.kind \in {"pattern", "recipe"} => r.verdict = "passed"
                           /\ a.kind = "anti_pattern" => r.verdict = "failed"
<1>1. PublishedFrom(l, o, rs)
  BY LayerIsPublished
<1> SUFFICES ASSUME NEW a \in consult(layer, Last(vocabularies)) PROVE fine(a)
  BY DEF AdviceStands
<1> HIDE DEF l, o, rs
<1>2. a \in Advice(regenerate(l, o, rs))
  BY <1>1 DEF consult, PublishedFrom
<1>3. Stands(a, EpisodesOf(l, o), AgainstOf(o), StateOf(l, o, rs))
  BY <1>1, <1>2, AdviceIsCore DEF PublishedFrom
<1>4. PICK M \in SUBSET EpisodesOf(l, o) : RestsOn(a, M)
  BY <1>3 DEF Stands
<1>5. \A e \in EpisodesOf(l, o) :
        e \in ToSet(l) /\ e.kind = "episode" /\ e.id \notin ExcludedIds(seen)
  BY <1>1, EpisodesOfBasic DEF PublishedFrom
<1>6. seen \in SUBSET Rulings
  BY <1>1 DEF PublishedFrom, ToSet
<1>7. withdrawn \subseteq ExcludedIds(seen) /\ UNION {b.targets : b \in against} = AgainstOf(o)
  BY <1>6, WithdrawnIsExcluded DEF AgainstOf
<1>8. Walkable(a, l)
  <2>1. a.envelope.cites # {}
    BY <1>4 DEF RestsOn
  <2>2. \A id \in a.envelope.cites : \E m \in ToSet(l) : m.id = id
    BY <1>4, <1>5 DEF RestsOn
  <2>3. \A m \in ToSet(l) : \E i \in DOMAIN l : l[i] = m
    BY <1>1 DEF ToSet
  <2> QED
    BY <2>1, <2>2, <2>3 DEF Walkable
<1>9. a.envelope.identity \notin UNION {b.targets : b \in against}
  BY <1>3, <1>7 DEF Stands
<1> HIDE DEF seen, against, withdrawn
<1>10. ASSUME NEW r \in cited(a)
       PROVE  /\ r.closed /\ r.id \notin withdrawn
              /\ r.facets = a.envelope.facets
              /\ a.kind \in {"pattern", "recipe"} => r.verdict = "passed"
              /\ a.kind = "anti_pattern" => r.verdict = "failed"
  <2>1. PICK i \in DOMAIN ledger : r = ledger[i] /\ ledger[i].id \in a.envelope.cites
    BY <1>10
  <2>2. r \in M
    BY <1>1, <1>4, <2>1, CitedIsMember
  <2>3. r \in EpisodesOf(l, o)
    BY <2>2
  <2>4. r.closed
    BY <2>1 DEF IInv, GateInv
  <2>5. r.id \notin withdrawn
    BY <1>5, <1>7, <2>3
  <2>6. r.facets = a.envelope.facets
    BY <1>4, <2>2 DEF RestsOn
  <2>7. ASSUME a.kind \in {"pattern", "recipe"} PROVE r.verdict = "passed"
    BY <1>4, <2>2, <2>7, PositivePassed DEF RestsOn, Positive
  <2>8. ~Verdictless(r)
    <3>1. r \in Weighed(ToSet(l), ToSet(o), "episode")
      BY <2>3 DEF EpisodesOf
    <3> QED
      BY <1>1, <3>1 DEF PublishedFrom, Compilable
  <2>9. ASSUME a.kind = "anti_pattern" PROVE r.verdict = "failed"
    BY <1>4, <2>2, <2>8, <2>9, NegativeFailed DEF RestsOn, Negative
  <2> QED
    BY <2>4, <2>5, <2>6, <2>7, <2>9
<1> HIDE DEF cited
<1> QED
  BY <1>8, <1>9, <1>10
-----------------------------------------------------------------------------
(* Conflicts.  The identities of two scopes are told apart only when their *)
(* facets do not join to one key, which nothing in the code prevents ("a+b"*)
(* against "a" and "b"); the theorem says so.                              *)

KeysTellApart ==
  \A r, s \in Records : FacetsKey(r.facets) = FacetsKey(s.facets) => r.facets = s.facets

\* Keys of one spelling are one key.
LEMMA KeyIsUnique ==
  ASSUME KeysTellApart, NEW l \in Seq(Records), NEW o,
         NEW e \in EpisodesOf(l, o), NEW f \in EpisodesOf(l, o),
         FacetsKey(e.facets) = FacetsKey(f.facets)
  PROVE  e.facets = f.facets
<1>1. e \in ToSet(l) /\ f \in ToSet(l)
  BY EpisodesOfBasic
<1>2. ToSet(l) \subseteq Records
  BY DEF ToSet
<1> QED
  BY <1>1, <1>2 DEF KeysTellApart

\* A flagged identity belongs to a key that recurred with both polarities and
\* that no ruling decided.
FacedKey(k, E, R, rs) ==
  /\ k \in Specs(E, rs, "positive") /\ k \in Specs(E, rs, "negative")
  /\ PatternId(k[1], k[2]) \notin R /\ AntiId(k[1], k[2]) \notin R

LEMMA ContestedShape ==
  ASSUME NEW E, NEW R, NEW rs, NEW id
  PROVE  id \in ContestedIds(E, R, rs) <=>
         \E q : FacedKey(q, E, R, rs) /\ (id = PatternId(q[1], q[2]) \/ id = AntiId(q[1], q[2]))
BY DEF ContestedIds, FacedKey

LEMMA FlaggedKey ==
  ASSUME KeysTellApart, NEW l \in Seq(Records), NEW o, NEW rs, MinimaBuild(rs), NEW R,
         NEW polarity, NEW k \in Specs(EpisodesOf(l, o), rs, polarity),
         \/ PatternId(k[1], k[2]) \in ContestedIds(EpisodesOf(l, o), R, rs)
         \/ AntiId(k[1], k[2]) \in ContestedIds(EpisodesOf(l, o), R, rs)
  PROVE  FacedKey(k, EpisodesOf(l, o), R, rs)
<1> DEFINE E == EpisodesOf(l, o)
<1>1. PICK q : /\ FacedKey(q, E, R, rs)
               /\ \/ PatternId(k[1], k[2]) = PatternId(q[1], q[2])
                  \/ PatternId(k[1], k[2]) = AntiId(q[1], q[2])
                  \/ AntiId(k[1], k[2]) = PatternId(q[1], q[2])
                  \/ AntiId(k[1], k[2]) = AntiId(q[1], q[2])
  BY ContestedShape
<1>2. FacetsKey(k[1]) = FacetsKey(q[1]) /\ k[2] = q[2]
  BY <1>1 DEF PatternId, AntiId
<1>3. PICK e \in E : k = <<e.facets, e.approach>>
  BY SpecGroup
<1>4. q \in Specs(E, rs, "positive")
  BY <1>1 DEF FacedKey
<1>5. PICK f \in E : q = <<f.facets, f.approach>>
  BY <1>4, SpecGroup
<1>6. k[1] = e.facets /\ q[1] = f.facets /\ k[2] = e.approach /\ q[2] = f.approach
  BY <1>3, <1>5
<1>7. e.facets = f.facets
  BY <1>2, <1>6, KeyIsUnique
<1>8. k = q
  BY <1>2, <1>3, <1>5, <1>6, <1>7
<1> QED
  BY <1>1, <1>8

\* A faced key has both its pattern and its anti-pattern in the layer.
AntisOf(l, o, rs) ==
  AntiPatterns(EpisodesOf(l, o), AgainstOf(o), rs, StateOf(l, o, rs),
               Patterns(EpisodesOf(l, o), AgainstOf(o), rs, StateOf(l, o, rs)),
               Recipes(EpisodesOf(l, o), AgainstOf(o), rs, StateOf(l, o, rs)),
               Lessons(EpisodesOf(l, o), AgainstOf(o), rs, StateOf(l, o, rs)))
PatternsOf(l, o, rs) == Patterns(EpisodesOf(l, o), AgainstOf(o), rs, StateOf(l, o, rs))

LEMMA PatternExists ==
  ASSUME NEW E, NEW R, NEW rs, NEW state, NEW k \in Specs(E, rs, "positive"),
         PatternId(k[1], k[2]) \notin R
  PROVE  \E a \in Patterns(E, R, rs, state) : a.approach = k[2] /\ a.envelope.facets = k[1]
<1> DEFINE envelope == DerivedEnvelope(PatternId(k[1], k[2]), k[1],
                                       ApproachGroup(E, k[1], "positive", k[2]), state, None)
           a == [kind |-> "pattern", approach |-> k[2],
                 maturity |-> Grade(ApproachGroup(E, k[1], "positive", k[2]), rs),
                 contested |-> PatternId(k[1], k[2]) \in ContestedIds(E, R, rs),
                 envelope |-> envelope]
<1>1. a \in Patterns(E, R, rs, state)
  BY PatternShape
<1>2. envelope.facets = k[1]
  BY EnvelopeFields
<1> HIDE DEF envelope
<1> QED
  BY <1>1, <1>2

LEMMA AntiPatternExists ==
  ASSUME NEW E, NEW R, NEW rs, NEW state, NEW patterns, NEW recipes, NEW lessons,
         NEW k \in Specs(E, rs, "negative"), AntiId(k[1], k[2]) \notin R
  PROVE  \E a \in AntiPatterns(E, R, rs, state, patterns, recipes, lessons) :
            a.approach = k[2] /\ a.envelope.facets = k[1]
<1> DEFINE insteadOf == Alternative(k[1], k[2], E, patterns, recipes, lessons)
           envelope == DerivedEnvelope(AntiId(k[1], k[2]), k[1],
                                       ApproachGroup(E, k[1], "negative", k[2]), state, insteadOf)
           a == [kind |-> "anti_pattern", approach |-> k[2],
                 maturity |-> Grade(ApproachGroup(E, k[1], "negative", k[2]), rs),
                 contested |-> AntiId(k[1], k[2]) \in ContestedIds(E, R, rs),
                 envelope |-> envelope]
<1>1. a \in AntiPatterns(E, R, rs, state, patterns, recipes, lessons)
  BY DEF AntiPatterns
<1>2. envelope.facets = k[1]
  BY EnvelopeFields
<1> HIDE DEF envelope
<1> QED
  BY <1>1, <1>2

\* The kind of an artifact says which compilation made it.
LEMMA KindsOfLayer ==
  ASSUME NEW l \in Seq(Records), NEW o \in Seq(Rulings), NEW rs, RulesetBuilds(rs)
  PROVE  /\ {a \in regenerate(l, o, rs).artifacts : a.kind = "pattern"} = PatternsOf(l, o, rs)
         /\ {a \in regenerate(l, o, rs).artifacts : a.kind = "anti_pattern"} = AntisOf(l, o, rs)
<1> DEFINE E == EpisodesOf(l, o)
           R == AgainstOf(o)
           state == StateOf(l, o, rs)
           artifacts == regenerate(l, o, rs).artifacts
<1>1. \A a \in artifacts : a \in CoreOf(l, o, rs) \/ a.kind = "project_dossier" \/ a.kind = "domain_knowledge_pack"
  BY LayerArtifacts
<1>2. CoreOf(l, o, rs) \subseteq artifacts
  BY LayerParts
<1>3. CoreOf(l, o, rs) = Lessons(E, R, rs, state) \cup PatternsOf(l, o, rs)
                         \cup Recipes(E, R, rs, state) \cup AntisOf(l, o, rs)
  BY DEF CoreOf, Core, PatternsOf, AntisOf
<1>4. \A a \in Lessons(E, R, rs, state) : a.kind = "lesson"
  BY LessonStands
<1>5. \A a \in PatternsOf(l, o, rs) : a.kind = "pattern"
  BY PatternKey DEF PatternsOf, IsPattern
<1>6. \A a \in Recipes(E, R, rs, state) : a.kind = "recipe"
  BY RecipeKey DEF IsRecipe
<1>7. \A a \in AntisOf(l, o, rs) : a.kind = "anti_pattern"
  BY AntiPatternKey DEF AntisOf, IsAntiPattern
<1> HIDE DEF artifacts, E, R, state
<1>8. \A a \in artifacts : a.kind = "pattern" <=> a \in PatternsOf(l, o, rs)
  BY <1>1, <1>2, <1>3, <1>4, <1>5, <1>6, <1>7
<1>9. \A a \in artifacts : a.kind = "anti_pattern" <=> a \in AntisOf(l, o, rs)
  BY <1>1, <1>2, <1>3, <1>4, <1>5, <1>6, <1>7
<1>10. PatternsOf(l, o, rs) \subseteq artifacts /\ AntisOf(l, o, rs) \subseteq artifacts
  BY <1>2, <1>3
<1>11. {a \in artifacts : a.kind = "pattern"} = PatternsOf(l, o, rs)
  BY <1>8, <1>10
<1>12. {a \in artifacts : a.kind = "anti_pattern"} = AntisOf(l, o, rs)
  BY <1>9, <1>10
<1> QED
  BY <1>11, <1>12 DEF artifacts
Twin(a, b) == a.approach = b.approach /\ a.envelope.facets = b.envelope.facets

LEMMA PatternFields ==
  ASSUME NEW E, NEW R, NEW rs, NEW state, NEW a \in Patterns(E, R, rs, state)
  PROVE  \E k \in Specs(E, rs, "positive") :
           /\ PatternId(k[1], k[2]) \notin R /\ a.approach = k[2] /\ a.envelope.facets = k[1]
           /\ a.contested = (PatternId(k[1], k[2]) \in ContestedIds(E, R, rs))
           /\ a.envelope.identity = PatternId(k[1], k[2])
<1>1. PICK k \in Specs(E, rs, "positive") :
        PatternId(k[1], k[2]) \notin R /\ IsPattern(a, k, E, R, rs, state)
  BY PatternKey
<1>2. a.envelope.facets = k[1] /\ a.envelope.identity = PatternId(k[1], k[2])
  BY <1>1, EnvelopeFields DEF IsPattern
<1>3. /\ a.approach = k[2]
      /\ a.contested = (PatternId(k[1], k[2]) \in ContestedIds(E, R, rs))
  BY <1>1 DEF IsPattern
<1> QED
  BY <1>1, <1>2, <1>3

LEMMA AntiPatternFields ==
  ASSUME NEW E, NEW R, NEW rs, NEW state, NEW patterns, NEW recipes, NEW lessons,
         NEW a \in AntiPatterns(E, R, rs, state, patterns, recipes, lessons)
  PROVE  \E k \in Specs(E, rs, "negative") :
           /\ AntiId(k[1], k[2]) \notin R /\ a.approach = k[2] /\ a.envelope.facets = k[1]
           /\ a.contested = (AntiId(k[1], k[2]) \in ContestedIds(E, R, rs))
           /\ a.envelope.insteadOf = Alternative(k[1], k[2], E, patterns, recipes, lessons)
<1>1. PICK k \in Specs(E, rs, "negative") :
        /\ AntiId(k[1], k[2]) \notin R
        /\ IsAntiPattern(a, k, E, R, rs, state, Alternative(k[1], k[2], E, patterns, recipes, lessons))
  BY AntiPatternKey
<1>2. /\ a.envelope.facets = k[1]
      /\ a.envelope.insteadOf = Alternative(k[1], k[2], E, patterns, recipes, lessons)
  BY <1>1, EnvelopeFields DEF IsAntiPattern
<1>3. /\ a.approach = k[2]
      /\ a.contested = (AntiId(k[1], k[2]) \in ContestedIds(E, R, rs))
  BY <1>1 DEF IsAntiPattern
<1> QED
  BY <1>1, <1>2, <1>3

\* A flagged side has its twin, and twins are flagged.
LEMMA FlagsAreTwins ==
  ASSUME KeysTellApart, NEW l \in Seq(Records), NEW o, NEW rs, MinimaBuild(rs)
  PROVE  /\ \A a \in PatternsOf(l, o, rs) :
              a.contested => \E b \in AntisOf(l, o, rs) : Twin(a, b)
         /\ \A b \in AntisOf(l, o, rs) :
              b.contested => \E a \in PatternsOf(l, o, rs) : Twin(a, b)
         /\ \A a \in PatternsOf(l, o, rs), b \in AntisOf(l, o, rs) :
              Twin(a, b) => a.contested /\ b.contested
<1> DEFINE E == EpisodesOf(l, o)
           R == AgainstOf(o)
<1>1. ASSUME NEW a \in PatternsOf(l, o, rs), a.contested
      PROVE  \E b \in AntisOf(l, o, rs) : Twin(a, b)
  <2>1. PICK k \in Specs(E, rs, "positive") :
           /\ a.approach = k[2] /\ a.envelope.facets = k[1]
           /\ a.contested = (PatternId(k[1], k[2]) \in ContestedIds(E, R, rs))
    BY PatternFields DEF PatternsOf
  <2>2. FacedKey(k, E, R, rs)
    BY <1>1, <2>1, FlaggedKey
  <2>3. \E b \in AntisOf(l, o, rs) : b.approach = k[2] /\ b.envelope.facets = k[1]
    BY <2>2, AntiPatternExists DEF AntisOf, FacedKey
  <2> QED
    BY <2>1, <2>3 DEF Twin
<1>2. ASSUME NEW b \in AntisOf(l, o, rs), b.contested
      PROVE  \E a \in PatternsOf(l, o, rs) : Twin(a, b)
  <2>1. PICK k \in Specs(E, rs, "negative") :
           /\ b.approach = k[2] /\ b.envelope.facets = k[1]
           /\ b.contested = (AntiId(k[1], k[2]) \in ContestedIds(E, R, rs))
    BY AntiPatternFields DEF AntisOf
  <2>2. FacedKey(k, E, R, rs)
    BY <1>2, <2>1, FlaggedKey
  <2>3. \E a \in PatternsOf(l, o, rs) : a.approach = k[2] /\ a.envelope.facets = k[1]
    BY <2>2, PatternExists DEF PatternsOf, FacedKey
  <2> QED
    BY <2>1, <2>3 DEF Twin
<1>3. ASSUME NEW a \in PatternsOf(l, o, rs), NEW b \in AntisOf(l, o, rs), Twin(a, b)
      PROVE  a.contested /\ b.contested
  <2>1. PICK k \in Specs(E, rs, "positive") :
           /\ PatternId(k[1], k[2]) \notin R /\ a.approach = k[2] /\ a.envelope.facets = k[1]
           /\ a.contested = (PatternId(k[1], k[2]) \in ContestedIds(E, R, rs))
    BY PatternFields DEF PatternsOf
  <2>2. PICK q \in Specs(E, rs, "negative") :
           /\ AntiId(q[1], q[2]) \notin R /\ b.approach = q[2] /\ b.envelope.facets = q[1]
           /\ b.contested = (AntiId(q[1], q[2]) \in ContestedIds(E, R, rs))
    BY AntiPatternFields DEF AntisOf
  <2>3. /\ \E e \in E : k = <<e.facets, e.approach>>
        /\ \E e \in E : q = <<e.facets, e.approach>>
    BY SpecGroup
  <2>4. k[1] = q[1] /\ k[2] = q[2]
    BY <1>3, <2>1, <2>2 DEF Twin
  <2>5. k = q
    BY <2>3, <2>4
  <2>6. FacedKey(k, E, R, rs)
    BY <2>1, <2>2, <2>5 DEF FacedKey
  <2>7. PatternId(k[1], k[2]) \in ContestedIds(E, R, rs) /\ AntiId(k[1], k[2]) \in ContestedIds(E, R, rs)
    BY <2>6, ContestedShape
  <2> QED
    BY <2>1, <2>2, <2>5, <2>7
<1> QED
  BY <1>1, <1>2, <1>3

-----------------------------------------------------------------------------
(* "Do Y instead". *)

LEMMA LeastNatural ==
  ASSUME NEW T \in SUBSET Nat, T # {}
  PROVE  \E x \in T : \A y \in T : x <= y
<1>1. IsWellFoundedOn({p \in Nat \X Nat : p[1] < p[2]}, Nat)
  BY NatLessThanWellFounded DEF OpToRel
<1>2. PICK x \in T : \A y \in T : ~(<<y, x>> \in {p \in Nat \X Nat : p[1] < p[2]})
  BY <1>1, WFMin
<1>3. ASSUME NEW y \in T PROVE x <= y
  <2>1. x \in Nat /\ y \in Nat /\ ~(x > y)
    BY <1>2
  <2> QED
    BY <2>1
<1> QED
  BY <1>3

LEMMA LeastExists ==
  ASSUME NEW S, S # {}, \A x \in S : HashRank(x) \in Nat
  PROVE  Least(S) \in S
<1>1. PICK n \in {HashRank(x) : x \in S} : \A m \in {HashRank(x) : x \in S} : n <= m
  BY LeastNatural
<1>2. \E x \in S : \A y \in S : HashRank(x) <= HashRank(y)
  BY <1>1
<1> QED
  BY <1>2 DEF Least

\* Positive advice of one scope under one identity.
Backed(b, id, facets, E) ==
  /\ b.envelope.identity = id /\ b.envelope.facets = facets
  /\ \E M \in SUBSET E : RestsOn(b, M) /\ \A m \in M : polarity_of(m) = "positive"

LEMMA PositiveBacked ==
  ASSUME NEW b, NEW E, NEW R, NEW state, Stands(b, E, R, state), Positive(b)
  PROVE  Backed(b, b.envelope.identity, b.envelope.facets, E)
BY DEF Backed, Stands, RestsOn

LEMMA LessonBacked ==
  ASSUME NEW E, NEW R, NEW rs, NEW state, NEW b \in Lessons(E, R, rs, state),
         b.envelope.identity[3] = "positive"
  PROVE  Backed(b, LessonId(b.envelope.facets, "positive"), b.envelope.facets, E)
<1>1. PICK k \in Signatures(E) \X POLARITIES :
        /\ Members(E, k[1], k[2]) # {}
        /\ b = [kind |-> "lesson", maturity |-> Grade(Members(E, k[1], k[2]), rs),
                envelope |-> DerivedEnvelope(LessonId(k[1], k[2]), k[1], Members(E, k[1], k[2]), state, None)]
  BY DEF Lessons
<1> DEFINE M == Members(E, k[1], k[2])
<1>2. b.kind = "lesson" /\ b.envelope = DerivedEnvelope(LessonId(k[1], k[2]), k[1], M, state, None)
  BY <1>1
<1>3. /\ b.envelope.identity = LessonId(k[1], k[2]) /\ b.envelope.facets = k[1]
      /\ b.envelope.cites = {m.id : m \in M}
  BY <1>2, EnvelopeFields
<1>4. k[2] = "positive"
  BY <1>3 DEF LessonId
<1>5. M \subseteq E /\ \A m \in M : m.facets = k[1] /\ polarity_of(m) = k[2]
  BY MembersBasic
<1>6. ~Positive(b) /\ ~Negative(b)
  BY <1>2 DEF Positive, Negative
<1>7. M # {}
  BY <1>1
<1> HIDE DEF M
<1>8. RestsOn(b, M)
  BY <1>3, <1>5, <1>6, <1>7 DEF RestsOn
<1> QED
  BY <1>3, <1>4, <1>5, <1>8 DEF Backed
RecipesOf(l, o, rs) == Recipes(EpisodesOf(l, o), AgainstOf(o), rs, StateOf(l, o, rs))
LessonsOf(l, o, rs) == Lessons(EpisodesOf(l, o), AgainstOf(o), rs, StateOf(l, o, rs))

LEMMA EpisodeRanks ==
  ASSUME NEW l \in Seq(Records), NEW o, NEW e \in EpisodesOf(l, o)
  PROVE  HashRank(e.approach) \in Nat /\ HashRank(e.approach.steps) \in Nat
<1>1. e \in ToSet(l) /\ e.kind = "episode"
  BY EpisodesOfBasic
<1>2. ToSet(l) \subseteq Records
  BY DEF ToSet
<1> QED
  BY <1>1, <1>2, HashesRanked

LEMMA PatternAlternative ==
  ASSUME NEW l \in Seq(Records), NEW o, NEW rs, MinimaBuild(rs), NEW facets, NEW approach,
         NEW others, others # {},
         others = {p.approach : p \in {q \in PatternsOf(l, o, rs) :
                                         q.envelope.facets = facets /\ q.approach # approach}}
  PROVE  \E b \in PatternsOf(l, o, rs) : Backed(b, PatternId(facets, Least(others)), facets, EpisodesOf(l, o))
<1> DEFINE E == EpisodesOf(l, o)
           R == AgainstOf(o)
           state == StateOf(l, o, rs)
<1>1. ASSUME NEW x \in others PROVE HashRank(x) \in Nat
  <2>1. PICK p \in PatternsOf(l, o, rs) : x = p.approach
    BY <1>1
  <2>2. PICK k \in Specs(E, rs, "positive") : p.approach = k[2]
    BY PatternFields DEF PatternsOf
  <2>3. PICK e \in E : k = <<e.facets, e.approach>>
    BY SpecGroup
  <2> QED
    BY <2>1, <2>2, <2>3, EpisodeRanks
<1>2. Least(others) \in others
  BY <1>1, LeastExists
<1>3. PICK b \in PatternsOf(l, o, rs) : b.envelope.facets = facets /\ b.approach = Least(others)
  BY <1>2
<1>4. PICK k \in Specs(E, rs, "positive") :
        PatternId(k[1], k[2]) \notin R /\ IsPattern(b, k, E, R, rs, state)
  BY PatternKey DEF PatternsOf
<1>5. Stands(b, E, R, state) /\ Positive(b)
  BY <1>4, PatternStands DEF IsPattern, Positive
<1>6. /\ b.envelope.identity = PatternId(k[1], k[2]) /\ b.envelope.facets = k[1] /\ b.approach = k[2]
  BY <1>4, EnvelopeFields DEF IsPattern
<1>7. b.envelope.identity = PatternId(facets, Least(others))
  BY <1>3, <1>6
<1> QED
  BY <1>3, <1>5, <1>7, PositiveBacked

LEMMA RecipeAlternative ==
  ASSUME NEW l \in Seq(Records), NEW o, NEW rs, MinimaBuild(rs), NEW facets,
         NEW threads, threads # {},
         threads = {r.steps : r \in {q \in RecipesOf(l, o, rs) : q.envelope.facets = facets}}
  PROVE  \E b \in RecipesOf(l, o, rs) : Backed(b, RecipeId(facets, Least(threads)), facets, EpisodesOf(l, o))
<1> DEFINE E == EpisodesOf(l, o)
           R == AgainstOf(o)
           state == StateOf(l, o, rs)
<1>1. ASSUME NEW x \in threads PROVE HashRank(x) \in Nat
  <2>1. PICK p \in RecipesOf(l, o, rs) : x = p.steps
    BY <1>1
  <2>2. PICK k \in {<<e.facets, e.approach.steps>> : e \in E} : IsRecipe(p, k, E, state)
    BY RecipeKey DEF RecipesOf
  <2>3. PICK e \in E : k = <<e.facets, e.approach.steps>>
    BY <2>2
  <2>4. p.steps = k[2]
    BY <2>2 DEF IsRecipe
  <2> QED
    BY <2>1, <2>3, <2>4, EpisodeRanks
<1>2. Least(threads) \in threads
  BY <1>1, LeastExists
<1>3. PICK b \in RecipesOf(l, o, rs) : b.envelope.facets = facets /\ b.steps = Least(threads)
  BY <1>2
<1>4. PICK k \in {<<e.facets, e.approach.steps>> : e \in E} :
        RecipeKeyOk(k, E, R, rs) /\ IsRecipe(b, k, E, state)
  BY RecipeKey DEF RecipesOf
<1>5. Stands(b, E, R, state) /\ Positive(b)
  BY <1>4, RecipeStands DEF IsRecipe, Positive
<1>6. /\ b.envelope.identity = RecipeId(k[1], k[2]) /\ b.envelope.facets = k[1] /\ b.steps = k[2]
  BY <1>4, EnvelopeFields DEF IsRecipe
<1>7. b.envelope.identity = RecipeId(facets, Least(threads))
  BY <1>3, <1>6
<1> QED
  BY <1>3, <1>5, <1>7, PositiveBacked

LEMMA AlternativeBacked ==
  ASSUME NEW l \in Seq(Records), NEW o, NEW rs, MinimaBuild(rs), NEW facets, NEW approach,
         NEW id, id # None,
         id = Alternative(facets, approach, EpisodesOf(l, o), PatternsOf(l, o, rs),
                          RecipesOf(l, o, rs), LessonsOf(l, o, rs))
  PROVE  \E b \in PatternsOf(l, o, rs) \cup RecipesOf(l, o, rs) \cup LessonsOf(l, o, rs) :
            Backed(b, id, facets, EpisodesOf(l, o))
<1> DEFINE others == {p.approach : p \in {q \in PatternsOf(l, o, rs) :
                                            q.envelope.facets = facets /\ q.approach # approach}}
           threads == {r.steps : r \in {q \in RecipesOf(l, o, rs) : q.envelope.facets = facets}}
           taught == \E b \in LessonsOf(l, o, rs) : b.envelope.facets = facets
                                                   /\ b.envelope.identity[3] = "positive"
           elsewhere == \E e \in Members(EpisodesOf(l, o), facets, "positive") : e.approach # approach
<1>1. id = CASE others # {} -> PatternId(facets, Least(others))
             [] others = {} /\ threads # {} -> RecipeId(facets, Least(threads))
             [] others = {} /\ threads = {} /\ taught /\ elsewhere -> LessonId(facets, "positive")
             [] OTHER -> None
  BY DEF Alternative
<1>2. CASE others # {}
  <2>1. \E b \in PatternsOf(l, o, rs) :
           Backed(b, PatternId(facets, Least(others)), facets, EpisodesOf(l, o))
    BY <1>2, PatternAlternative
  <2> HIDE DEF others, threads, taught, elsewhere
  <2>2. id = PatternId(facets, Least(others))
    BY <1>1, <1>2
  <2> QED
    BY <2>1, <2>2
<1>3. CASE others = {} /\ threads # {}
  <2>1. \E b \in RecipesOf(l, o, rs) :
           Backed(b, RecipeId(facets, Least(threads)), facets, EpisodesOf(l, o))
    BY <1>3, RecipeAlternative
  <2> HIDE DEF others, threads, taught, elsewhere
  <2>2. id = RecipeId(facets, Least(threads))
    BY <1>1, <1>3
  <2> QED
    BY <2>1, <2>2
<1>4. CASE others = {} /\ threads = {} /\ taught /\ elsewhere
  <2>1. PICK b \in LessonsOf(l, o, rs) : b.envelope.facets = facets /\ b.envelope.identity[3] = "positive"
    BY <1>4
  <2>2. Backed(b, LessonId(facets, "positive"), facets, EpisodesOf(l, o))
    BY <2>1, LessonBacked DEF LessonsOf
  <2> HIDE DEF others, threads, taught, elsewhere
  <2>3. id = LessonId(facets, "positive")
    BY <1>1, <1>4
  <2> QED
    BY <2>2, <2>3
<1> HIDE DEF others, threads, taught, elsewhere
<1>5. others # {} \/ (others = {} /\ threads # {}) \/ (others = {} /\ threads = {} /\ taught /\ elsewhere)
  BY <1>1
<1> QED
  BY <1>2, <1>3, <1>4, <1>5
LEMMA QueueIsTwins ==
  ASSUME KeysTellApart, NEW l, NEW o, NEW rs, PublishedFrom(l, o, rs)
  PROVE  LET twins == {x \in PatternsOf(l, o, rs) \X AntisOf(l, o, rs) :
                         /\ x[1].approach = x[2].approach
                         /\ x[1].envelope.facets = x[2].envelope.facets}
         IN contested_queue(layer) = {x[1] : x \in twins} \cup {x[2] : x \in twins}
<1> DEFINE P == PatternsOf(l, o, rs)
           A == AntisOf(l, o, rs)
           twins == {x \in P \X A : /\ x[1].approach = x[2].approach
                                     /\ x[1].envelope.facets = x[2].envelope.facets}
           firsts == {x[1] : x \in twins}
           seconds == {x[2] : x \in twins}
<1>1. /\ {a \in layer.artifacts : a.kind = "pattern"} = P
      /\ {a \in layer.artifacts : a.kind = "anti_pattern"} = A
  BY KindsOfLayer DEF PublishedFrom
<1>2. contested_queue(layer) = {a \in P : a.contested} \cup {b \in A : b.contested}
  BY <1>1 DEF contested_queue
<1>3. /\ \A a \in P : a.contested => \E b \in A : Twin(a, b)
      /\ \A b \in A : b.contested => \E a \in P : Twin(a, b)
      /\ \A a \in P, b \in A : Twin(a, b) => a.contested /\ b.contested
  BY FlagsAreTwins, RulesetMinima DEF PublishedFrom
<1>4. \A a \in P, b \in A : Twin(a, b) <=> <<a, b>> \in twins
  BY DEF Twin
<1>5. \A x \in twins : x[1] \in P /\ x[2] \in A /\ Twin(x[1], x[2])
  BY DEF Twin
<1>6. firsts = {a \in P : a.contested}
  <2> HIDE DEF P, A
  <2>1. ASSUME NEW a \in P, a.contested PROVE a \in firsts
    <3>1. PICK b \in A : <<a, b>> \in twins
      BY <1>3, <1>4, <2>1
    <3> QED
      BY <3>1
  <2>2. ASSUME NEW a \in firsts PROVE a \in P /\ a.contested
    <3>1. PICK x \in twins : a = x[1]
      BY <2>2
    <3> QED
      BY <1>3, <1>5, <3>1
  <2> QED
    BY <2>1, <2>2
<1>7. seconds = {b \in A : b.contested}
  <2> HIDE DEF P, A
  <2>1. ASSUME NEW b \in A, b.contested PROVE b \in seconds
    <3>1. PICK a \in P : <<a, b>> \in twins
      BY <1>3, <1>4, <2>1
    <3> QED
      BY <3>1
  <2>2. ASSUME NEW b \in seconds PROVE b \in A /\ b.contested
    <3>1. PICK x \in twins : b = x[2]
      BY <2>2
    <3> QED
      BY <1>3, <1>5, <3>1
  <2> QED
    BY <2>1, <2>2
<1> QED
  BY <1>2, <1>6, <1>7

LEMMA InsteadIsBacked ==
  ASSUME NEW l, NEW o, NEW rs, PublishedFrom(l, o, rs),
         NEW a \in AntisOf(l, o, rs), a.envelope.insteadOf # None
  PROVE  \E b \in Advice(layer) :
            Backed(b, a.envelope.insteadOf, a.envelope.facets, EpisodesOf(l, o))
<1>1. /\ l \in Seq(Records) /\ o \in Seq(Rulings) /\ RulesetBuilds(rs) /\ MinimaBuild(rs)
      /\ layer = regenerate(l, o, rs)
  BY RulesetMinima DEF PublishedFrom
<1>2. PICK k \in Specs(EpisodesOf(l, o), rs, "negative") :
        /\ a.envelope.facets = k[1]
        /\ a.envelope.insteadOf = Alternative(k[1], k[2], EpisodesOf(l, o), PatternsOf(l, o, rs),
                                              RecipesOf(l, o, rs), LessonsOf(l, o, rs))
  BY AntiPatternFields DEF AntisOf, PatternsOf, RecipesOf, LessonsOf
<1>3. PICK b \in PatternsOf(l, o, rs) \cup RecipesOf(l, o, rs) \cup LessonsOf(l, o, rs) :
        Backed(b, a.envelope.insteadOf, a.envelope.facets, EpisodesOf(l, o))
  BY <1>1, <1>2, AlternativeBacked
<1>4. b \in layer.artifacts
  <2>1. b \in CoreOf(l, o, rs)
    BY <1>3 DEF CoreOf, Core, PatternsOf, RecipesOf, LessonsOf
  <2> QED
    BY <1>1, <2>1, LayerParts
<1>5. b.kind \in AdviceKinds
  <2>1. CASE b \in PatternsOf(l, o, rs)
    BY <2>1, PatternKey DEF PatternsOf, IsPattern, AdviceKinds
  <2>2. CASE b \in RecipesOf(l, o, rs)
    BY <2>2, RecipeKey DEF RecipesOf, IsRecipe, AdviceKinds
  <2>3. CASE b \in LessonsOf(l, o, rs)
    BY <2>3, LessonStands DEF LessonsOf, AdviceKinds
  <2> QED
    BY <1>3, <2>1, <2>2, <2>3
<1> QED
  BY <1>3, <1>4, <1>5 DEF Advice

LEMMA FacedConflicts == ASSUME IInv, KeysTellApart PROVE ConflictsFaced
<1> SUFFICES ASSUME layer # None PROVE ConflictsFaced
  BY DEF ConflictsFaced
<1>1. PICK l, o, rs : PublishedFrom(l, o, rs)
  BY LayerIsPublished
<1> DEFINE of(kind) == {a \in layer.artifacts : a.kind = kind}
           twins == {x \in of("pattern") \X of("anti_pattern") :
                       /\ x[1].approach = x[2].approach
                       /\ x[1].envelope.facets = x[2].envelope.facets}
<1>2. of("pattern") = PatternsOf(l, o, rs) /\ of("anti_pattern") = AntisOf(l, o, rs)
  BY <1>1, KindsOfLayer DEF PublishedFrom
<1>3. contested_queue(layer) = {x[1] : x \in twins} \cup {x[2] : x \in twins}
  BY <1>1, <1>2, QueueIsTwins
<1>4. ASSUME NEW a \in of("anti_pattern"), a.envelope.insteadOf # None
      PROVE  \E b \in Advice(layer) :
                /\ b.envelope.identity = a.envelope.insteadOf
                /\ b.envelope.facets = a.envelope.facets
                /\ \A i \in DOMAIN ledger : ledger[i].id \in b.envelope.cites => ledger[i].verdict = "passed"
  <2>1. PICK b \in Advice(layer) :
          Backed(b, a.envelope.insteadOf, a.envelope.facets, EpisodesOf(l, o))
    BY <1>1, <1>2, <1>4, InsteadIsBacked
  <2>2. PICK M \in SUBSET EpisodesOf(l, o) :
          RestsOn(b, M) /\ \A m \in M : polarity_of(m) = "positive"
    BY <2>1 DEF Backed
  <2>3. ASSUME NEW i \in DOMAIN ledger, ledger[i].id \in b.envelope.cites
        PROVE  ledger[i].verdict = "passed"
    <3>1. ledger[i] \in M
      BY <1>1, <2>2, <2>3, CitedIsMember
    <3> QED
      BY <2>2, <3>1, PositivePassed
  <2> QED
    BY <2>1, <2>3 DEF Backed
<1> HIDE DEF of, twins
<1> QED
  BY <1>3, <1>4 DEF ConflictsFaced, of, twins

\* Every answer walks to attested records in the ledger whose verdicts agree
\* with it and that no ruling has withdrawn, whatever was admitted or ruled
\* since the layer was compiled (advisory.py consult, distillery.py
\* citation_chain and the overlay weighting).
THEOREM AnswersStandOnEvidence == Spec => []AdviceStands
<1>1. IInv => AdviceStands
  BY StandingAdvice
<1> QED
  BY <1>1, Invariance, PTL

\* And, where no two scopes join to one key, conflicts are flagged in pairs and
\* "do Y instead" names positive advice of the same scope (distillery.py
\* contested flags and instead-of link).
THEOREM AdviceIsSound == KeysTellApart => (Spec => []AdviceSound)
<1> SUFFICES ASSUME KeysTellApart PROVE Spec => []AdviceSound
  OBVIOUS
<1>1. IInv => AdviceSound
  BY StandingAdvice, FacedConflicts DEF AdviceSound
<1> QED
  BY <1>1, Invariance, PTL
=============================================================================
