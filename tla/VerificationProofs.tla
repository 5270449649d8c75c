------------------------- MODULE VerificationProofs -------------------------
(***************************************************************************)
(* Proofs about Verification, for any artifacts, checks, levels, rules     *)
(* versions, deadlines and answers of Execution: a published verdict is    *)
(* the only one of its artifact, replays from a stored record with one     *)
(* first outcome of every required check, and was not bought by repeating  *)
(* a check.                                                                *)
(***************************************************************************)
EXTENDS Verification, FiniteSetTheorems, SequenceTheorems, WellFoundedInduction, TLAPS

-----------------------------------------------------------------------------
(* Derivation: what a body of independent and redundant items gives.       *)

\* Every item has a result and a kind that a judgment gives it.
Body(items) ==
  \A n \in DOMAIN items : /\ items[n] \in Evidence
                          /\ items[n].kind \in {"independent", "redundant"}

Passes(items) == \A n \in DOMAIN items : items[n].result \in PassingResults

\* The verdict is passed exactly when there is evidence and all of it passes.
LEMMA PassedVerdict ==
  ASSUME NEW items, Body(items)
  PROVE  /\ VerdictAndCause(items).verdict \in {"passed", "failed"}
         /\ VerdictAndCause(items).verdict = "passed" <=> DOMAIN items # {} /\ Passes(items)
         /\ VerdictAndCause(items).verdict = "passed" => VerdictAndCause(items).cause = "none"
<1> DEFINE kinds == {i.kind : i \in ToSet(items)}
           results == {i.result : i \in {x \in ToSet(items) : x.kind # "missing"}}
           given ==
             [contradictory_evidence    |-> "conflicting" \in kinds,
              inconclusive_verification |-> results \ (PassingResults \cup ExecutionFailureResults \cup {"fail"}) # {},
              execution_failure         |-> results \cap ExecutionFailureResults # {},
              verification_failure      |-> "fail" \in results,
              evidence_insufficiency    |-> DOMAIN items = {} \/ "missing" \in kinds]
           causes == {n \in DOMAIN FailureCauses : given[FailureCauses[n]]}
<1>1. VerdictAndCause(items) = IF causes = {} THEN [verdict |-> "passed", cause |-> "none"]
                               ELSE [verdict |-> "failed", cause |-> FailureCauses[Min(causes)]]
  BY DEF VerdictAndCause
<1>2. /\ DOMAIN FailureCauses = 1..5
      /\ FailureCauses[1] = "contradictory_evidence"
      /\ FailureCauses[2] = "inconclusive_verification"
      /\ FailureCauses[3] = "execution_failure"
      /\ FailureCauses[4] = "verification_failure"
      /\ FailureCauses[5] = "evidence_insufficiency"
  BY DEF FailureCauses
<1>3. causes = {} <=> /\ ~given.contradictory_evidence /\ ~given.inconclusive_verification
                      /\ ~given.execution_failure /\ ~given.verification_failure
                      /\ ~given.evidence_insufficiency
  <2> HIDE DEF given
  <2> QED BY <1>2
<1>4. "conflicting" \notin kinds /\ "missing" \notin kinds
  BY DEF Body, ToSet
<1>5. results = {items[n].result : n \in DOMAIN items}
  BY DEF Body, ToSet
<1>6. results \subseteq PassingResults \cup ExecutionFailureResults \cup {"fail"}
  BY <1>5, VerificationAssumption
     DEF Body, Evidence, StaticOutcomes, PassingResults, ExecutionFailureResults
<1>7. causes = {} <=> /\ results \cap ExecutionFailureResults = {}
                      /\ "fail" \notin results /\ DOMAIN items # {}
  <2>1. /\ ~given.contradictory_evidence /\ ~given.inconclusive_verification
        /\ given.execution_failure <=> results \cap ExecutionFailureResults # {}
        /\ given.verification_failure <=> "fail" \in results
        /\ given.evidence_insufficiency <=> DOMAIN items = {}
    <3> HIDE DEF kinds, results
    <3>1. results \ (PassingResults \cup ExecutionFailureResults \cup {"fail"}) = {}
      BY <1>6
    <3>2. /\ given.contradictory_evidence = ("conflicting" \in kinds)
          /\ given.inconclusive_verification =
               (results \ (PassingResults \cup ExecutionFailureResults \cup {"fail"}) # {})
          /\ given.execution_failure = (results \cap ExecutionFailureResults # {})
          /\ given.verification_failure = ("fail" \in results)
          /\ given.evidence_insufficiency = (DOMAIN items = {} \/ "missing" \in kinds)
      BY Zenon
    <3> HIDE DEF given
    <3>3. ~given.contradictory_evidence /\ ~given.inconclusive_verification
      BY <1>4, <3>1, <3>2
    <3>4. /\ given.execution_failure <=> results \cap ExecutionFailureResults # {}
          /\ given.verification_failure <=> "fail" \in results
      BY <3>2
    <3>5. given.evidence_insufficiency <=> DOMAIN items = {}
      BY <1>4, <3>2
    <3> QED BY <3>3, <3>4, <3>5
  <2> HIDE DEF given, causes
  <2> QED BY <1>3, <2>1
<1>8. causes = {} <=> DOMAIN items # {} /\ Passes(items)
  <2>1. Passes(items) <=> results \subseteq PassingResults
    BY <1>5 DEF Passes
  <2> HIDE DEF results, causes
  <2>2. results \subseteq PassingResults
          <=> results \cap ExecutionFailureResults = {} /\ "fail" \notin results
    BY <1>6 DEF PassingResults, ExecutionFailureResults
  <2> QED BY <1>7, <2>1, <2>2
<1> HIDE DEF causes
<1> QED BY <1>1, <1>8

\* The items of a claim that count for it, and whether one contradicts it.
Substantive(f, claim) ==
  {n \in DOMAIN f : /\ <<f[n].level, f[n].rule>> = claim
                    /\ f[n].kind \in {"independent", "corroborating"}}
Contradicted(f, claim) ==
  \E n \in DOMAIN f : <<f[n].level, f[n].rule>> = claim /\ f[n].kind = "conflicting"

LEMMA StrengthOf ==
  ASSUME NEW f, NEW claim
  PROVE  ClaimStrength(f, claim) =
           IF Contradicted(f, claim) THEN "conflicted" ELSE
             CASE Cardinality(Substantive(f, claim)) >= 2 -> "corroborated"
               [] Cardinality(Substantive(f, claim)) = 1 -> "single"
               [] OTHER -> "absent"
<1> DEFINE D == {n \in DOMAIN f : <<f[n].level, f[n].rule>> = claim}
           kinds == [n \in D |-> f[n].kind]
           substantive == {n \in DOMAIN kinds : kinds[n] \in {"independent", "corroborating"}}
<1>1. DOMAIN kinds = D /\ \A n \in D : kinds[n] = f[n].kind
  OBVIOUS
<1>2. substantive = Substantive(f, claim)
  <2> HIDE DEF kinds
  <2> QED BY <1>1 DEF Substantive
<1>3. (\E n \in DOMAIN kinds : kinds[n] = "conflicting") <=> Contradicted(f, claim)
  <2> HIDE DEF kinds
  <2> QED BY <1>1 DEF Contradicted
<1>4. ClaimStrength(f, claim) =
        IF \E n \in DOMAIN kinds : kinds[n] = "conflicting" THEN "conflicted" ELSE
          CASE Cardinality(substantive) >= 2 -> "corroborated"
            [] Cardinality(substantive) = 1 -> "single"
            [] OTHER -> "absent"
  BY DEF ClaimStrength
<1> HIDE DEF D, kinds, substantive
<1> QED BY <1>2, <1>3, <1>4

\* The body of a record without the items that repeat a check.
Once(items) == RestrictValues(items, LAMBDA i : i.kind # "redundant")

\* Every repeated check has a first outcome.
Founded(items) ==
  \A n \in DOMAIN items : items[n].kind = "redundant" =>
    \E m \in DOMAIN items : /\ items[m].kind = "independent"
                            /\ items[m].rule = items[n].rule /\ items[m].level = items[n].level

LEMMA OnceFacts ==
  ASSUME NEW items, Body(items)
  PROVE  /\ DOMAIN Once(items) = {n \in DOMAIN items : items[n].kind = "independent"}
         /\ \A n \in DOMAIN Once(items) : Once(items)[n] = items[n]
         /\ Body(Once(items))
<1>1. /\ DOMAIN Once(items) = {n \in DOMAIN items : items[n].kind # "redundant"}
      /\ \A n \in DOMAIN Once(items) : Once(items)[n] = items[n]
  BY DEF Once, RestrictValues, Restrict
<1> QED BY <1>1 DEF Body

\* Strength, confidence and coverage do not see the repeated checks.
LEMMA RedundantStrength ==
  ASSUME NEW items, Body(items), Founded(items)
  PROVE  /\ Claims(Once(items)) = Claims(items)
         /\ \A c : ClaimStrength(Once(items), c) = ClaimStrength(items, c)
<1> DEFINE once == Once(items)
<1>1. /\ DOMAIN once = {n \in DOMAIN items : items[n].kind = "independent"}
      /\ \A n \in DOMAIN once : once[n] = items[n]
  BY OnceFacts
<1> HIDE DEF once
<1>2. Claims(items) = {<<items[n].level, items[n].rule>> : n \in DOMAIN items}
  BY DEF Claims, ToSet
<1>3. Claims(once) = {<<items[n].level, items[n].rule>> : n \in DOMAIN once}
  BY <1>1 DEF Claims, ToSet
<1>4. ASSUME NEW n \in DOMAIN items
      PROVE  \E m \in DOMAIN once : <<items[m].level, items[m].rule>>
                                      = <<items[n].level, items[n].rule>>
  BY <1>1, <1>4 DEF Body, Founded
<1>5. Claims(once) = Claims(items)
  <2>1. Claims(once) \subseteq Claims(items)
    BY <1>1, <1>2, <1>3
  <2>2. ASSUME NEW c \in Claims(items) PROVE c \in Claims(once)
    <3>1. PICK n \in DOMAIN items : c = <<items[n].level, items[n].rule>>
      BY <1>2
    <3> QED BY <1>3, <1>4, <3>1
  <2> QED BY <2>1, <2>2
<1>6. ASSUME NEW c PROVE ClaimStrength(once, c) = ClaimStrength(items, c)
  <2>1. Substantive(once, c) = Substantive(items, c)
    BY <1>1 DEF Substantive, Body
  <2>2. Contradicted(once, c) <=> Contradicted(items, c)
    BY <1>1 DEF Contradicted, Body
  <2>3. ClaimStrength(once, c) = IF Contradicted(once, c) THEN "conflicted" ELSE
             CASE Cardinality(Substantive(once, c)) >= 2 -> "corroborated"
               [] Cardinality(Substantive(once, c)) = 1 -> "single"
               [] OTHER -> "absent"
    BY StrengthOf
  <2>4. ClaimStrength(items, c) = IF Contradicted(items, c) THEN "conflicted" ELSE
             CASE Cardinality(Substantive(items, c)) >= 2 -> "corroborated"
               [] Cardinality(Substantive(items, c)) = 1 -> "single"
               [] OTHER -> "absent"
    BY StrengthOf
  <2> QED BY <2>1, <2>2, <2>3, <2>4
<1> QED BY <1>5, <1>6 DEF once

LEMMA RedundantAccount ==
  ASSUME NEW items, Body(items), Founded(items)
  PROVE  LET with == Derive(items)
             without == Derive(Once(items))
         IN  /\ with.confidence = without.confidence
             /\ with.coverage = without.coverage
             /\ with.outcome.verdict = "passed" => with = without
<1>1. PICK once : once = Once(items)
  OBVIOUS
<1>2. Claims(once) = Claims(items) /\ \A c : ClaimStrength(once, c) = ClaimStrength(items, c)
  BY <1>1, RedundantStrength
<1>3. \A d : Confidence(once, d) = Confidence(items, d)
  BY <1>2 DEF Confidence
<1>4. Coverage(once) = Coverage(items)
  BY <1>2 DEF Coverage
<1>5. Uncertainty(once) = Uncertainty(items)
  BY <1>2 DEF Uncertainty
<1>6. ASSUME VerdictAndCause(items).verdict = "passed"
      PROVE  VerdictAndCause(once) = VerdictAndCause(items)
  <2>1. DOMAIN items # {} /\ Passes(items)
    BY <1>6, PassedVerdict
  <2>2. /\ Body(once) /\ DOMAIN once = {n \in DOMAIN items : items[n].kind = "independent"}
        /\ \A n \in DOMAIN once : once[n] = items[n]
    BY <1>1, OnceFacts
  <2>3. DOMAIN once # {} /\ Passes(once)
    BY <2>1, <2>2 DEF Founded, Body, Passes
  <2>4. VerdictAndCause(once).verdict = "passed"
    BY <2>2, <2>3, PassedVerdict
  <2>5. \A f : VerdictAndCause(f) = [verdict |-> VerdictAndCause(f).verdict,
                                     cause |-> VerdictAndCause(f).cause]
    BY DEF VerdictAndCause
  <2>6. VerdictAndCause(once).cause = "none" /\ VerdictAndCause(items).cause = "none"
    BY <1>6, <2>2, <2>4, PassedVerdict
  <2> QED BY <1>6, <2>4, <2>5, <2>6
<1>7. ASSUME VerdictAndCause(items).verdict = "passed"
      PROVE  AssuranceLevel(once) = AssuranceLevel(items)
  BY <1>3, <1>4, <1>6, <1>7 DEF AssuranceLevel
<1> QED BY <1>1, <1>3, <1>4, <1>5, <1>6, <1>7 DEF Derive

-----------------------------------------------------------------------------
(* A judgment collects one first outcome of every check that has ended.    *)

Judgments ==
  [id : Ids, version : Versions,
   delegations : [Delegated -> {"required", "dispatched", "resulted", "expired"}],
   static_pending : SUBSET Static, items : Seq(Evidence)]

First(items, n, c) == items[n].rule = c /\ items[n].kind = "independent"
Touched(items, c) == \E n \in DOMAIN items : items[n].rule = c
Unique(items, c) ==
  \E n \in DOMAIN items : First(items, n, c) /\ \A m \in DOMAIN items : First(items, m, c) => m = n

Done(j, c) == IF c \in Delegated THEN Ended(j.delegations[c]) ELSE c \notin j.static_pending

\* An item is of the level of its check, and either the first of it or a repetition.
Levelled(items) ==
  \A n \in DOMAIN items : /\ items[n].level = LevelOf[items[n].rule]
                          /\ items[n].kind \in {"independent", "redundant"}

Collects(j) ==
  /\ Levelled(j.items)
  /\ \A c \in Required : IF Done(j, c) THEN Unique(j.items, c) ELSE ~Touched(j.items, c)

\* The body of a closed judgment.
Complete(items) == Levelled(items) /\ \A c \in Required : Unique(items, c)

LEMMA AppendFirst ==
  ASSUME NEW items \in Seq(Evidence), NEW item \in Evidence, item.kind = "independent",
         item.level = LevelOf[item.rule], Levelled(items), ~Touched(items, item.rule)
  PROVE  /\ Append(items, item) \in Seq(Evidence) /\ Levelled(Append(items, item))
         /\ Unique(Append(items, item), item.rule)
         /\ \A c : c # item.rule => /\ Unique(items, c) => Unique(Append(items, item), c)
                                    /\ ~Touched(items, c) => ~Touched(Append(items, item), c)
<1>1. PICK n \in Nat : n = Len(items)
  BY LenProperties
<1>2. PICK after : after = Append(items, item)
  OBVIOUS
<1>3. /\ after \in Seq(Evidence) /\ DOMAIN items = 1..n /\ DOMAIN after = 1..n+1
      /\ after[n + 1] = item /\ \A i \in 1..n : after[i] = items[i]
  BY <1>1, <1>2, AppendProperties, LenProperties
<1>4. Levelled(after)
  BY <1>3 DEF Levelled
<1>5. Unique(after, item.rule)
  BY <1>3 DEF Unique, First, Touched
<1>6. ASSUME NEW c, c # item.rule, Unique(items, c) PROVE Unique(after, c)
  <2>1. PICK k \in 1..n : First(items, k, c) /\ \A m \in 1..n : First(items, m, c) => m = k
    BY <1>3, <1>6 DEF Unique
  <2>2. k \in DOMAIN after /\ First(after, k, c)
    BY <1>3, <2>1 DEF First
  <2>3. ASSUME NEW m \in DOMAIN after, First(after, m, c) PROVE m = k
    <3>1. m \in 1..n
      BY <1>3, <1>6, <2>3 DEF First
    <3> QED BY <1>3, <2>1, <2>3, <3>1 DEF First
  <2> QED BY <2>2, <2>3 DEF Unique
<1>7. ASSUME NEW c, c # item.rule, ~Touched(items, c) PROVE ~Touched(after, c)
  BY <1>3, <1>7 DEF Touched
<1> QED BY <1>2, <1>3, <1>4, <1>5, <1>6, <1>7

LEMMA AppendRepeated ==
  ASSUME NEW items \in Seq(Evidence), NEW item \in Evidence, item.kind = "redundant",
         item.level = LevelOf[item.rule], Levelled(items), Unique(items, item.rule)
  PROVE  /\ Append(items, item) \in Seq(Evidence) /\ Levelled(Append(items, item))
         /\ \A c : Unique(items, c) => Unique(Append(items, item), c)
         /\ \A c : c # item.rule /\ ~Touched(items, c) => ~Touched(Append(items, item), c)
<1>1. PICK n \in Nat : n = Len(items)
  BY LenProperties
<1>2. PICK after : after = Append(items, item)
  OBVIOUS
<1>3. /\ after \in Seq(Evidence) /\ DOMAIN items = 1..n /\ DOMAIN after = 1..n+1
      /\ after[n + 1] = item /\ \A i \in 1..n : after[i] = items[i]
  BY <1>1, <1>2, AppendProperties, LenProperties
<1>4. Levelled(after)
  BY <1>3 DEF Levelled
<1>5. ASSUME NEW c, Unique(items, c) PROVE Unique(after, c)
  <2>1. PICK k \in 1..n : First(items, k, c) /\ \A m \in 1..n : First(items, m, c) => m = k
    BY <1>3, <1>5 DEF Unique
  <2>2. k \in DOMAIN after /\ First(after, k, c)
    BY <1>3, <2>1 DEF First
  <2>3. ASSUME NEW m \in DOMAIN after, First(after, m, c) PROVE m = k
    <3>1. m \in 1..n
      BY <1>3, <1>5, <2>3 DEF First
    <3> QED BY <1>3, <2>1, <2>3, <3>1 DEF First
  <2> QED BY <2>2, <2>3 DEF Unique
<1>6. ASSUME NEW c, c # item.rule, ~Touched(items, c) PROVE ~Touched(after, c)
  BY <1>3, <1>6 DEF Touched
<1> QED BY <1>2, <1>3, <1>4, <1>5, <1>6

\* What a complete body gives: one first outcome per check, and nothing for repetitions.
LEMMA CompleteBody ==
  ASSUME NEW items \in Seq(Evidence), Complete(items)
  PROVE  /\ Body(items) /\ Founded(items)
         /\ \A c \in Required :
              Cardinality({n \in DOMAIN items :
                             items[n].rule = c /\ items[n].kind = "independent"}) = 1
<1>1. DOMAIN items = 1..Len(items) /\ \A n \in DOMAIN items : items[n] \in Evidence
  BY LenProperties
<1>2. Body(items)
  BY <1>1 DEF Complete, Levelled, Body
<1>3. Founded(items)
  <2> SUFFICES ASSUME NEW n \in DOMAIN items
               PROVE  \E m \in DOMAIN items : /\ items[m].kind = "independent"
                                              /\ items[m].rule = items[n].rule
                                              /\ items[m].level = items[n].level
    BY DEF Founded
  <2>1. items[n].rule \in Required
    BY <1>1 DEF Evidence, Required
  <2>2. PICK m \in DOMAIN items : First(items, m, items[n].rule)
    BY <2>1 DEF Complete, Unique
  <2> QED BY <2>2 DEF First, Complete, Levelled
<1>4. ASSUME NEW c \in Required
      PROVE  Cardinality({n \in DOMAIN items :
                            items[n].rule = c /\ items[n].kind = "independent"}) = 1
  <2>1. PICK n \in DOMAIN items : /\ First(items, n, c)
                                  /\ \A m \in DOMAIN items : First(items, m, c) => m = n
    BY DEF Complete, Unique
  <2>2. {m \in DOMAIN items : items[m].rule = c /\ items[m].kind = "independent"} = {n}
    BY <2>1 DEF First
  <2> QED BY <2>2, FS_Singleton
<1> QED BY <1>2, <1>3, <1>4

-----------------------------------------------------------------------------
(* The inductive invariant.                                                *)

Demands == [artifact : Artifacts, version : Versions]
Answers == [asked : Nat, told : Nat, result : Outcomes \cup {None}]
Events == [name : {"verify.passed", "verify.failed", "fault.recorded"},
           artifact : Artifacts, record : Records \cup {None}]

Types ==
  /\ demands \in Seq(Demands) /\ Len(demands) <= MaxDemands
  /\ rules \subseteq Versions
  /\ judging \in [Artifacts -> Ids \cup {None}]
  /\ terminal \in [Artifacts -> Records \cup {None}]
  /\ open \in [Artifacts -> Judgments \cup {None}]
  /\ execution \in [Ids -> [Delegated -> Answers]]
  /\ storage \subseteq Records
  /\ bus \in Seq(Events)
  /\ at \in {"idle", "publish", "fault"} /\ subject \in Artifacts /\ up \in BOOLEAN

\* Every judgment under way collects, and every stored record is complete.
Collected ==
  /\ \A a \in Artifacts : open[a] # None => Collects(open[a])
  /\ \A r \in storage : Complete(r.items)

\* Every published verdict is that of a stored record, and the only one of its artifact.
Explained ==
  /\ \A n \in DOMAIN bus : bus[n].name # "fault.recorded" =>
       bus[n].record \in storage /\ bus[n] = VerdictEvent(bus[n].record)
  /\ \A a \in Artifacts : \A m, n \in Published(a) : m = n

\* An artifact with a verdict is closed: in Intake while the process runs, and in
\* Storage for the next one.
ClosedOnce ==
  \A a \in Artifacts :
    /\ terminal[a] # None =>
         /\ terminal[a] \in storage /\ terminal[a].artifact = a
         /\ open[a] = None /\ judging[a] = None
    /\ Published(a) # {} => a \in Persisted /\ (up => terminal[a] # None)
    /\ ~up => open[a] = None /\ judging[a] = None /\ terminal[a] = None

\* Between the write and the publish the judgment is open and its record stored.
Emitting ==
  /\ at # "idle" => up /\ open[subject] # None
  /\ at = "publish" => RecordOf(subject, open[subject]) \in storage

IInv == Types /\ Collected /\ Explained /\ ClosedOnce /\ Emitting

LEMMA InitIInv == Init => IInv
<1> SUFFICES ASSUME Init PROVE IInv
  OBVIOUS
<1>1. demands = <<>> /\ bus = <<>> /\ DOMAIN bus = {} /\ Len(demands) = 0
  BY DEF Init
<1>2. demands \in Seq(Demands) /\ bus \in Seq(Events)
  BY <1>1
<1>3. execution \in [Ids -> [Delegated -> Answers]]
  BY DEF Init, Answers
<1>4. Types
  BY <1>1, <1>2, <1>3, VerificationAssumption DEF Init, Types
<1>5. \A a \in Artifacts : Published(a) = {} /\ open[a] = None /\ terminal[a] = None
  BY <1>1 DEF Published, Init
<1>6. Collected /\ Explained /\ ClosedOnce /\ Emitting
  BY <1>1, <1>5 DEF Init, Collected, Explained, ClosedOnce, Emitting
<1> QED BY <1>4, <1>6 DEF IInv

\* A fresh judgment has collected nothing.
LEMMA FreshJudgment ==
  ASSUME NEW id \in Ids, NEW v \in Versions
  PROVE  OpenJudgment(id, v) \in Judgments /\ Collects(OpenJudgment(id, v))
<1>1. PICK j : j = OpenJudgment(id, v)
  OBVIOUS
<1>2. /\ j.items = <<>> /\ j.static_pending = Static
      /\ j.delegations = [c \in Delegated |-> "required"]
      /\ j \in Judgments
  BY <1>1 DEF OpenJudgment, Judgments
<1>3. DOMAIN j.items = {}
  BY <1>2
<1>4. \A c \in Required : ~Done(j, c)
  BY <1>2 DEF Done, Required, Ended
<1>5. Collects(j)
  BY <1>3, <1>4 DEF Collects, Levelled, Touched
<1> QED BY <1>1, <1>2, <1>5

\* handle_demand opens a judgment only of an artifact without a verdict.
LEMMA DemandIInv ==
  ASSUME IInv, Idle, NEW id \in Ids, NEW d \in Demands, HandleDemand(id, d),
         demands' \in Seq(Demands), Len(demands') <= MaxDemands
  PROVE  IInv'
<1>1. /\ d.artifact \in Artifacts /\ d.version \in Versions
      /\ UNCHANGED <<terminal, rules, execution, storage, bus, at, subject, up>>
  BY DEF Demands, HandleDemand
<1>2. PICK j : j = OpenJudgment(id, d.version)
  OBVIOUS
<1>3. j \in Judgments /\ Collects(j)
  BY <1>1, <1>2, FreshJudgment
<1>4. CASE Receive(id, d.artifact) # "opened"
  BY <1>1, <1>4 DEF HandleDemand, IInv, Types, Collected, Explained, ClosedOnce, Emitting,
                    Published, Persisted
<1>5. CASE Receive(id, d.artifact) = "opened"
  <2>1. terminal[d.artifact] = None
    BY <1>5 DEF Receive
  <2>2. /\ judging' = [judging EXCEPT ![d.artifact] = id]
        /\ open' = open \/ open' = [open EXCEPT ![d.artifact] = j]
    BY <1>2, <1>5 DEF HandleDemand
  <2>3. Types'
    BY <1>1, <1>3, <2>2 DEF IInv, Types
  <2>4. \A a \in Artifacts : open'[a] = open[a] \/ (a = d.artifact /\ open'[a] = j)
    BY <2>2 DEF IInv, Types
  <2>5. Collected'
    BY <1>1, <1>3, <2>4 DEF IInv, Collected
  <2>6. Explained'
    BY <1>1 DEF IInv, Explained, Published
  <2>7. ClosedOnce'
    <3>1. \A a \in Artifacts : terminal[a] # None => open'[a] = open[a] /\ judging'[a] = judging[a]
      BY <2>1, <2>2, <2>4 DEF IInv, Types
    <3> QED BY <1>1, <3>1 DEF IInv, ClosedOnce, Published, Persisted, Idle
  <2>8. Emitting'
    BY <1>1 DEF Emitting, Idle
  <2> QED BY <2>3, <2>5, <2>6, <2>7, <2>8 DEF IInv
<1> QED BY <1>4, <1>5

\* A step of one open judgment keeps the invariant when the judgment goes on collecting.
LEMMA JudgeIInv ==
  ASSUME IInv, NEW a \in Artifacts, Open(a), NEW j \in Judgments, Collects(j),
         open' = [open EXCEPT ![a] = j], UNCHANGED Unmoved,
         execution' \in [Ids -> [Delegated -> Answers]]
  PROVE  IInv'
<1>1. UNCHANGED <<demands, rules, judging, terminal, storage, bus, at, subject, up>>
  BY DEF Unmoved
<1>2. \A b \in Artifacts : open'[b] = IF b = a THEN j ELSE open[b]
  BY DEF IInv, Types
<1>3. Types'
  BY <1>1 DEF IInv, Types
<1>4. Collected'
  BY <1>1, <1>2 DEF IInv, Collected
<1>5. Explained'
  BY <1>1 DEF IInv, Explained, Published
<1>6. ClosedOnce'
  BY <1>1, <1>2 DEF IInv, ClosedOnce, Published, Persisted, Open, Idle
<1>7. Emitting'
  BY <1>1 DEF Emitting, Open, Idle
<1> QED BY <1>3, <1>4, <1>5, <1>6, <1>7 DEF IInv

\* An answer about a delegated check ends it.
LEMMA ConcludeCollects ==
  ASSUME NEW j \in Judgments, Collects(j), NEW c \in Delegated, j.delegations[c] = "dispatched",
         NEW state \in {"resulted", "expired"},
         NEW result \in Outcomes \cup {"execution_failure"}
  PROVE  LET k == [j EXCEPT !.delegations[c] = state,
                            !.items = Append(@, Item(c, result, "independent"))]
         IN  k \in Judgments /\ Collects(k)
<1>1. PICK item : item = Item(c, result, "independent")
  OBVIOUS
<1>2. /\ item \in Evidence /\ item.rule = c /\ item.kind = "independent"
      /\ item.level = LevelOf[item.rule]
  BY <1>1, VerificationAssumption DEF Item, Evidence, Kinds
<1>3. j.items \in Seq(Evidence) /\ ~Done(j, c) /\ c \in Required
  BY DEF Judgments, Done, Ended, Required
<1>4. Levelled(j.items) /\ ~Touched(j.items, c)
  BY <1>3 DEF Collects
<1>5. PICK after : after = Append(j.items, item)
  OBVIOUS
<1>6. /\ after \in Seq(Evidence) /\ Levelled(after) /\ Unique(after, c)
      /\ \A d : d # c => /\ Unique(j.items, d) => Unique(after, d)
                         /\ ~Touched(j.items, d) => ~Touched(after, d)
  BY <1>2, <1>3, <1>4, <1>5, AppendFirst
<1>7. PICK k : k = [j EXCEPT !.delegations[c] = state, !.items = after]
  OBVIOUS
<1>8. k \in Judgments /\ k.items = after /\ k.static_pending = j.static_pending
      /\ k.delegations = [j.delegations EXCEPT ![c] = state]
  BY <1>6, <1>7 DEF Judgments
<1>9. Done(k, c) /\ \A d \in Required : d # c => (Done(k, d) <=> Done(j, d))
  BY <1>8 DEF Done, Ended, Judgments
<1>10. Collects(k)
  BY <1>6, <1>8, <1>9 DEF Collects
<1> QED BY <1>1, <1>5, <1>7, <1>8, <1>10

\* A static check is run once.
LEMMA StaticCollects ==
  ASSUME NEW j \in Judgments, Collects(j), NEW c \in j.static_pending,
         NEW result \in StaticOutcomes
  PROVE  LET k == [j EXCEPT !.static_pending = @ \ {c},
                            !.items = Append(@, Item(c, result, "independent"))]
         IN  k \in Judgments /\ Collects(k)
<1>1. PICK item : item = Item(c, result, "independent")
  OBVIOUS
<1>2. c \in Static /\ c \notin Delegated /\ c \in Required
  BY VerificationAssumption DEF RulesBuild, Judgments, Required
<1>3. /\ item \in Evidence /\ item.rule = c /\ item.kind = "independent"
      /\ item.level = LevelOf[item.rule]
  BY <1>1, <1>2, VerificationAssumption DEF Item, Evidence, Kinds
<1>4. j.items \in Seq(Evidence) /\ Levelled(j.items) /\ ~Touched(j.items, c)
  BY <1>2 DEF Judgments, Collects, Done
<1>5. PICK after : after = Append(j.items, item)
  OBVIOUS
<1>6. /\ after \in Seq(Evidence) /\ Levelled(after) /\ Unique(after, c)
      /\ \A d : d # c => /\ Unique(j.items, d) => Unique(after, d)
                         /\ ~Touched(j.items, d) => ~Touched(after, d)
  BY <1>3, <1>4, <1>5, AppendFirst
<1>7. PICK k : k = [j EXCEPT !.static_pending = @ \ {c}, !.items = after]
  OBVIOUS
<1>8. k \in Judgments /\ k.items = after /\ k.static_pending = j.static_pending \ {c}
      /\ k.delegations = j.delegations
  BY <1>6, <1>7 DEF Judgments
<1>9. Done(k, c) /\ \A d \in Required : d # c => (Done(k, d) <=> Done(j, d))
  BY <1>2, <1>8 DEF Done
<1>10. Collects(k)
  BY <1>6, <1>8, <1>9 DEF Collects
<1> QED BY <1>1, <1>5, <1>7, <1>8, <1>10

\* A late answer repeats a check that has ended.
LEMMA LateCollects ==
  ASSUME NEW j \in Judgments, Collects(j), NEW c \in Delegated, Ended(j.delegations[c]),
         NEW result \in Outcomes
  PROVE  LET k == [j EXCEPT !.items = Append(@, Item(c, result, "redundant"))]
         IN  k \in Judgments /\ Collects(k)
<1>1. PICK item : item = Item(c, result, "redundant")
  OBVIOUS
<1>2. /\ item \in Evidence /\ item.rule = c /\ item.kind = "redundant"
      /\ item.level = LevelOf[item.rule]
  BY <1>1, VerificationAssumption DEF Item, Evidence, Kinds
<1>3. /\ j.items \in Seq(Evidence) /\ Levelled(j.items) /\ c \in Required /\ Done(j, c)
      /\ Unique(j.items, c)
  BY DEF Judgments, Done, Required, Collects
<1>4. PICK after : after = Append(j.items, item)
  OBVIOUS
<1>5. /\ after \in Seq(Evidence) /\ Levelled(after)
      /\ \A d : Unique(j.items, d) => Unique(after, d)
      /\ \A d : d # c /\ ~Touched(j.items, d) => ~Touched(after, d)
  BY <1>2, <1>3, <1>4, AppendRepeated
<1>6. PICK k : k = [j EXCEPT !.items = after]
  OBVIOUS
<1>7. k \in Judgments /\ k.items = after /\ \A d \in Required : Done(k, d) <=> Done(j, d)
  BY <1>5, <1>6 DEF Judgments, Done
<1>8. Collects(k)
  BY <1>3, <1>5, <1>7 DEF Collects
<1> QED BY <1>1, <1>4, <1>6, <1>7, <1>8

\* dispatch: the check is under way, and nothing is known of it yet.
LEMMA DispatchCollects ==
  ASSUME NEW j \in Judgments, Collects(j), NEW c \in Delegated, j.delegations[c] = "required"
  PROVE  LET k == [j EXCEPT !.delegations[c] = "dispatched"]
         IN  k \in Judgments /\ Collects(k)
<1>1. PICK k : k = [j EXCEPT !.delegations[c] = "dispatched"]
  OBVIOUS
<1>2. k \in Judgments /\ k.items = j.items /\ k.static_pending = j.static_pending
      /\ k.delegations = [j.delegations EXCEPT ![c] = "dispatched"]
  BY <1>1 DEF Judgments
<1>3. \A d \in Required : Done(k, d) <=> Done(j, d)
  BY <1>2 DEF Done, Ended, Judgments
<1>4. Collects(k)
  BY <1>2, <1>3 DEF Collects
<1> QED BY <1>1, <1>2, <1>4

LEMMA AskedType ==
  ASSUME IInv, NEW id \in Ids, NEW c \in Delegated, Asked(id, c)
  PROVE  execution' \in [Ids -> [Delegated -> Answers]]
<1>1. execution \in [Ids -> [Delegated -> Answers]]
  BY DEF IInv, Types
<1>2. PICK r \in Answers : r = execution[id][c]
  BY <1>1
<1>3. PICK n : n = [r EXCEPT !.asked = r.asked + 1]
  OBVIOUS
<1>4. n \in Answers
  BY <1>3 DEF Answers
<1>5. execution' = [execution EXCEPT ![id] = [execution[id] EXCEPT ![c] = n]]
  BY <1>2, <1>3 DEF Asked
<1> QED BY <1>1, <1>4, <1>5

\* The steps about the checks of an open judgment.
LEMMA CheckIInv ==
  ASSUME IInv, NEW a \in Artifacts, NEW c \in Delegated,
         Dispatch(a, c) \/ DispatchUnacked(a, c) \/ Resolve(a, c) \/ LateResult(a, c)
  PROVE  IInv'
<1>1. /\ Open(a) /\ open[a] \in Judgments /\ Collects(open[a]) /\ open[a].id \in Ids
      /\ execution \in [Ids -> [Delegated -> Answers]]
  BY DEF Dispatch, DispatchUnacked, Resolve, LateResult, Open, IInv, Types, Collected, Judgments
<1>2. PICK j \in Judgments : j = open[a]
  BY <1>1
<1>3. CASE Dispatch(a, c)
  <2>1. PICK k : k = [j EXCEPT !.delegations[c] = "dispatched"]
    OBVIOUS
  <2>2. k \in Judgments /\ Collects(k)
    BY <1>1, <1>2, <1>3, <2>1, DispatchCollects DEF Dispatch
  <2>3. open' = [open EXCEPT ![a] = k] /\ UNCHANGED Unmoved /\ Asked(j.id, c)
    BY <1>2, <1>3, <2>1 DEF Dispatch, Judge
  <2> QED BY <1>1, <1>2, <2>2, <2>3, AskedType, JudgeIInv
<1>4. CASE DispatchUnacked(a, c)
  <2>1. open' = open /\ UNCHANGED Unmoved /\ Asked(j.id, c)
    BY <1>2, <1>4 DEF DispatchUnacked
  <2>2. open' = [open EXCEPT ![a] = j]
    BY <1>2, <2>1 DEF IInv, Types
  <2> QED BY <1>1, <1>2, <2>1, <2>2, AskedType, JudgeIInv
<1>5. CASE Resolve(a, c)
  <2>1. PICK result \in Outcomes \cup {"execution_failure"}, state \in {"resulted", "expired"} :
          Conclude(a, c, state, result)
    BY <1>1, <1>5 DEF Resolve, Answers
  <2>2. j.delegations[c] = "dispatched" /\ UNCHANGED Unmoved /\ execution' = execution
    BY <1>2, <1>5 DEF Resolve
  <2>3. PICK k : k = [j EXCEPT !.delegations[c] = state,
                             !.items = Append(@, Item(c, result, "independent"))]
    OBVIOUS
  <2>4. k \in Judgments /\ Collects(k)
    BY <1>1, <1>2, <2>2, <2>3, ConcludeCollects
  <2>5. open' = [open EXCEPT ![a] = k]
    BY <1>2, <2>1, <2>3 DEF Conclude, Judge
  <2> QED BY <1>1, <2>2, <2>4, <2>5, JudgeIInv
<1>6. CASE LateResult(a, c)
  <2>1. PICK result \in Outcomes : result = execution[j.id][c].result
    BY <1>1, <1>2, <1>6 DEF LateResult, Answers
  <2>2. Ended(j.delegations[c]) /\ UNCHANGED Unmoved /\ execution' = execution
    BY <1>2, <1>6 DEF LateResult
  <2>3. PICK k : k = [j EXCEPT !.items = Append(@, Item(c, result, "redundant"))]
    OBVIOUS
  <2>4. k \in Judgments /\ Collects(k)
    BY <1>1, <1>2, <2>2, <2>3, LateCollects
  <2>5. open' = [open EXCEPT ![a] = k]
    BY <1>2, <1>6, <2>1, <2>3 DEF LateResult, Judge
  <2> QED BY <1>1, <2>2, <2>4, <2>5, JudgeIInv
<1> QED BY <1>3, <1>4, <1>5, <1>6

LEMMA RunStaticIInv ==
  ASSUME IInv, NEW a \in Artifacts, NEW c \in Static, RunStatic(a, c)
  PROVE  IInv'
<1>1. /\ Open(a) /\ open[a] \in Judgments /\ Collects(open[a]) /\ c \in open[a].static_pending
      /\ execution \in [Ids -> [Delegated -> Answers]]
  BY DEF RunStatic, Open, IInv, Types, Collected
<1>2. PICK j \in Judgments : j = open[a]
  BY <1>1
<1>3. PICK result \in StaticOutcomes :
        /\ Judge(a, [j EXCEPT !.static_pending = @ \ {c},
                              !.items = Append(@, Item(c, result, "independent"))])
        /\ UNCHANGED Unmoved /\ execution' = execution
  BY <1>2 DEF RunStatic
<1>4. PICK k : k = [j EXCEPT !.static_pending = @ \ {c},
                           !.items = Append(@, Item(c, result, "independent"))]
  OBVIOUS
<1>5. k \in Judgments /\ Collects(k)
  BY <1>1, <1>2, <1>4, StaticCollects
<1>6. open' = [open EXCEPT ![a] = k]
  BY <1>3, <1>4 DEF Judge
<1> QED BY <1>1, <1>3, <1>5, <1>6, JudgeIInv

\* The record of a closed judgment is complete.
LEMMA TryCloseIInv ==
  ASSUME IInv, NEW a \in Artifacts, TryClose(a)
  PROVE  IInv'
<1>1. /\ up /\ open[a] # None /\ IsClosed(open[a]) /\ terminal[a] = None /\ subject' = a
      /\ UNCHANGED <<demands, rules, judging, terminal, open, execution, bus, up>>
      /\ \/ storage' = storage \cup {RecordOf(a, open[a])} /\ at' = "publish"
         \/ storage' = storage /\ at' = "fault"
  BY DEF TryClose, Open, Idle, pendingVars
<1>2. open[a] \in Judgments /\ Collects(open[a])
  BY <1>1 DEF IInv, Types, Collected
<1>3. RecordOf(a, open[a]) \in Records /\ RecordOf(a, open[a]).items = open[a].items
  BY <1>2 DEF RecordOf, Records, Judgments
<1>4. \A c \in Required : Done(open[a], c)
  BY <1>1 DEF IsClosed, Done, Required
<1>5. Complete(open[a].items)
  BY <1>2, <1>4 DEF Collects, Complete
<1>6. Types'
  BY <1>1, <1>3 DEF IInv, Types
<1>7. Collected'
  BY <1>1, <1>3, <1>5 DEF IInv, Collected
<1>8. Explained'
  BY <1>1 DEF IInv, Explained, Published
<1>9. ClosedOnce'
  BY <1>1 DEF IInv, ClosedOnce, Published, Persisted
<1>10. Emitting'
  BY <1>1 DEF Emitting
<1> QED BY <1>6, <1>7, <1>8, <1>9, <1>10 DEF IInv

\* publish: the first verdict of the artifact, and Intake is told.
LEMMA PublishIInv ==
  ASSUME IInv, Publish
  PROVE  IInv'
<1>1. /\ at = "publish" /\ up /\ subject \in Artifacts /\ open[subject] \in Judgments
      /\ open[subject] # None /\ RecordOf(subject, open[subject]) \in storage
      /\ storage \subseteq Records
  BY DEF Publish, IInv, Types, Emitting
<1>2. PICK record \in storage : record = RecordOf(subject, open[subject])
  BY <1>1
<1>3. record \in Records /\ record.artifact = subject
  BY <1>1, <1>2 DEF RecordOf
<1>4. PICK e : e = VerdictEvent(record)
  OBVIOUS
<1>5. /\ e \in Events /\ e.name # "fault.recorded" /\ e.artifact = subject /\ e.record = record
  BY <1>3, <1>4 DEF VerdictEvent, Events, Records
<1>6. /\ bus' = Append(bus, e) /\ at' = "idle"
      /\ open' = [open EXCEPT ![subject] = None]
      /\ terminal' = [terminal EXCEPT ![subject] = record]
      /\ judging' = [judging EXCEPT ![subject] = None]
      /\ UNCHANGED <<demands, rules, execution, storage, subject, up>>
  BY <1>2, <1>4 DEF Publish, MarkTerminal
<1>7. Types'
  BY <1>3, <1>5, <1>6, AppendProperties DEF IInv, Types
<1>8. Collected'
  BY <1>6 DEF IInv, Types, Collected
<1>9. PICK n \in Nat : n = Len(bus)
  BY LenProperties DEF IInv, Types
<1>10. /\ DOMAIN bus = 1..n /\ DOMAIN bus' = 1..n+1
       /\ bus'[n + 1] = e /\ \A i \in 1..n : bus'[i] = bus[i]
  BY <1>5, <1>6, <1>9, AppendProperties, LenProperties DEF IInv, Types
<1>11. Published(subject) = {}
  BY <1>1 DEF IInv, ClosedOnce
<1>12. \A a \in Artifacts : Published(a)' = IF a = subject THEN {n + 1} ELSE Published(a)
  <2>1. ASSUME NEW a \in Artifacts, a # subject PROVE Published(a)' = Published(a)
    BY <1>5, <1>10, <2>1 DEF Published
  <2>2. ASSUME NEW a \in Artifacts, a = subject PROVE Published(a)' = {n + 1}
    <3>1. ASSUME NEW m \in 1..n PROVE ~(bus'[m].artifact = a /\ bus'[m].name # "fault.recorded")
      BY <1>10, <1>11, <2>2 DEF Published
    <3>2. Published(a)' = {m \in 1..n+1 : bus'[m].artifact = a /\ bus'[m].name # "fault.recorded"}
      BY <1>10 DEF Published
    <3>3. \A m \in 1..n+1 : m \in 1..n \/ m = n + 1
      OBVIOUS
    <3>4. n + 1 \in 1..n+1
      OBVIOUS
    <3> QED BY <1>5, <1>10, <2>2, <3>1, <3>2, <3>3, <3>4
  <2> QED BY <2>1, <2>2
<1>13. Explained'
  <2>1. \A m \in DOMAIN bus' : bus'[m].name # "fault.recorded" =>
          bus'[m].record \in storage' /\ bus'[m] = VerdictEvent(bus'[m].record)
    BY <1>2, <1>4, <1>5, <1>6, <1>10 DEF IInv, Explained
  <2>2. \A a \in Artifacts : \A m, k \in Published(a)' : m = k
    BY <1>12 DEF IInv, Explained
  <2>3. \A a \in Artifacts : (\A m, k \in Published(a) : m = k)'
    BY <2>2
  <2> QED BY <2>1, <2>3 DEF Explained
<1>14. ClosedOnce'
  <2> SUFFICES ASSUME NEW a \in Artifacts
               PROVE  /\ terminal'[a] # None =>
                           /\ terminal'[a] \in storage' /\ terminal'[a].artifact = a
                           /\ open'[a] = None /\ judging'[a] = None
                      /\ Published(a)' # {} => a \in Persisted' /\ (up' => terminal'[a] # None)
                      /\ ~up' => open'[a] = None /\ judging'[a] = None /\ terminal'[a] = None
    BY DEF ClosedOnce
  <2>1. Persisted' = Persisted /\ up'
    BY <1>1, <1>6 DEF Persisted
  <2>2. CASE a = subject
    <3>1. terminal'[a] = record /\ open'[a] = None /\ judging'[a] = None
      BY <1>6, <2>2 DEF IInv, Types
    <3>2. record # None /\ a \in Persisted
      BY <1>3, <2>2, NoneAssumption DEF Persisted
    <3> QED BY <1>3, <1>6, <2>1, <2>2, <3>1, <3>2
  <2>3. CASE a # subject
    <3>1. terminal'[a] = terminal[a] /\ open'[a] = open[a] /\ judging'[a] = judging[a]
      BY <1>6, <2>3 DEF IInv, Types
    <3> QED BY <1>1, <1>6, <1>12, <2>1, <2>3, <3>1 DEF IInv, ClosedOnce
  <2> QED BY <2>2, <2>3
<1>15. Emitting'
  BY <1>6 DEF Emitting
<1> QED BY <1>7, <1>8, <1>13, <1>14, <1>15 DEF IInv

\* A fault is no verdict; the judgment ends without one.
LEMMA PublishFaultIInv ==
  ASSUME IInv, PublishFault
  PROVE  IInv'
<1>1. PICK e : e = [name |-> "fault.recorded", artifact |-> subject, record |-> None]
  OBVIOUS
<1>2. e \in Events /\ e.name = "fault.recorded"
  BY <1>1 DEF IInv, Types, Events
<1>3. /\ bus' = Append(bus, e) /\ at' = "idle"
      /\ open' = [open EXCEPT ![subject] = None]
      /\ UNCHANGED <<demands, rules, judging, terminal, execution, storage, subject, up>>
  BY <1>1 DEF PublishFault
<1>4. Types'
  BY <1>2, <1>3, AppendProperties DEF IInv, Types
<1>5. \A a \in Artifacts : open'[a] = open[a] \/ open'[a] = None
  BY <1>3 DEF IInv, Types
<1>6. Collected'
  BY <1>3, <1>5 DEF IInv, Collected
<1>7. PICK n \in Nat : n = Len(bus)
  BY LenProperties DEF IInv, Types
<1>8. /\ DOMAIN bus = 1..n /\ DOMAIN bus' = 1..n+1
      /\ bus'[n + 1] = e /\ \A i \in 1..n : bus'[i] = bus[i]
  BY <1>2, <1>3, <1>7, AppendProperties, LenProperties DEF IInv, Types
<1>9. \A a \in Artifacts : Published(a)' = Published(a)
  BY <1>2, <1>8 DEF Published
<1>10. Explained'
  <2>1. \A m \in DOMAIN bus' : bus'[m].name # "fault.recorded" =>
          bus'[m].record \in storage' /\ bus'[m] = VerdictEvent(bus'[m].record)
    BY <1>2, <1>3, <1>8 DEF IInv, Explained
  <2>2. \A a \in Artifacts : (\A m, k \in Published(a) : m = k)'
    BY <1>9 DEF IInv, Explained
  <2> QED BY <2>1, <2>2 DEF Explained
<1>11. ClosedOnce'
  BY <1>3, <1>5, <1>9 DEF IInv, ClosedOnce, Persisted
<1>12. Emitting'
  BY <1>3 DEF Emitting
<1> QED BY <1>4, <1>6, <1>10, <1>11, <1>12 DEF IInv

\* The steps that leave Intake, the judgments, the records and the bus alone.
LEMMA QuietIInv ==
  ASSUME IInv, UNCHANGED <<demands, judging, terminal, open, storage, bus, subject, up>>,
         rules' \subseteq Versions, execution' \in [Ids -> [Delegated -> Answers]],
         at' \in {at, "idle"}
  PROVE  IInv'
<1>1. Types'
  BY DEF IInv, Types
<1>2. Collected' /\ Explained' /\ ClosedOnce' /\ Emitting'
  BY DEF IInv, Collected, Explained, ClosedOnce, Emitting, Published, Persisted
<1> QED BY <1>1, <1>2 DEF IInv

LEMMA ExecuteIInv ==
  ASSUME IInv, NEW id \in Ids, NEW c \in Delegated, NEW outcome \in Outcomes,
         Execute(id, c, outcome)
  PROVE  IInv'
<1>1. PICK r \in Answers : r = execution[id][c]
  BY DEF IInv, Types
<1>2. PICK n : n = [r EXCEPT !.told = r.told + 1, !.result = outcome]
  OBVIOUS
<1>3. n \in Answers
  <2>1. r.told + 1 \in Nat /\ r = [asked |-> r.asked, told |-> r.told, result |-> r.result]
    BY DEF Answers
  <2>2. n = [asked |-> r.asked, told |-> r.told + 1, result |-> outcome]
    BY <1>2, <2>1
  <2> QED BY <2>1, <2>2 DEF Answers
<1>4. execution' = [execution EXCEPT ![id] = [execution[id] EXCEPT ![c] = n]]
  BY <1>1, <1>2 DEF Execute
<1>5. execution' \in [Ids -> [Delegated -> Answers]]
  BY <1>3, <1>4 DEF IInv, Types
<1> QED BY <1>5, QuietIInv DEF Execute, Unmoved, IInv, Types

\* A crash loses Intake and the judgments; what is stored or published stays.
LEMMA CrashIInv ==
  ASSUME IInv, Crash
  PROVE  IInv'
<1>1. /\ ~up' /\ at' = "idle"
      /\ judging' = [a \in Artifacts |-> None] /\ terminal' = [a \in Artifacts |-> None]
      /\ open' = [a \in Artifacts |-> None]
      /\ UNCHANGED <<demands, rules, execution, storage, bus, subject>>
  BY DEF Crash
<1>2. Types'
  BY <1>1 DEF IInv, Types, Crash
<1>3. Collected' /\ Explained' /\ ClosedOnce' /\ Emitting'
  BY <1>1 DEF IInv, Collected, Explained, ClosedOnce, Emitting, Published, Persisted
<1> QED BY <1>2, <1>3 DEF IInv

\* An artifact that was demanded has a first demand.
LEMMA LeastNatural ==
  ASSUME NEW T \in SUBSET Nat, T # {}
  PROVE  \E x \in T : \A y \in T : x <= y
<1>1. IsWellFoundedOn({ss \in Nat \X Nat : ss[1] < ss[2]}, Nat)
  BY NatLessThanWellFounded DEF OpToRel
<1>2. PICK x \in T : \A y \in T : ~(<<y, x>> \in {ss \in Nat \X Nat : ss[1] < ss[2]})
  BY <1>1, WFMin
<1>3. ASSUME NEW y \in T PROVE x <= y
  <2>1. x \in Nat /\ y \in Nat /\ ~(x > y)
    BY <1>2
  <2> QED BY <2>1
<1> QED BY <1>3

LEMMA FirstDemandExists ==
  ASSUME Types, NEW a \in ToReopen
  PROVE  FirstDemand(a) \in DOMAIN demands /\ FirstDemand(a) \in Ids
<1>1. /\ demands \in Seq(Demands) /\ DOMAIN demands = 1..Len(demands) /\ Len(demands) \in Nat
      /\ Len(demands) <= MaxDemands
  BY LenProperties DEF Types
<1>2. PICK T : T = {i \in DOMAIN demands : demands[i].artifact = a}
  OBVIOUS
<1>3. T # {} /\ T \in SUBSET Nat
  BY <1>1, <1>2 DEF ToReopen, ToSet
<1>4. PICK i \in T : \A k \in T : i <= k
  BY <1>3, LeastNatural
<1>5. i \in DOMAIN demands /\ demands[i].artifact = a
  BY <1>2, <1>4
<1>6. \A k \in 1..i-1 : demands[k].artifact # a
  <2> SUFFICES ASSUME NEW k \in 1..i-1, demands[k].artifact = a PROVE FALSE
    OBVIOUS
  <2>1. k \in DOMAIN demands /\ k < i
    BY <1>1, <1>5
  <2> QED BY <1>2, <1>4, <1>5, <2>1, <1>1
<1>7. FirstDemand(a) \in DOMAIN demands
  BY <1>5, <1>6 DEF FirstDemand
<1> QED BY <1>1, <1>7, VerificationAssumption DEF Ids

\* rebuild: the durable records are the verdicts, and the other artifacts are judged anew.
LEMMA RebuildIInv ==
  ASSUME IInv, Rebuild
  PROVE  IInv'
<1>1. /\ ~up /\ up' /\ UNCHANGED <<demands, rules, execution, storage, bus, at, subject>>
      /\ terminal' \in [Artifacts -> storage \cup {None}]
      /\ \A a \in Artifacts : IF a \in Persisted THEN terminal'[a] # None /\ terminal'[a].artifact = a
                                                 ELSE terminal'[a] = None
  BY DEF Rebuild
<1>2. /\ judging' = [a \in Artifacts |-> IF a \in ToReopen THEN FirstDemand(a) ELSE None]
      /\ open' = [a \in Artifacts |-> IF a \in ToReopen
                    THEN OpenJudgment(FirstDemand(a), demands[FirstDemand(a)].version) ELSE None]
      /\ \A a \in ToReopen : demands[FirstDemand(a)].version \in rules
  BY DEF Rebuild, RebuildRaises, Lookup
<1>3. ASSUME NEW a \in ToReopen
      PROVE  /\ FirstDemand(a) \in Ids
             /\ OpenJudgment(FirstDemand(a), demands[FirstDemand(a)].version) \in Judgments
             /\ Collects(OpenJudgment(FirstDemand(a), demands[FirstDemand(a)].version))
  <2>1. FirstDemand(a) \in Ids /\ demands[FirstDemand(a)].version \in Versions
    BY <1>2, FirstDemandExists DEF IInv, Types
  <2> QED BY <2>1, FreshJudgment
<1>4. judging' \in [Artifacts -> Ids \cup {None}] /\ open' \in [Artifacts -> Judgments \cup {None}]
  BY <1>2, <1>3
<1>5. terminal' \in [Artifacts -> Records \cup {None}]
  BY <1>1 DEF IInv, Types
<1>6. Types'
  BY <1>1, <1>4, <1>5 DEF IInv, Types
<1>7. Collected'
  BY <1>1, <1>2, <1>3 DEF IInv, Collected
<1>8. Explained'
  BY <1>1 DEF IInv, Explained, Published
<1>9. ClosedOnce'
  <2> SUFFICES ASSUME NEW a \in Artifacts
               PROVE  /\ terminal'[a] # None =>
                           /\ terminal'[a] \in storage' /\ terminal'[a].artifact = a
                           /\ open'[a] = None /\ judging'[a] = None
                      /\ Published(a)' # {} => a \in Persisted' /\ (up' => terminal'[a] # None)
                      /\ ~up' => open'[a] = None /\ judging'[a] = None /\ terminal'[a] = None
    BY DEF ClosedOnce
  <2>1. Persisted' = Persisted /\ Published(a)' = Published(a)
    BY <1>1 DEF Persisted, Published
  <2>2. a \in Persisted => a \notin ToReopen
    BY DEF ToReopen
  <2>3. a \in Persisted => open'[a] = None /\ judging'[a] = None
    BY <1>2, <2>2
  <2> QED BY <1>1, <2>1, <2>3 DEF IInv, ClosedOnce
<1>10. Emitting'
  BY <1>1 DEF IInv, Emitting
<1> QED BY <1>6, <1>7, <1>8, <1>9, <1>10 DEF IInv

LEMMA NextIInv == IInv /\ [Next]_vars => IInv'
<1> SUFFICES ASSUME IInv, [Next]_vars PROVE IInv'
  OBVIOUS
<1>1. ASSUME NEW a \in Artifacts, NEW v \in Versions, Demand(a, v) PROVE IInv'
  <2>1. PICK d : d = [artifact |-> a, version |-> v]
    OBVIOUS
  <2>2. PICK n \in Nat : n = Len(demands)
    BY LenProperties DEF IInv, Types
  <2>3. /\ d \in Demands /\ Idle /\ n < MaxDemands /\ demands' = Append(demands, d)
        /\ HandleDemand(n + 1, d)
    BY <1>1, <2>1, <2>2 DEF Demand, Demands
  <2>4. n + 1 \in Ids /\ demands' \in Seq(Demands) /\ Len(demands') = n + 1 /\ n + 1 <= MaxDemands
    BY <2>2, <2>3, AppendProperties, VerificationAssumption DEF IInv, Types, Ids
  <2> QED BY <2>3, <2>4, DemandIInv
<1>2. ASSUME NEW id \in DOMAIN demands, Redeliver(id) PROVE IInv'
  <2>1. /\ id \in Ids /\ demands[id] \in Demands /\ demands' \in Seq(Demands)
        /\ Len(demands') <= MaxDemands
    BY <1>2, LenProperties, VerificationAssumption DEF IInv, Types, Ids, Redeliver
  <2>2. Idle /\ HandleDemand(id, demands[id])
    BY <1>2 DEF Redeliver
  <2> QED BY <2>1, <2>2, DemandIInv
<1>3. ASSUME NEW v \in Versions, IngestRules(v) PROVE IInv'
  BY <1>3, QuietIInv DEF IngestRules, pendingVars, IInv, Types
<1>4. ASSUME NEW a \in Artifacts, NEW c \in Delegated,
             Dispatch(a, c) \/ DispatchUnacked(a, c) \/ Resolve(a, c) \/ LateResult(a, c)
      PROVE  IInv'
  BY <1>4, CheckIInv
<1>5. ASSUME NEW a \in Artifacts, NEW c \in Static, RunStatic(a, c) PROVE IInv'
  BY <1>5, RunStaticIInv
<1>6. ASSUME NEW id \in Ids, NEW c \in Delegated, NEW outcome \in Outcomes, Execute(id, c, outcome)
      PROVE  IInv'
  BY <1>6, ExecuteIInv
<1>7. ASSUME NEW a \in Artifacts, TryClose(a) PROVE IInv'
  BY <1>7, TryCloseIInv
<1>8. CASE Publish
  BY <1>8, PublishIInv
<1>9. CASE PublishFault
  BY <1>9, PublishFaultIInv
<1>10. CASE BusRaises
  BY <1>10, QuietIInv DEF BusRaises, pendingVars, IInv, Types
<1>11. CASE Tick
  BY <1>11, QuietIInv DEF Tick, pendingVars, IInv, Types
<1>12. CASE Crash
  BY <1>12, CrashIInv
<1>13. CASE Rebuild
  BY <1>13, RebuildIInv
<1>14. CASE UNCHANGED vars
  BY <1>14, QuietIInv DEF vars, pendingVars, IInv, Types
<1> QED BY <1>1, <1>2, <1>3, <1>4, <1>5, <1>6, <1>7, <1>8, <1>9, <1>10, <1>11, <1>12, <1>13,
           <1>14 DEF Next

LEMMA Invariance == Spec => []IInv
BY InitIInv, NextIInv, PTL DEF Spec

-----------------------------------------------------------------------------
(* The theorem.                                                            *)

LEMMA OneVerdictFollows == IInv => OneVerdict
<1> SUFFICES ASSUME IInv, NEW a \in Artifacts PROVE Cardinality(Published(a)) <= 1
  BY DEF IInv, ClosedOnce, OneVerdict
<1>1. \A m, n \in Published(a) : m = n
  BY DEF IInv, Explained
<1>2. CASE Published(a) = {}
  BY <1>2, FS_EmptySet
<1>3. CASE Published(a) # {}
  <2>1. PICK n : Published(a) = {n}
    BY <1>1, <1>3
  <2> QED BY <2>1, FS_Singleton
<1> QED BY <1>2, <1>3

LEMMA VerdictExplainedFollows == IInv => VerdictExplained
<1> SUFFICES ASSUME IInv, NEW n \in DOMAIN bus, bus[n].name # "fault.recorded"
             PROVE  /\ \E r \in storage : Replays(r, bus[n])
                    /\ \A c \in Required :
                         Cardinality({m \in DOMAIN bus[n].record.items :
                            /\ bus[n].record.items[m].rule = c
                            /\ bus[n].record.items[m].kind = "independent"}) = 1
                    /\ bus[n].name = "verify.passed" =>
                         \A i \in ToSet(bus[n].record.items) : i.result \in {"pass", "success"}
  BY DEF VerdictExplained, Verdicts, ToSet
<1>1. PICK r \in storage : r = bus[n].record /\ bus[n] = VerdictEvent(r)
  BY DEF IInv, Explained
<1>2. r.items \in Seq(Evidence) /\ Complete(r.items)
  BY <1>1 DEF IInv, Types, Collected, Records
<1>3. /\ Body(r.items)
      /\ \A c \in Required :
           Cardinality({m \in DOMAIN r.items :
                          r.items[m].rule = c /\ r.items[m].kind = "independent"}) = 1
  BY <1>2, CompleteBody
<1>4. Replays(r, bus[n])
  BY <1>1 DEF Replays
<1>5. ASSUME bus[n].name = "verify.passed"
      PROVE  \A i \in ToSet(r.items) : i.result \in {"pass", "success"}
  <2>1. bus[n].name = IF Derive(r.items).outcome.verdict = "passed" THEN "verify.passed"
                                                                  ELSE "verify.failed"
    BY <1>1 DEF VerdictEvent
  <2>2. Derive(r.items).outcome.verdict = "passed"
    BY <1>5, <2>1
  <2>3. Derive(r.items).outcome = VerdictAndCause(r.items)
    BY DEF Derive
  <2>4. Passes(r.items)
    BY <1>3, <2>2, <2>3, PassedVerdict
  <2> QED BY <2>4 DEF Passes, ToSet, PassingResults
<1> QED BY <1>1, <1>3, <1>4, <1>5

LEMMA RedundantFollows == IInv => RedundantEarnsNothing
<1> SUFFICES ASSUME IInv, NEW r \in storage
             PROVE  LET with == Derive(r.items)
                        without == Derive(Once(r.items))
                    IN  /\ with.confidence = without.confidence
                        /\ with.coverage = without.coverage
                        /\ with.outcome.verdict = "passed" => with = without
  BY DEF RedundantEarnsNothing, Once
<1>1. r.items \in Seq(Evidence) /\ Complete(r.items)
  BY DEF IInv, Types, Collected, Records
<1>2. Body(r.items) /\ Founded(r.items)
  BY <1>1, CompleteBody
<1> QED BY <1>2, RedundantAccount

\* THEOREM: in every state of every behaviour each artifact has at most one verdict,
\* which the evidence in Storage replays, with one first outcome of each required check,
\* and which repeated evidence did not buy; over redeliveries, late and missing answers,
\* publishes that raise, rejected writes, crashes and rebuilds.
THEOREM VerdictIsSound == Spec => []VerdictSound
<1>1. IInv => VerdictSound
  BY OneVerdictFollows, VerdictExplainedFollows, RedundantFollows DEF VerdictSound
<1> QED BY <1>1, Invariance, PTL
=============================================================================
