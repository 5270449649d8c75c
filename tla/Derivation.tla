----------------------------- MODULE Derivation -----------------------------
(***************************************************************************)
(* Verdict, confidence, coverage and assurance of a closed evidence body:  *)
(* the pure functions of src/vae/derivation.py.  An item is a record of    *)
(* rule, level, result and kind (src/vae/evidence.py); its artifact and    *)
(* its source are the same for all items of a rule and are left out.       *)
(***************************************************************************)
EXTENDS Naturals, Sequences, FiniteSets, SequencesExt

\* The fractions of DerivationPolicy, as <<numerator, denominator>>.
CONSTANTS ModerateMin, StrongMin

ASSUME PolicyAssumption ==
  /\ \A f \in {ModerateMin, StrongMin} : f[1] \in Nat \ {0} /\ f[2] \in Nat \ {0} /\ f[1] <= f[2]
  /\ ModerateMin[1] * StrongMin[2] <= StrongMin[1] * ModerateMin[2]

Kinds == {"independent", "corroborating", "redundant", "conflicting", "missing"}
PassingResults == {"pass", "success"}
ExecutionFailureResults == {"failure", "timeout", "crash", "execution_failure"}

LevelToDimension ==
  [structural |-> "structural", execution |-> "execution", semantic |-> "semantic",
   cross_artifact |-> "consistency", system |-> "consistency"]
Dimensions == {LevelToDimension[l] : l \in DOMAIN LevelToDimension}

-----------------------------------------------------------------------------
\* FAILURE_CAUSES, in the fixed precedence.
FailureCauses == <<"contradictory_evidence", "inconclusive_verification", "execution_failure",
                   "verification_failure", "evidence_insufficiency">>

\* _verdict_and_cause: the first cause that the items give, if any.
VerdictAndCause(items) ==
  LET kinds == {i.kind : i \in ToSet(items)}
      results == {i.result : i \in {x \in ToSet(items) : x.kind # "missing"}}
      given ==
        [contradictory_evidence    |-> "conflicting" \in kinds,
         inconclusive_verification |-> results \ (PassingResults \cup ExecutionFailureResults \cup {"fail"}) # {},
         execution_failure         |-> results \cap ExecutionFailureResults # {},
         verification_failure      |-> "fail" \in results,
         evidence_insufficiency    |-> DOMAIN items = {} \/ "missing" \in kinds]
      causes == {n \in DOMAIN FailureCauses : given[FailureCauses[n]]}
  IN  IF causes = {} THEN [verdict |-> "passed", cause |-> "none"]
                     ELSE [verdict |-> "failed", cause |-> FailureCauses[Min(causes)]]

\* A claim is a rule at a level.
Claims(items) == {<<i.level, i.rule>> : i \in ToSet(items)}

\* _claim_strength: redundant items count zero times.
ClaimStrength(items, claim) ==
  LET kinds == [n \in {n \in DOMAIN items : <<items[n].level, items[n].rule>> = claim} |-> items[n].kind]
      substantive == {n \in DOMAIN kinds : kinds[n] \in {"independent", "corroborating"}}
  IN  IF \E n \in DOMAIN kinds : kinds[n] = "conflicting" THEN "conflicted" ELSE
        CASE Cardinality(substantive) >= 2 -> "corroborated"
          [] Cardinality(substantive) = 1 -> "single"
          [] OTHER -> "absent"

\* _dimension_confidence
Confidence(items, dim) ==
  LET strengths == {ClaimStrength(items, c) : c \in {x \in Claims(items) : LevelToDimension[x[1]] = dim}}
      established == strengths \cap {"corroborated", "single"}
  IN  IF "conflicted" \in strengths THEN "conflicted" ELSE
        CASE established = {} -> "none"
          [] established = {"corroborated"} -> "strong"
          [] established = {"single"} -> "weak"
          [] OTHER -> "moderate"

\* _coverage: the share of the claims that some evidence bears on.
Coverage(items) ==
  LET established == Cardinality({c \in Claims(items) : ClaimStrength(items, c) # "absent"})
      total == Cardinality(Claims(items))
      atLeast(f) == established * f[2] >= f[1] * total
  IN  CASE established = 0 -> "none"
        [] established > 0 /\ atLeast(StrongMin) -> "strong"
        [] established > 0 /\ atLeast(ModerateMin) /\ ~atLeast(StrongMin) -> "moderate"
        [] OTHER -> "weak"

\* _uncertainty: the claims without evidence.
Uncertainty(items) == {c \in Claims(items) : ClaimStrength(items, c) = "absent"}

\* _assurance_level
AssuranceLevel(items) ==
  LET levels == {Confidence(items, d) : d \in Dimensions} \ {"none"}
  IN  CASE VerdictAndCause(items).verdict = "failed" -> "failed"
        [] VerdictAndCause(items).verdict = "passed" /\ levels \subseteq {"weak"} -> "low"
        [] VerdictAndCause(items).verdict = "passed" /\ levels = {"strong"} /\ Coverage(items) = "strong" -> "high"
        [] OTHER -> "moderate"

\* derive: the account that attach_derivation puts into the record.
Derive(items) ==
  [outcome     |-> VerdictAndCause(items),
   confidence  |-> [d \in Dimensions |-> Confidence(items, d)],
   coverage    |-> Coverage(items),
   uncertainty |-> Uncertainty(items),
   assurance   |-> AssuranceLevel(items)]
=============================================================================
