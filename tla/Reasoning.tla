------------------------------ MODULE Reasoning ------------------------------
(***************************************************************************)
(* The pure part of the reasoning orchestrator (src/src/ro/): the decision *)
(* gate, preparation of a reasoning request, sealed outcome records, the   *)
(* retry rules of the invocation governor, replay of an attempt sequence,  *)
(* and composition of several invocations.                                 *)
(*                                                                         *)
(* A content hash is the record itself: two records are equal exactly when *)
(* their hashes are.  None stands for an absent value.                     *)
(***************************************************************************)
EXTENDS DescriptorSpace

CONSTANT None

---------------------------------------------------------------------------
(* The decision gate: sealed inputs in, one of five outcomes out. *)

RUNGS == {"D1", "D2", "D3", "D4", "D5"}

LADDER_STATUSES == {"exhausted", "inapplicable", "untried"}

\* What build_demand accepts: shape only, the n1 evidence may be incomplete.
DemandBuilds(d) ==
  /\ d.rung \in Range(COMPLEXITY_RUNGS)
  /\ d.described
  /\ d.narrowing \in {None} \cup BOOLEAN

\* What build_ladder_evidence accepts; rungs may be missing or repeated.
LadderBuilds(ladder) ==
  \A i \in DOMAIN ladder : ladder[i].rung \in RUNGS /\ ladder[i].status \in LADDER_STATUSES

SealedInputsBuild(s) == DemandBuilds(s.demand) /\ LadderBuilds(s.ladder)

PolicyBuilds(policy) ==
  policy.categories \subseteq CATEGORIES /\ policy.rungs \subseteq Range(COMPLEXITY_RUNGS)

N1Defective(evidence) == evidence = None \/ evidence.claim \notin BOOLEAN \/ ~evidence.justified

LadderDefective(ladder) ==
  \/ \E i, j \in DOMAIN ladder : i # j /\ ladder[i].rung = ladder[j].rung
  \/ \E i \in DOMAIN ladder : ~ladder[i].justified
  \/ {ladder[i].rung : i \in DOMAIN ladder} # RUNGS

CapabilityDefective(s) == s.capability = None \/ s.capability.id # s.demand.capability

StructurallyDefective(s) ==
  \/ N1Defective(s.demand.underdetermined)
  \/ N1Defective(s.demand.generalization)
  \/ LadderDefective(s.ladder)
  \/ CapabilityDefective(s)
  \/ None \in {s.rqm, s.unit, s.priors, s.policy}
  \/ s.budget \notin BOOLEAN

Untried(ladder) == {ladder[i].rung : i \in {j \in DOMAIN ladder : ladder[j].status = "untried"}}

Necessary(d) == d.underdetermined.claim /\ d.generalization.claim

\* The ceiling is the highest permitted rung: a gap below it does not refuse.
AboveCeiling(rung, permitted) ==
  \A r \in permitted : IndexIn(COMPLEXITY_RUNGS, rung) > IndexIn(COMPLEXITY_RUNGS, r)

GovernanceRefuses(s) ==
  \/ ~s.policy.permitted
  \/ s.capability.category \notin s.policy.categories
  \/ AboveCeiling(s.demand.rung, s.policy.rungs)
  \/ ~s.budget
  \/ s.capability.lifecycle \notin Matchable

GateOutcome(s) ==
  CASE StructurallyDefective(s)  -> "INSUFFICIENT_INFORMATION"
    [] ~StructurallyDefective(s) /\ Untried(s.ladder) # {} -> "DETERMINISTIC_CONTINUATION_REQUIRED"
    [] OTHER -> IF ~Necessary(s.demand) THEN "REASONING_REJECTED"
                ELSE IF GovernanceRefuses(s) THEN "GOVERNANCE_REFUSED"
                ELSE "REASONING_APPROVED"

\* The decision record; the coordinates it was decided from are its inputs.
Decide(s) ==
  LET outcome  == GateOutcome(s)
      approved == outcome = "REASONING_APPROVED"
  IN  [outcome    |-> outcome,
       from       |-> s,
       capability |-> IF approved THEN s.demand.capability ELSE None,
       rung       |-> IF approved THEN s.demand.rung ELSE None]

---------------------------------------------------------------------------
(* Context selection and reduction. *)

\* CONTEXT_SELECTION_TABLE: the sections drawn from and the cap on each.
SelectionPlan(characteristics) ==
  LET weight == IndexIn(<<"low", "medium", "high">>, characteristics.knowledge_dependency)
      sense  == characteristics.context_sensitivity
  IN  CASE weight = 1 -> IF sense = "low" THEN [sections |-> << >>, cap |-> 0]
                                          ELSE [sections |-> <<"core">>, cap |-> 2]
        [] weight = 2 -> IF sense = "low" THEN [sections |-> <<"core">>, cap |-> 2]
                                          ELSE [sections |-> <<"core", "supporting">>, cap |-> 5]
        [] weight = 3 -> IF sense = "low" THEN [sections |-> <<"core", "supporting">>, cap |-> 5]
                         ELSE [sections |-> <<"core", "supporting", "background">>, cap |-> None]

\* One item: dropped past the cap, as a duplicate content, or as irrelevant.
TakeItem(plan, threshold, section, context, item) ==
  IF \/ plan.cap # None /\ Cardinality({i \in DOMAIN context : context[i].section = section}) >= plan.cap
     \/ \E i \in DOMAIN context : context[i].item.content = item.content
     \/ item.score # None /\ item.score < threshold
  THEN context
  ELSE Append(context, [section |-> section, item |-> item])

SelectAndReduce(rqm, characteristics, threshold) ==
  LET plan == SelectionPlan(characteristics)
      section(context, name) ==
        IF name \in DOMAIN rqm
        THEN FoldLeft(LAMBDA c, item : TakeItem(plan, threshold, name, c, item), context, rqm[name])
        ELSE context
  IN  FoldLeft(section, << >>, plan.sections)

ContextBytes(context) == FoldLeft(LAMBDA n, e : n + e.item.bytes, 0, context)

\* The floor: a capability that demands knowledge is never prepared without.
Starved(context, characteristics) ==
  context = << >> /\ characteristics.knowledge_dependency # "low"

---------------------------------------------------------------------------
(* Budget envelopes and the request. *)

\* A child envelope comes out of what its siblings left of the parent.
Allocates(ceiling, parent, drawn) ==
  ceiling > 0 /\ (parent # None => ceiling <= parent - drawn)

\* prepare(): what can refuse it, in one conjunction, and the two artifacts.
\* task is what the caller asks of this preparation.
Preparable(decision, task, space, schemas) ==
  LET cap     == space.caps[decision.capability]
      context == SelectAndReduce(task.rqm, cap.characteristics, task.threshold)
  IN  /\ decision.outcome = "REASONING_APPROVED"
      /\ task.expectations
      /\ ~task.stale
      /\ task.expected \in {None, task.rqm}
      /\ ~Starved(context, cap.characteristics)
      /\ Allocates(task.ceiling, task.parent, task.drawn)
      /\ ContextBytes(context) <= task.ceiling
      /\ task.schema \in schemas

Request(decision, task, space, version, policyVersion, priors) ==
  LET cap == space.caps[decision.capability]
  IN  [capability |-> decision.capability,
       rung       |-> decision.rung,
       context    |-> SelectAndReduce(task.rqm, cap.characteristics, task.threshold),
       ceiling    |-> task.ceiling,
       schema     |-> task.schema,
       demands    |-> task.demands,
       coords     |-> [decision |-> decision, rqm |-> task.rqm, version |-> version,
                       policy |-> policyVersion, priors |-> priors, schema |-> task.schema]]

\* The provider resolutions of a request over some rows: one, or none.
Resolutions(request, rows, version, policyVersion, rank) ==
  {[provider |-> p, version |-> version, policy |-> policyVersion,
    coords |-> request.coords, request |-> request] :
     p \in SelectProvider(rows, request.capability, request.rung, request.demands,
                          DeriveSizeClass(ContextBytes(request.context)), rank)}

\* retry_with_substitution: the same request, without the indicted provider.
Substitutes(request, failed, policy, class, rows, version, rank) ==
  IF class \in policy.substitution
  THEN Resolutions(request, Without(rows, failed.provider), version, failed.policy, rank)
  ELSE {}

---------------------------------------------------------------------------
(* Sealed outcome records. *)

FAILURE_CLASSES == {"F1", "F2", "F3", "F4", "F5", "F6", "F7", "F8"}

CANCELLATION_ORIGINS == {"user", "kernel", "policy", "workflow"}

\* What build_sealed_outcome accepts.
OutcomeBuilds(r) ==
  /\ r.index >= 1 /\ r.consumed >= 0 /\ r.remaining >= 0
  /\ CASE r.kind = "RETURNED"  -> r.class = None /\ r.origin = None
       [] r.kind = "FAILED"    -> r.class \in FAILURE_CLASSES \ {"F7"} /\ r.origin = None /\ r.output = None
       [] r.kind = "EXPIRED"   -> r.class = "F7" /\ r.origin = None /\ r.output = None
       [] r.kind = "CANCELLED" -> r.class = None /\ r.origin \in CANCELLATION_ORIGINS /\ r.output = None

\* Execution policies that can be built.
ExecutionPolicyBuilds(policy) ==
  /\ policy.attempts \in Nat \ {0}
  /\ policy.retryable \cup policy.substitution \subseteq FAILURE_CLASSES

\* _check_initiation.  A prepared request always has its budget and the six
\* constraint categories: only a resolution of another request fails.
Initiates(request, resolution) ==
  resolution.coords = request.coords /\ resolution.request = request

\* Mutant: the budget that is spent to the last unit still allows a retry.
DispositionSpent(class, policy, attempt, consumed, ceiling) ==
  IF class \notin policy.retryable \/ attempt >= policy.attempts THEN "terminal"
  ELSE IF consumed <= ceiling THEN "retry" ELSE "exhausted_budget"

\* _retry_disposition.
Disposition(class, policy, attempt, consumed, ceiling) ==
  IF class \notin policy.retryable \/ attempt >= policy.attempts THEN "terminal"
  ELSE IF consumed < ceiling THEN "retry" ELSE "exhausted_budget"

\* Mutant: an overdraft is charged in full.
ChargedInFull(consumed, total, ceiling) == consumed

\* _apply_consumption: what an attempt is charged; the rest is overdraft.
Charged(consumed, total, ceiling) ==
  IF total + consumed > ceiling THEN Max({ceiling - total, 0}) ELSE consumed

---------------------------------------------------------------------------
(* Replay of a sealed attempt sequence. *)

\* The sum of a sequence of numbers.
Total(s) ==
  LET upTo[n \in 0 .. Len(s)] == IF n = 0 THEN 0 ELSE upTo[n - 1] + s[n]
  IN  upTo[Len(s)]

ConsumedUpTo(records, i) == Total([j \in 1 .. i |-> records[j].consumed])

SequenceConsistent(records) ==
  /\ records # << >>
  /\ \A i \in DOMAIN records :
       /\ records[i].index = i
       /\ records[i].request = records[1].request
       /\ records[i].resolution = records[1].resolution
       /\ records[i].refs = SubSeq(records, 1, i - 1)
       /\ records[i].consumed >= 0 /\ records[i].remaining >= 0
       /\ ConsumedUpTo(records, i) + records[i].remaining
            = records[1].consumed + records[1].remaining

\* The sequence stopped although its policy would have tried again.
PrematurelyStopped(records, policy) ==
  LET final == Last(records)
  IN  /\ final.kind \in {"FAILED", "EXPIRED"}
      /\ final.class \in policy.retryable
      /\ Len(records) < policy.attempts
      /\ final.remaining > 0

\* replay_attempts.
Replays(records, policy) == SequenceConsistent(records) /\ ~PrematurelyStopped(records, policy)

---------------------------------------------------------------------------
(* Composition. *)

PATTERNS == {"sequential", "parallel", "ensemble", "specialist_pipeline", "review_chain", "debate"}

PlanBuilds(plan) ==
  /\ plan.pattern \in PATTERNS
  /\ plan.ceilings # << >>
  /\ plan.semantics \in {"all_required", "any_sufficient", "quorum"}
  /\ (plan.pattern \in {"ensemble", "debate"} => plan.rule \in {"majority", "first"})
  /\ (plan.semantics = "quorum" => plan.quorum \in 1 .. Len(plan.ceilings))

Conforming(finals) == {i \in DOMAIN finals : finals[i].kind = "RETURNED"}

\* _aggregate: the index of the winning final.  Outputs that agree form a
\* group; the largest group wins, the one that answered first among equals.
Aggregate(plan, finals) ==
  LET agree(i)   == {j \in Conforming(finals) : finals[j].output = finals[i].output}
      largest    == {i \in Conforming(finals) :
                       \A j \in Conforming(finals) : Cardinality(agree(j)) <= Cardinality(agree(i))}
  IN  IF plan.pattern \notin {"ensemble", "debate"} \/ Conforming(finals) = {} THEN None
      ELSE Min(IF plan.rule = "first" THEN Conforming(finals) ELSE largest)

Satisfied(plan, finals) ==
  LET returned == Cardinality(Conforming(finals))
  IN  CASE plan.semantics = "all_required"   -> returned = Len(finals)
        [] plan.semantics = "any_sufficient" -> returned >= 1
        [] plan.semantics = "quorum"         -> returned >= plan.quorum
=============================================================================
