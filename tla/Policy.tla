------------------------------- MODULE Policy -------------------------------
(***************************************************************************)
(* The pure half of SGPE: policy documents and their rules, the condition  *)
(* grammar, the Admission Compiler's eight stages (src/sgpe/compiler.py)   *)
(* and the Evaluator (src/sgpe/evaluator.py).                              *)
(*                                                                         *)
(* Names, rule ids and resource selectors are numbers, ordered as their    *)
(* strings sort; a content hash is the content it is taken of.             *)
(***************************************************************************)
EXTENDS Integers, FiniteSets, Sequences, FiniteSetsExt, SequencesExt, Functions

CONSTANTS
  Conditions,     \* the condition nodes in use, with their operands
  Numbers,        \* the scalar values that are numeric
  None

NoCondition == [node |-> "none"]
AnyResource == 0

-----------------------------------------------------------------------------
(* Conditions.                                                             *)

RangeOps == {"lt", "lte", "gt", "gte"}

IsNumeric(v) == v \in Numbers

\* build_boolean: "not" has one operand, "and" and "or" two or more.
WellFormed(c) ==
  CASE c.node = "comparison" -> c.op \in RangeOps \cup {"eq", "ne"}
    [] c.node = "set" -> c.op \in {"in", "not_in"} /\ c.values # {}
    [] c.node = "boolean" -> /\ c.op \in {"and", "or", "not"}
                             /\ \A i \in DOMAIN c.operands : c.operands[i] \in Conditions
                             /\ IF c.op = "not" THEN Len(c.operands) = 1 ELSE Len(c.operands) >= 2

ASSUME ConditionsAssumption == \A c \in Conditions : WellFormed(c)

Leaves[c \in Conditions] ==
  IF c.node = "boolean" THEN UNION {Leaves[c.operands[i]] : i \in DOMAIN c.operands} ELSE {c}

FactNames(c) == IF c = NoCondition THEN {} ELSE {leaf.fact : leaf \in Leaves[c]}

Compares(op, a, b) ==
  CASE op = "lt" -> a < b [] op = "lte" -> a <= b [] op = "gt" -> a > b [] op = "gte" -> a >= b

LeafHolds(c, facts) ==
  LET v == facts[c.fact] IN
  CASE c.node = "set" -> (v \in c.values) = (c.op = "in")
    [] c.node = "comparison" /\ c.op = "eq" -> v = c.value
    [] c.node = "comparison" /\ c.op = "ne" -> v # c.value
    [] OTHER -> Compares(c.op, v, c.value)

\* Every operand is evaluated, so an incomparable one surfaces wherever it stands.
Incomparable(c, facts) ==
  c # NoCondition /\ \E leaf \in Leaves[c] :
    leaf.node = "comparison" /\ leaf.op \in RangeOps /\ ~(IsNumeric(facts[leaf.fact]) /\ IsNumeric(leaf.value))

Satisfied(cond, facts) ==
  LET holds[c \in Conditions] ==
        CASE c.node # "boolean" -> LeafHolds(c, facts)
          [] c.node = "boolean" /\ c.op = "and" -> \A i \in DOMAIN c.operands : holds[c.operands[i]]
          [] c.node = "boolean" /\ c.op = "or" -> \E i \in DOMAIN c.operands : holds[c.operands[i]]
          [] OTHER -> ~holds[c.operands[1]]
  IN cond = NoCondition \/ holds[cond]

\* _intervals_disjoint, of two half-lines: they miss each other only if they face away.
HalfLinesDisjoint(a, b) ==
  LET below(c) == c.op \in {"lt", "lte"}
      open(c) == c.op \in {"lt", "gt"}
      apart(hi, lo) == hi.value < lo.value \/ (hi.value = lo.value /\ (open(hi) \/ open(lo)))
  IN (below(a) /\ ~below(b) /\ apart(a, b)) \/ (below(b) /\ ~below(a) /\ apart(b, a))

\* _finite_constraint: the four finite operators as inclusion in or exclusion of a set.
IsFinite(c) == c.node = "set" \/ c.op \in {"eq", "ne"}
Includes(c) == c.op \in {"in", "eq"}
FiniteValues(c) == IF c.node = "set" THEN c.values ELSE {c.value}

FiniteDisjoint(a, b) ==
  CASE Includes(a) /\ Includes(b) -> FiniteValues(a) \cap FiniteValues(b) = {}
    [] Includes(a) /\ ~Includes(b) -> FiniteValues(a) \subseteq FiniteValues(b)
    [] ~Includes(a) /\ Includes(b) -> FiniteValues(b) \subseteq FiniteValues(a)
    [] OTHER -> FALSE

ProvablyDisjoint(a, b) ==
  /\ {a.node, b.node} \subseteq {"comparison", "set"} /\ a.fact = b.fact
  /\ \/ /\ a.op \in RangeOps /\ b.op \in RangeOps
        /\ IsNumeric(a.value) /\ IsNumeric(b.value) /\ HalfLinesDisjoint(a, b)
     \/ IsFinite(a) /\ IsFinite(b) /\ FiniteDisjoint(a, b)

-----------------------------------------------------------------------------
(* Documents.                                                              *)

Scopes == {"system", "project", "user"}
ScopeRank == [system |-> 0, project |-> 1, user |-> 2]
EffectPriority == [DENY |-> 3, REQUIRE_APPROVAL |-> 2, ALLOW |-> 1]

\* build_rule, build_target and build_effect: only a limit carries a value.
RuleOk(r) ==
  /\ r.selector >= AnyResource
  /\ r.kind \in DOMAIN EffectPriority \cup {"LIMIT"}
  /\ (r.kind = "LIMIT") = (r.value # None)
  /\ r.cond = NoCondition \/ r.cond \in Conditions

\* build_document: a scope, a vocabulary and rules of distinct ids.
DocumentOk(d) ==
  /\ d.scope \in Scopes /\ d.vocabulary >= 1
  /\ \A r \in d.rules : RuleOk(r)
  /\ \A r, s \in d.rules : r.id = s.id => r = s

DocId(d) == <<d.scope, d.name>>

\* The rules of a set of document versions, with their citations.
Cited(assembled) ==
  UNION {{[cite |-> <<v.did, v.version, r.id>>, scope |-> v.document.scope, rule |-> r]
            : r \in v.document.rules} : v \in assembled}

-----------------------------------------------------------------------------
(* The Admission Compiler.                                                 *)

SelectorsOverlap(a, b) == a = b \/ a = AnyResource \/ b = AnyResource
SameAction(a, b) == a.domain = b.domain /\ a.operation = b.operation
TargetsOverlap(a, b) == SameAction(a, b) /\ SelectorsOverlap(a.selector, b.selector)
EffectsEqual(a, b) == a.kind = b.kind /\ a.value = b.value

\* Stage 2.  An empty set of operations declares nothing and refuses nothing.
VocabularyErrors(rules, vocabulary) ==
  {x \in rules :
     \/ x.rule.domain \notin vocabulary.domains
     \/ vocabulary.operations # {} /\ <<x.rule.domain, x.rule.operation>> \notin vocabulary.operations
     \/ ~(FactNames(x.rule.cond) \subseteq vocabulary.facts)}

\* Stage 3: `final` outside the system scope or, when there is none, a higher rule that
\* disagrees with a final one.
ScopeErrors(rules) ==
  LET finals == {x \in rules : x.rule.final}
      illegal == {x \in finals : x.scope # "system"}
  IN IF illegal # {} THEN illegal
     ELSE {x \in rules : x.scope # "system" /\ \E f \in finals :
                           TargetsOverlap(f.rule, x.rule) /\ ~EffectsEqual(f.rule, x.rule)}

\* Stage 4.
DependencyErrors(assembled, vocabulary) ==
  {v \in assembled : v.document.vocabulary > vocabulary.version}

\* Stage 5: the declared operations without a universal rule of the system scope.  The
\* rule may have a condition.
TotalityErrors(rules, vocabulary) ==
  {op \in vocabulary.operations :
     ~ \E x \in rules : /\ x.scope = "system" /\ x.rule.selector = AnyResource
                        /\ <<x.rule.domain, x.rule.operation>> = op}

\* Stage 6.  The pairs that may both match.
Contested(rules) ==
  {p \in rules \X rules :
     /\ p[1].cite # p[2].cite
     /\ TargetsOverlap(p[1].rule, p[2].rule)
     /\ ~ProvablyDisjoint(p[1].rule.cond, p[2].rule.cond)}

\* _decide_pair: scope, then deny-overrides or the smaller limit.
Undecidable(x, y) ==
  /\ ScopeRank[x.scope] = ScopeRank[y.scope]
  /\ \/ (x.rule.kind = "LIMIT") # (y.rule.kind = "LIMIT")
     \/ /\ x.rule.kind = "LIMIT" /\ y.rule.kind = "LIMIT"
        /\ ~(IsNumeric(x.rule.value) /\ IsNumeric(y.rule.value))

\* Mutant: the permission that is milder wins.
BeatsMildly(x, y) ==
  \/ ScopeRank[x.scope] > ScopeRank[y.scope]
  \/ /\ ScopeRank[x.scope] = ScopeRank[y.scope]
     /\ IF x.rule.kind = "LIMIT" THEN x.rule.value < y.rule.value
        ELSE EffectPriority[x.rule.kind] < EffectPriority[y.rule.kind]
Beats(x, y) ==
  \/ ScopeRank[x.scope] > ScopeRank[y.scope]
  \/ /\ ScopeRank[x.scope] = ScopeRank[y.scope]
     /\ IF x.rule.kind = "LIMIT" THEN x.rule.value < y.rule.value
        ELSE EffectPriority[x.rule.kind] > EffectPriority[y.rule.kind]

ConflictErrors(rules) == {p \in Contested(rules) : Undecidable(p[1], p[2])}

\* Stage 7: an entry carries the citations that its precedence beat.
Entries(rules) ==
  LET contested == Contested(rules) IN
  {[cite |-> x.cite, scope |-> x.scope, rule |-> x.rule,
    shadows |-> {y.cite : y \in {z \in rules : <<x, z>> \in contested /\ Beats(x, z)}}] : x \in rules}

DeclaredFacts(rules) ==
  LET actions == {<<x.rule.domain, x.rule.operation>> : x \in rules} IN
  [a \in actions |-> UNION {FactNames(x.rule.cond)
                              : x \in {y \in rules : <<y.rule.domain, y.rule.operation>> = a}}]

Stages == <<"vocabulary", "scope_modifier", "dependency", "totality", "conflict">>

Rejected(stage) == [outcome |-> "rejected", stage |-> stage, snapshot |-> None]

\* The first stage that finds an error rejects.  compile_snapshot, from the documents and the vocabulary read as of the position.
CompileSet(assembled, vocabulary, position) ==
  LET rules == Cited(assembled)
      errors == <<VocabularyErrors(rules, vocabulary), ScopeErrors(rules), DependencyErrors(assembled, vocabulary),
                  TotalityErrors(rules, vocabulary), ConflictErrors(rules)>>
      failed == {i \in DOMAIN errors : errors[i] # {}}
  IN IF failed # {} THEN Rejected(Stages[Min(failed)])
     ELSE [outcome |-> "compiled", stage |-> "readiness",
           snapshot |-> [position |-> position, vocabulary |-> vocabulary.version,
                         refs |-> {<<v.did, v.version>> : v \in assembled},
                         entries |-> Entries(rules), facts |-> DeclaredFacts(rules)]]

-----------------------------------------------------------------------------
(* The Evaluator.                                                          *)

\* ask_signature: what a grant must cover.
Signature(q) == <<q.principal, q.domain, q.operation, q.resource>>

SelectorMatches(selector, resource) == selector = resource \/ selector = AnyResource

Candidates(snapshot, domain, q) ==
  {e \in snapshot.entries : /\ e.rule.domain = domain /\ e.rule.operation = q.operation
                            /\ SelectorMatches(e.rule.selector, q.resource)}

Matched(snapshot, domain, q) ==
  {e \in Candidates(snapshot, domain, q) : Satisfied(e.rule.cond, q.facts)}

Winners(snapshot, domain, q) ==
  LET matched == Matched(snapshot, domain, q)
  IN {e \in matched : \A m \in matched : e.cite \notin m.shadows}

\* The canonical order of the entries of one domain, operation and scope.
SortKey(e) == <<e.rule.selector, e.cite[1][2], e.cite[2], e.cite[3]>>
Precedes(a, b) == \E i \in 1..4 : SortKey(a)[i] < SortKey(b)[i] /\ \A j \in 1..(i - 1) : SortKey(a)[j] = SortKey(b)[j]
Winner(snapshot, domain, q) ==
  LET winners == Winners(snapshot, domain, q)
  IN CHOOSE e \in winners : \A o \in winners \ {e} : Precedes(e, o)

\* _match_and_win raises: nothing matches, nothing is undominated, or winners disagree.
IntegrityError(snapshot, domain, q) ==
  LET winners == Winners(snapshot, domain, q)
  IN winners = {} \/ \E a, b \in winners : ~EffectsEqual(a.rule, b.rule)

IllPosed(code) == [kind |-> "ILL_POSED", code |-> code, grant |-> None, limits |-> {}]
Refused == [kind |-> "REFUSED", code |-> "integrity", grant |-> None, limits |-> {}]

Siblings(snapshot, q) == {a[1] : a \in {b \in DOMAIN snapshot.facts : b[2] = q.operation}} \ {q.domain}
RequiredFacts(snapshot, operation) ==
  UNION {snapshot.facts[a] : a \in {b \in DOMAIN snapshot.facts : b[2] = operation}}

DomainIncomparable(snapshot, domain, q) ==
  \E e \in Candidates(snapshot, domain, q) : Incomparable(e.rule.cond, q.facts)

\* Where the slice has a grant that covers the question and that it does not revoke.  A
\* slice has its records at their positions in the ledger.
Applicable(slice, q) ==
  {n \in DOMAIN slice :
     /\ slice[n].kind = "grant" /\ slice[n].signature = Signature(q)
     /\ \A i \in DOMAIN slice : slice[i].kind = "revocation" => slice[i].grant # slice[n].grant}

\* The ceilings that sibling domains attach to an ALLOW.
Ceilings(snapshot, q) ==
  {<<d, Winner(snapshot, d, q).rule.value>>
     : d \in {s \in Siblings(snapshot, q) : /\ ~IntegrityError(snapshot, s, q)
                                            /\ Winner(snapshot, s, q).rule.kind = "LIMIT"}}

\* Steps 3 to 7 of evaluate, for a well-posed question.
Decide(snapshot, slice, q) ==
  LET winner == Winner(snapshot, q.domain, q)
      granted == /\ ~winner.rule.final /\ winner.rule.kind = "REQUIRE_APPROVAL"
                 /\ Applicable(slice, q) # {}
      kind == IF granted THEN "ALLOW" ELSE winner.rule.kind
  IN IF kind = "ALLOW" /\ \E s \in Siblings(snapshot, q) : DomainIncomparable(snapshot, s, q)
     THEN IllPosed("incomparable_condition")
     ELSE [kind |-> kind, code |-> winner.rule.value,
           grant |-> IF granted THEN slice[Min(Applicable(slice, q))].grant ELSE None,
           limits |-> IF kind = "ALLOW" THEN Ceilings(snapshot, q) ELSE {}]

Evaluate(snapshot, slice, q) ==
  LET supplied == DOMAIN q.facts
      required == RequiredFacts(snapshot, q.operation)
      action == <<q.domain, q.operation>>
  IN IF action \notin DOMAIN snapshot.facts THEN IllPosed("unknown_action")
     ELSE IF ~(required \subseteq supplied) THEN IllPosed("missing_declared_facts")
     ELSE IF required # supplied THEN IllPosed("undeclared_facts")
     ELSE IF DomainIncomparable(snapshot, q.domain, q) THEN IllPosed("incomparable_condition")
     ELSE IF IntegrityError(snapshot, q.domain, q) THEN Refused
     ELSE Decide(snapshot, slice, q)

IsDecision(answer) == answer.kind \notin {"ILL_POSED", "REFUSED"}
=============================================================================
