----------------------------- MODULE Governance -----------------------------
(***************************************************************************)
(* SGPE at work (src/sgpe/): the Policy Store and its catalog, activation  *)
(* and rollback of compiled snapshots, the Grant Ledger, and the runtime   *)
(* that binds a request to a governance world at admission and answers its *)
(* questions.                                                              *)
(*                                                                         *)
(* Each call runs to its end; the calls of authors, of the operator who    *)
(* compiles and activates, of grantors and of requests interleave.  What   *)
(* Storage keeps (the catalog and the ledger) survives a restart; the memo *)
(* and the registry of snapshots do not.                                   *)
(***************************************************************************)
EXTENDS Policy

CONSTANTS
  Vocabularies,   \* the vocabularies that may be proposed
  Drafts,         \* the documents that authors may append
  Questions,      \* the canonical questions of the requests
  Requests, PrincipalOf,
  MaxVersions,    \* bound on the versions of a document
  MaxCatalog, MaxLedger, MaxConsults,
  MaxFaults       \* bound on the restarts and the activations that Storage cuts in half

VARIABLES
  catalog,     \* Catalog._entries, as Storage has them
  store,       \* the maps of PolicyStore
  candidate,   \* the compile result that the operator holds
  ledger,      \* GrantLedger._records, as Storage has them
  warm,        \* GovernanceRuntime._snapshots
  memo,        \* GovernanceRuntime._memo
  views,       \* the effective policy of an admitted request
  decided,     \* history: the consultations and their answers
  faults

vars == <<catalog, store, candidate, ledger, warm, memo, views, decided, faults>>
runtimeVars == <<warm, memo, views, decided>>

ASSUME GovernanceAssumption ==
  /\ \A d \in Drafts : DocumentOk(d)
  /\ \A v \in Vocabularies : v.version >= 1 /\ v.domains # {}
  /\ PrincipalOf \in [Requests -> {q.principal : q \in Questions}]
  /\ \A q \in Questions : q.request \in Requests

-----------------------------------------------------------------------------
(* The Policy Store.                                                       *)

EmptyStore == [content |-> {}, deprecated |-> {}, vocabularies |-> <<>>, manifests |-> <<>>, activations |-> <<>>]

Latest(s, did) == LET vs == {c.version : c \in {x \in s.content : x.did = did}}
                  IN IF vs = {} THEN 0 ELSE Max(vs)
Known(s, did, version) == \E c \in s.content : c.did = did /\ c.version = version

\* _apply_vocabulary_version: the next version, with every term of the current one.
VocabularyLegal(s, v) ==
  /\ v.version = Len(s.vocabularies) + 1
  /\ s.vocabularies # <<>> => LET current == Last(s.vocabularies) IN
       /\ current.domains \subseteq v.domains
       /\ current.operations \subseteq v.operations
       /\ current.facts \subseteq v.facts

\* What _apply_* checks again when a log is replayed.
Legal(s, e) ==
  CASE e.kind = "document_version" -> e.version = Latest(s, e.did) + 1
    [] e.kind = "vocabulary_version" -> VocabularyLegal(s, e.vocabulary)
    [] e.kind = "manifest" -> \A ref \in e.manifest.snapshot.refs : Known(s, ref[1], ref[2])
    [] OTHER -> TRUE

Apply(s, e) ==
  CASE e.kind = "document_version" ->
         [s EXCEPT !.content = @ \cup {[did |-> e.did, version |-> e.version, document |-> e.document]}]
    [] e.kind = "vocabulary_version" -> [s EXCEPT !.vocabularies = Append(@, e.vocabulary)]
    [] e.kind = "deprecation" -> [s EXCEPT !.deprecated = @ \cup {<<e.did, e.version>>}]
    [] e.kind = "manifest" -> [s EXCEPT !.manifests = Append(@, e.manifest)]
    [] e.kind = "activation" -> [s EXCEPT !.activations = Append(@, e.version)]

\* rebuild_from_log: the appends again, through the same checks, which raise on an entry
\* that is not legal where it stands.
StoresAfter(log) ==
  LET after[n \in 0..Len(log)] == IF n = 0 THEN EmptyStore ELSE Apply(after[n - 1], log[n])
  IN after
CatalogReplays(log) ==
  LET after == StoresAfter(log) IN \A n \in DOMAIN log : Legal(after[n - 1], log[n])
RebuildStore(log) == StoresAfter(log)[Len(log)]

\* Catalog.append: a position is handed out only after the durable write.
Record(entry) ==
  /\ Len(catalog) < MaxCatalog
  /\ catalog' = Append(catalog, entry)
  /\ store' = Apply(store, entry)

AppendVocabulary(v) ==
  /\ VocabularyLegal(store, v)
  /\ Record([kind |-> "vocabulary_version", vocabulary |-> v])
  /\ UNCHANGED <<candidate, ledger, runtimeVars, faults>>

AppendDocument(d) ==
  /\ d.vocabulary \in DOMAIN store.vocabularies
  /\ Latest(store, DocId(d)) < MaxVersions
  /\ Record([kind |-> "document_version", did |-> DocId(d),
             version |-> Latest(store, DocId(d)) + 1, document |-> d])
  /\ UNCHANGED <<candidate, ledger, runtimeVars, faults>>

AppendDeprecation(did, version) ==
  /\ Known(store, did, version)
  /\ Record([kind |-> "deprecation", did |-> did, version |-> version])
  /\ UNCHANGED <<candidate, ledger, runtimeVars, faults>>

-----------------------------------------------------------------------------
(* Compilation and activation.                                             *)

\* Catalog.as_of: the positions of the entries of a kind.
AsOf(position, kind) == {i \in 1..position : catalog[i].kind = kind}

\* documents_as_of: the latest version of each document in the prefix.
DocumentsAsOf(position) ==
  LET entries == {catalog[i] : i \in AsOf(position, "document_version")}
  IN {[did |-> e.did, version |-> e.version, document |-> e.document]
        : e \in {x \in entries : \A y \in entries : y.did = x.did => y.version <= x.version}}

\* Stage 1 reads the deprecations of now, whatever the position.
Assembled(position) ==
  {v \in DocumentsAsOf(position) : <<v.did, v.version>> \notin store.deprecated}

CompileSnapshot(position) ==
  CompileSet(Assembled(position), catalog[Max(AsOf(position, "vocabulary_version"))].vocabulary, position)

\* The operator compiles at the current position; an older one is what a rollback reads.
Compile ==
  /\ store.vocabularies # <<>>
  /\ candidate' = CompileSnapshot(Len(catalog))
  /\ UNCHANGED <<catalog, store, ledger, runtimeVars, faults>>

ActiveVersion == IF store.activations = <<>> THEN None ELSE Last(store.activations)
NextVersion == IF ActiveVersion = None THEN 1 ELSE ActiveVersion + 1

ManifestEntry(snapshot) ==
  [kind |-> "manifest", manifest |-> [version |-> NextVersion, snapshot |-> snapshot]]

\* activate: the manifest, then the activation fact.
ActivateResult(result) ==
  /\ result.outcome = "compiled"
  /\ Len(catalog) + 2 <= MaxCatalog
  /\ LET manifest == ManifestEntry(result.snapshot)
         activation == [kind |-> "activation", version |-> NextVersion]
     IN /\ catalog' = Append(Append(catalog, manifest), activation)
        /\ store' = Apply(Apply(store, manifest), activation)
  /\ UNCHANGED <<ledger, runtimeVars, faults>>

\* Storage rejects the second append: the manifest stays, without an activation.
ActivateHalf(result) ==
  /\ result.outcome = "compiled"
  /\ faults < MaxFaults
  /\ Record(ManifestEntry(result.snapshot))
  /\ faults' = faults + 1
  /\ UNCHANGED <<ledger, runtimeVars>>

Activate ==
  /\ candidate # None
  /\ ActivateResult(candidate) \/ ActivateHalf(candidate)
  /\ UNCHANGED candidate

\* rollback: recompile at the old manifest's position, and activate forward.
Rollback(i) ==
  /\ LET result == CompileSnapshot(store.manifests[i].snapshot.position)
     IN ActivateResult(result) \/ ActivateHalf(result)
  /\ UNCHANGED candidate

-----------------------------------------------------------------------------
(* The Grant Ledger.                                                       *)

AppendRecord(record) ==
  /\ Len(ledger) < MaxLedger
  /\ ledger' = Append(ledger, record)
  /\ UNCHANGED <<catalog, store, candidate, runtimeVars, faults>>

Grant(signature, scope) ==
  AppendRecord([kind |-> "grant", grant |-> Len(ledger) + 1, signature |-> signature, scope |-> scope])

\* Mutant: a revocation does not inherit the scope of its grant.
RevokeUnscoped(g) ==
  /\ ledger[g].kind = "grant"
  /\ AppendRecord([kind |-> "revocation", grant |-> g, signature |-> ledger[g].signature,
                   scope |-> <<"principal", None>>])
\* append_revocation: it inherits the signature and the scope of the grant it names.
Revoke(g) ==
  /\ ledger[g].kind = "grant"
  /\ AppendRecord([kind |-> "revocation", grant |-> g, signature |-> ledger[g].signature,
                   scope |-> ledger[g].scope])

\* A standing grant of a principal, appended by a governance act outside any request.
GrantStanding(q) == Grant(Signature(q), <<"principal", q.principal>>)

\* The log is sound when every record has its position's id and a revocation names an earlier grant.
LedgerReplays(log) ==
  \A i \in DOMAIN log :
    IF log[i].kind = "grant" THEN log[i].grant = i
    ELSE log[i].grant \in 1..(i - 1) /\ log[log[i].grant].kind = "grant"

-----------------------------------------------------------------------------
(* The runtime.                                                            *)

\* Mutant: any record after the admission enters.
SliceThawed(ep, position) ==
  Restrict(ledger, {i \in 1..position :
    ledger[i].scope \in {<<"request", ep.request>>, <<"principal", ep.principal>>}})
\* consultation_slice, by the positions of the records: of the principal up to the
\* admission, and of the request to the end.
Slice(ep, position) ==
  Restrict(ledger, {i \in 1..position :
    \/ ledger[i].scope = <<"request", ep.request>>
    \/ i <= ep.baseline /\ ledger[i].scope = <<"principal", ep.principal>>})

\* The first manifest of a version; there may be several when an activation failed.
ManifestOf(version) ==
  store.manifests[Min({i \in DOMAIN store.manifests : store.manifests[i].version = version})]

\* regenerate: the recompiled snapshot, or None when it is not what the manifest recorded.
Regenerated(version) ==
  LET result == CompileSnapshot(ManifestOf(version).snapshot.position)
  IN IF result.snapshot = ManifestOf(version).snapshot THEN result.snapshot ELSE None

SnapshotFor(version) == IF version \in DOMAIN warm THEN warm[version] ELSE Regenerated(version)

\* admit: fail-closed without an active snapshot.
Admit(r) ==
  /\ views[r] = None
  /\ ActiveVersion # None
  /\ views' = [views EXCEPT ![r] = [version |-> ActiveVersion, baseline |-> Len(ledger),
                                    request |-> r, principal |-> PrincipalOf[r]]]
  /\ UNCHANGED <<catalog, store, candidate, ledger, warm, memo, decided, faults>>

\* replay: the answer without the memo, at a position of the ledger.
Replay(ep, q, position) ==
  LET snapshot == SnapshotFor(ep.version)
  IN IF snapshot = None THEN Refused ELSE Evaluate(snapshot, Slice(ep, position), q)

\* Mutant: the memo key leaves the ledger position out.
MemoKeyPositionless(ep, q, position) == <<ep.version, 0, q>>
MemoKey(ep, q, position) == <<ep.version, position, q>>

\* consult, at the current position of the ledger.
Consult(r, q) ==
  /\ views[r] # None
  /\ Cardinality(decided) < MaxConsults
  /\ LET ep == views[r]
         position == Len(ledger)
         snapshot == SnapshotFor(ep.version)
         key == MemoKey(ep, q, position)
         answer == IF snapshot # None /\ key \in DOMAIN memo THEN memo[key] ELSE Replay(ep, q, position)
     IN /\ warm' = IF snapshot = None THEN warm ELSE [v \in DOMAIN warm \cup {ep.version} |-> SnapshotFor(v)]
        /\ memo' = IF IsDecision(answer) /\ key \notin DOMAIN memo
                     THEN [k \in DOMAIN memo \cup {key} |-> IF k = key THEN answer ELSE memo[k]] ELSE memo
        /\ decided' = decided \cup {[ep |-> ep, question |-> q, position |-> position, answer |-> answer]}
  /\ UNCHANGED <<catalog, store, candidate, ledger, views, faults>>

\* _check_routable: a decision of the view's snapshot version, whichever request it is of.
Routable(r, d) == views[r] # None /\ IsDecision(d.answer) /\ d.ep.version = views[r].version

RouteApproval(r, d) ==
  /\ Routable(r, d)
  /\ d.answer.kind = "REQUIRE_APPROVAL"
  /\ Grant(Signature(d.question), <<"request", r>>)

RouteRevocation(r, d, g) ==
  /\ Routable(r, d)
  /\ Revoke(g)

\* The process restarts.  The store is rebuilt from its log, the views from the stamps that
\* were persisted; a request whose stamp was not is admitted again.
Restart(lost) ==
  /\ faults < MaxFaults
  /\ faults' = faults + 1
  /\ CatalogReplays(catalog) /\ LedgerReplays(ledger)
  /\ store' = RebuildStore(catalog)
  /\ views' = [r \in Requests |-> IF r \in lost THEN None ELSE views[r]]
  /\ candidate' = None
  /\ memo' = <<>> /\ warm' = <<>>
  /\ UNCHANGED <<catalog, ledger, decided>>

-----------------------------------------------------------------------------
Init ==
  /\ catalog = <<>> /\ store = EmptyStore /\ candidate = None
  /\ ledger = <<>> /\ warm = <<>> /\ memo = <<>>
  /\ views = [r \in Requests |-> None]
  /\ decided = {}
  /\ faults = 0

Next ==
  \/ \E v \in Vocabularies : AppendVocabulary(v)
  \/ \E d \in Drafts : AppendDocument(d)
  \/ \E c \in store.content : AppendDeprecation(c.did, c.version)
  \/ Compile
  \/ Activate
  \/ \E i \in DOMAIN store.manifests : Rollback(i)
  \/ \E q \in Questions : GrantStanding(q)
  \/ \E g \in DOMAIN ledger : Revoke(g)
  \/ \E r \in Requests : Admit(r)
  \/ \E q \in Questions : Consult(q.request, q)
  \/ \E r \in Requests, d \in decided : RouteApproval(r, d)
  \/ \E r \in Requests, d \in decided, g \in DOMAIN ledger : RouteRevocation(r, d, g)
  \/ \E lost \in SUBSET Requests : Restart(lost)

Spec == Init /\ [][Next]_vars

-----------------------------------------------------------------------------
(* Properties.                                                             *)

\* The rules of the bound snapshot that the question meets, read off the documents.
Meets(x, q) ==
  /\ x.rule.domain = q.domain /\ x.rule.operation = q.operation
  /\ x.rule.selector \in {q.resource, AnyResource}
  /\ Satisfied(x.rule.cond, q.facts)
RulesMet(d) ==
  {x \in Cited({c \in store.content : <<c.did, c.version>> \in ManifestOf(d.ep.version).snapshot.refs})
     : Meets(x, d.question)}
Top(rules) == {x \in rules : \A y \in rules : ScopeRank[y.scope] <= ScopeRank[x.scope]}

\* An answer is what the three rules of precedence give for the rules that the question
\* meets: the highest scope, in it a DENY before a REQUIRE_APPROVAL before an ALLOW, and
\* the least limit; a grant only lifts a REQUIRE_APPROVAL; and an answer is refused only
\* if no rule is met or the snapshot is no longer what its manifest says
\* (compiler.py _decide_pair, evaluator.py _match_and_win).
PrecedenceHolds ==
  \A d \in decided :
    LET top == Top(RulesMet(d)) IN
    /\ IsDecision(d.answer) =>
         \E x \in top :
           /\ IF d.answer.grant # None THEN d.answer.kind = "ALLOW" /\ x.rule.kind = "REQUIRE_APPROVAL"
              ELSE d.answer.kind = x.rule.kind
           /\ IF x.rule.kind = "LIMIT" THEN \A y \in top : x.rule.value <= y.rule.value
              ELSE \A y \in top : EffectPriority[y.rule.kind] <= EffectPriority[x.rule.kind]
    /\ d.answer.kind = "REFUSED" => top = {} \/ Regenerated(d.ep.version) = None

\* The world of a request is frozen at its admission: between two answers to the same
\* question the ledger got a record bound to this request, or they are the same.  No
\* document, deprecation, activation or standing grant changes them; at most the snapshot
\* cannot be regenerated any more (resolver.py consultation_slice).
WorldFrozen ==
  \A c, d \in decided :
    (/\ c.ep = d.ep /\ c.question = d.question /\ c.position <= d.position
     /\ c.answer # d.answer /\ Refused \notin {c.answer, d.answer})
      => \E i \in (c.position + 1)..d.position : ledger[i].scope = <<"request", c.ep.request>>

\* The memo and the registry of snapshots are invisible and the stamps suffice: every
\* decision ever given is the one that the snapshot its manifest recorded gives for the
\* ledger as of its position (runtime.py RequestGovernance.replay); and both logs always
\* pass the checks of a restart, which gives back the store of the running process
\* (store.py and ledger.py rebuild_from_log).
ReplayMatches ==
  /\ \A d \in decided :
       IsDecision(d.answer) =>
         d.answer = Evaluate(ManifestOf(d.ep.version).snapshot, Slice(d.ep, d.position), d.question)
  /\ CatalogReplays(catalog) /\ LedgerReplays(ledger)
  /\ RebuildStore(catalog) = store

\* A revoked approval of a request lets nothing through: no answer stamped at or after the
\* revocation rests on that grant (ledger.py append_revocation, evaluator.py evaluate).
RevocationBites ==
  \A d \in decided :
    LET g == d.answer.grant IN
    g # None /\ ledger[g].scope = <<"request", d.ep.request>> =>
      \A i \in DOMAIN ledger : i <= d.position /\ ledger[i].kind = "revocation" => ledger[i].grant # g
=============================================================================
