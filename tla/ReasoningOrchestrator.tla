------------------------ MODULE ReasoningOrchestrator ------------------------
(***************************************************************************)
(* The reasoning orchestrator at work (src/src/ro/runtime.py and           *)
(* src/src/ro/invocation.py): the descriptor space and its versions,       *)
(* schemas and priors; govern, prepare and execute; the attempts of one    *)
(* invocation and the seal, announce, persist sequence that follows them;  *)
(* substitution and composites.                                            *)
(*                                                                         *)
(* The runtime is sequential, so while an invocation is under way only its *)
(* own steps happen.  They are separate actions because each crosses to a  *)
(* collaborator that may fail: the engine boundary, the bus and storage.   *)
(* A process crash may come between any two of them.                       *)
(***************************************************************************)
EXTENDS Reasoning

CONSTANTS
  Injected,        \* the mutations the injected descriptor space has had
  Mutations,       \* what callers may hand to DescriptorSpace.apply
  SealedInputs,    \* demands put to the gate; capability and priors are filled in
  Tasks,           \* what a caller may ask of prepare()
  Schemas,         \* (schema, version) pairs that may be registered
  Policies,        \* execution policies
  PolicyVersion,
  Returns,         \* what the engine boundary may return
  Plans,           \* composite plans, with the ceiling of their parent envelope
  Rank,            \* the order of provider ids
  MaxVersions, MaxPriors, MaxDecisions, MaxPrepared,  \* bounds
  MaxEvents        \* bound: nothing new is started once this many events are out

ASSUME InputsBuild ==
  /\ \A s \in SealedInputs : SealedInputsBuild(s) /\ PolicyBuilds(s.policy)
  /\ \A p \in Policies : ExecutionPolicyBuilds(p)
  /\ \A p \in Plans : PlanBuilds(p)

\* Budgets and consumptions are integers, and a composite has a parent envelope:
\* allocate_budget, _apply_consumption and run_composite raise on anything else.
ASSUME BudgetsBuild ==
  /\ None \notin Int
  /\ \A task \in Tasks : task.ceiling \in Int
  /\ \A p \in Plans : p.parent \in Nat \ {0}
  /\ \A ret \in Returns : ret.consumed \in Int /\ ret.conforms \in BOOLEAN

VARIABLES
  hist,        \* DescriptorSpace._history
  schemas,     \* SchemaRegistry._entries
  priors,      \* PriorsStore._current_version
  decisions,   \* decision records callers hold
  prepared,    \* provider resolutions callers hold, each with its request
  run,         \* the invocation under way, or None
  composite,   \* the composite under way, or None
  finished,    \* attempt sequences execute() returned
  composites,  \* composite outcomes
  stored,      \* decision and outcome records in storage
  published    \* events on the bus, by topic and record

vars == <<hist, schemas, priors, decisions, prepared, run, composite, finished,
          composites, stored, published>>

space == Last(hist)

Version == Len(hist) - 1

\* at_version: the space as of version n, forever.
AtVersion(n) == hist[n + 1]

\* The spaces the injected one went through.
InjectedSpaces ==
  LET after[n \in 0 .. Len(Injected)] ==
        IF n = 0 THEN EmptySpace ELSE Enact(after[n - 1], Injected[n])
  IN  after

ASSUME InjectedApplied ==
  /\ Injected \in Seq(Range(Injected))
  /\ \A n \in 1 .. Len(Injected) : Admit(InjectedSpaces[n - 1], Injected[n]) # {}

InjectedHistory == [i \in 1 .. Len(Injected) + 1 |-> InjectedSpaces[i - 1]]

Init ==
  /\ hist = InjectedHistory
  /\ schemas = {} /\ priors = 0
  /\ decisions = {} /\ prepared = {} /\ finished = {} /\ composites = {}
  /\ run = None /\ composite = None
  /\ stored = {} /\ published = {}

Idle == run = None /\ composite = None

Fresh == Idle /\ Cardinality(published) < MaxEvents

---------------------------------------------------------------------------
(* Reference data. *)

ApplyMutation ==
  /\ Fresh /\ Len(hist) < MaxVersions
  /\ \E m \in Mutations : \E next \in Admit(space, m) : hist' = Append(hist, next)
  /\ UNCHANGED <<schemas, priors, decisions, prepared, run, composite, finished,
                 composites, stored, published>>

RegisterSchema ==
  /\ Fresh
  /\ \E s \in Schemas \ schemas : schemas' = schemas \cup {s}
  /\ UNCHANGED <<hist, priors, decisions, prepared, run, composite, finished,
                 composites, stored, published>>

\* Versions start at one, and a stale or repeated one is refused.
Ingests(version) == version >= 1 /\ version > priors

\* handle_event("prior.updated")
PriorUpdated ==
  /\ Fresh
  /\ \E v \in 0 .. MaxPriors : Ingests(v) /\ priors' = v
  /\ UNCHANGED <<hist, schemas, decisions, prepared, run, composite, finished,
                 composites, stored, published>>

---------------------------------------------------------------------------
(* Events are built from a record and refer to it by its hash alone, so an  *)
(* event is its topic and its record; storage is addressed by the same hash *)
(* and keeps what it has.                                                   *)

DecidedEvent(decision) == <<"reasoning.decided", decision>>
InvokedEvent(record) == <<"reasoning.invoked", record>>
SealedEvent(record) ==
  <<IF record.kind = "RETURNED" THEN "reasoning.completed" ELSE "reasoning.failed", record>>

\* The two events derived from one sealed record.
Derived(record) == {InvokedEvent(record), SealedEvent(record)}

Write(record) == stored' = stored \cup {record}
Loads(record) == record \in stored

---------------------------------------------------------------------------
(* Govern and prepare. *)

CapabilityOf(id) == IF id \in DOMAIN space.caps THEN space.caps[id] ELSE None

\* The event goes out first; a refused write leaves the caller without the
\* decision and the event without its record.
Govern ==
  /\ Fresh /\ Cardinality(decisions) < MaxDecisions
  /\ \E inputs \in SealedInputs :
       LET d == Decide([inputs EXCEPT !.capability = CapabilityOf(inputs.demand.capability),
                                      !.priors = priors])
       IN  /\ d \notin decisions
           /\ published' = published \cup {DecidedEvent(d)}
           /\ \/ Write(d) /\ decisions' = decisions \cup {d}
              \/ UNCHANGED <<stored, decisions>>
  /\ UNCHANGED <<hist, schemas, priors, prepared, run, composite, finished, composites>>

PrepareRequest ==
  /\ Idle /\ Cardinality(prepared) < MaxPrepared
  /\ \E d \in decisions, task \in Tasks :
       /\ d.outcome = "REASONING_APPROVED"
       /\ Preparable(d, task, space, schemas)
       /\ \E r \in Resolutions(Request(d, task, space, Version, PolicyVersion, priors),
                               space.rows, Version, PolicyVersion, Rank) :
            prepared' = prepared \cup {r}
  /\ UNCHANGED <<hist, schemas, priors, decisions, run, composite, finished,
                 composites, stored, published>>

\* After an invocation failed, its caller may resolve the request again.
Substitute ==
  /\ Idle /\ Cardinality(prepared) < MaxPrepared
  /\ \E f \in finished :
       LET final == Last(f.records)
       IN  \E r \in Substitutes(final.request, final.resolution, f.policy, final.class,
                                space.rows, Version, Rank) :
             prepared' = prepared \cup {r}
  /\ UNCHANGED <<hist, schemas, priors, decisions, run, composite, finished,
                 composites, stored, published>>

---------------------------------------------------------------------------
(* One invocation: run_attempts. *)

\* _seal: the record of the attempt that ended.
Sealed(r, kind, class, origin, output, consumed, remaining) ==
  [request |-> r.request, resolution |-> r.resolution, index |-> Len(r.records) + 1,
   refs |-> r.records, kind |-> kind, class |-> class, origin |-> origin,
   output |-> output, consumed |-> consumed, remaining |-> remaining]

Started(request, resolution, policy) ==
  LET r == [request |-> request, resolution |-> resolution, policy |-> policy,
            records |-> << >>, total |-> 0, phase |-> "crossing", sealed |-> 0]
  IN  IF Initiates(request, resolution) THEN r
      ELSE [r EXCEPT !.phase = "sealing",
                     !.records = <<Sealed(r, "FAILED", "F6", None, None, 0, request.ceiling)>>]

StartExecute ==
  /\ Fresh
  /\ \E p, q \in prepared, policy \in Policies : run' = Started(p.request, q, policy)
  /\ UNCHANGED <<hist, schemas, priors, decisions, prepared, composite, finished,
                 composites, stored, published>>

\* What an attempt that was charged leaves: the sequence ends, or goes on.
Ended(r, record, total) ==
  [r EXCEPT !.records = Append(@, record), !.total = total, !.phase = "sealing"]

\* A failure or an expiry: retried, final, or followed by one F3 record when
\* only the budget stands in the way of a retry.
AfterFailure(r, record, total) ==
  LET next == Ended(r, record, total)
      d    == Disposition(record.class, r.policy, record.index, total, r.request.ceiling)
  IN  CASE d = "terminal" -> next
        [] d = "retry"    -> [next EXCEPT !.phase = "crossing"]
        [] d = "exhausted_budget" ->
             [next EXCEPT !.records = Append(@, Sealed(next, "FAILED", "F3", None, None, 0, 0))]

\* What the boundary returned, as the run that follows.
Crossed(r, ret) ==
  LET ceiling   == r.request.ceiling
      charged   == Charged(ret.consumed, r.total, ceiling)
      overdraft == r.total + ret.consumed > ceiling
      total     == IF overdraft THEN ceiling ELSE r.total + ret.consumed
      left      == ceiling - total
      seal(kind, class, origin, output) == Sealed(r, kind, class, origin, output, charged, left)
  IN  CASE ret.kind = "cancelled" -> Ended(r, seal("CANCELLED", None, ret.origin, None), total)
        [] ret.kind # "cancelled" /\ overdraft ->
             Ended(r, Sealed(r, "FAILED", "F3", None, None, charged, 0), total)
        [] OTHER ->
             CASE ret.kind = "returned" /\ ret.conforms ->
                    Ended(r, seal("RETURNED", None, None, ret.output), total)
               [] ret.kind = "returned" /\ ~ret.conforms ->
                    AfterFailure(r, seal("FAILED", "F8", None, None), total)
               [] ret.kind = "failed"  -> AfterFailure(r, seal("FAILED", ret.class, None, None), total)
               [] ret.kind = "expired" -> AfterFailure(r, seal("EXPIRED", "F7", None, None), total)

\* A return run_attempts accepts; it raises on any other.
WellFormed(ret) ==
  /\ ret.kind \in {"returned", "failed", "expired", "cancelled"}
  /\ ret.consumed >= 0
  /\ (ret.kind = "failed" => ret.class \in FAILURE_CLASSES \ {"F7"})
  /\ (ret.kind = "cancelled" => ret.origin \in CANCELLATION_ORIGINS)

Cross ==
  /\ run # None /\ run.phase = "crossing"
  /\ \E ret \in Returns : WellFormed(ret) /\ run' = Crossed(run, ret)
  /\ UNCHANGED <<hist, schemas, priors, decisions, prepared, composite, finished,
                 composites, stored, published>>

\* The boundary raises or its return is refused: the invocation ends in an
\* exception and the records sealed so far are gone.
CrossingRaises ==
  /\ run # None /\ run.phase = "crossing"
  /\ run' = None /\ composite' = None
  /\ UNCHANGED <<hist, schemas, priors, decisions, prepared, finished,
                 composites, stored, published>>

---------------------------------------------------------------------------
(* Announce and persist, record by record. *)

\* Mutant: the final record is announced and persisted first.
NextRecordReversed(r) == r.records[Len(r.records) - r.sealed]

NextRecord(r) == r.records[r.sealed + 1]

\* build_handoff: only a returned output reaches verification, with the decision
\* its request was prepared from.
Handoff(final) ==
  IF final.kind # "RETURNED" THEN None
  ELSE [record |-> final, decision |-> final.request.coords.decision, output |-> final.output,
        schema |-> final.request.schema]

\* The composite after one more constituent has its final record.
WithFinal(c, final) == IF c = None THEN None ELSE [c EXCEPT !.finals = Append(@, final)]

Persist ==
  /\ run # None /\ run.phase = "sealing"
  /\ published' = published \cup Derived(NextRecord(run))
  /\ Write(NextRecord(run))
  /\ IF run.sealed + 1 < Len(run.records)
     THEN run' = [run EXCEPT !.sealed = @ + 1] /\ UNCHANGED <<finished, composite>>
     ELSE /\ run' = None
          /\ finished' = finished \cup {[records |-> run.records, policy |-> run.policy,
                                      handoff |-> Handoff(Last(run.records))]}
          /\ composite' = WithFinal(composite, Last(run.records))
  /\ UNCHANGED <<hist, schemas, priors, decisions, prepared, composites>>

\* Storage refuses the write: execute() raises after the record's events.
PersistFails ==
  /\ run # None /\ run.phase = "sealing"
  /\ ~Loads(NextRecord(run))
  /\ published' = published \cup Derived(NextRecord(run))
  /\ run' = None /\ composite' = None
  /\ UNCHANGED <<hist, schemas, priors, decisions, prepared, finished, composites, stored>>

---------------------------------------------------------------------------
(* Composites: constituents in declared order, each within its own child   *)
(* envelope of the parent.                                                 *)

StartComposite ==
  /\ Fresh
  /\ \E plan \in Plans : composite' = [plan |-> plan, drawn |-> 0, finals |-> << >>]
  /\ UNCHANGED <<hist, schemas, priors, decisions, prepared, run, finished,
                 composites, stored, published>>

\* The ceiling of the next constituent.
NextCeiling(c) == c.plan.ceilings[Len(c.finals) + 1]

\* allocate_budget, the constituent's preparation, and its runner.
StartConstituent ==
  /\ run = None /\ composite # None
  /\ Len(composite.finals) < Len(composite.plan.ceilings)
  /\ Allocates(NextCeiling(composite), composite.plan.parent, composite.drawn)
  /\ \E p \in prepared, policy \in Policies :
       p.request.ceiling = NextCeiling(composite) /\ run' = Started(p.request, p, policy)
  /\ composite' = [composite EXCEPT !.drawn = @ + NextCeiling(composite)]
  /\ UNCHANGED <<hist, schemas, priors, decisions, prepared, finished,
                 composites, stored, published>>

\* The parent is exhausted, or the constituent cannot be prepared: the
\* composite raises with its earlier constituents already run.
ConstituentRefused ==
  /\ run = None /\ composite # None
  /\ Len(composite.finals) < Len(composite.plan.ceilings)
  /\ composite' = None
  /\ UNCHANGED <<hist, schemas, priors, decisions, prepared, run, finished,
                 composites, stored, published>>

CompositeDone ==
  /\ run = None /\ composite # None
  /\ Len(composite.finals) = Len(composite.plan.ceilings)
  /\ composites' = composites \cup
       {[plan |-> composite.plan, finals |-> composite.finals,
         winner |-> Aggregate(composite.plan, composite.finals),
         satisfied |-> Satisfied(composite.plan, composite.finals)]}
  /\ composite' = None
  /\ UNCHANGED <<hist, schemas, priors, decisions, prepared, run, finished, stored, published>>

---------------------------------------------------------------------------
\* The process dies; only storage and the bus keep what they hold.
Crash ==
  /\ stored # {} \/ published # {}
  /\ hist' = InjectedHistory /\ schemas' = {} /\ priors' = 0
  /\ decisions' = {} /\ prepared' = {} /\ finished' = {} /\ composites' = {}
  /\ run' = None /\ composite' = None
  /\ UNCHANGED <<stored, published>>

\* replay(): from storage alone, the attempts are legal and give, topic by topic,
\* the events that went out for them and for their decision.
RuntimeReplays(decision, records, policy) ==
  LET emitted == {e \in published : e[2] \in {decision} \cup Range(records)}
  IN  /\ Loads(decision) /\ \A i \in DOMAIN records : Loads(records[i])
      /\ Replays(records, policy)
      /\ emitted = {DecidedEvent(decision)} \cup UNION {Derived(records[i]) : i \in DOMAIN records}

Next ==
  \/ ApplyMutation \/ RegisterSchema \/ PriorUpdated
  \/ Govern \/ PrepareRequest \/ Substitute
  \/ StartExecute \/ Cross \/ CrossingRaises \/ Persist \/ PersistFails
  \/ StartComposite \/ StartConstituent \/ ConstituentRefused \/ CompositeDone
  \/ Crash

Spec == Init /\ [][Next]_vars

---------------------------------------------------------------------------
(* Properties *)

\* Whatever happens to the descriptor space around it, every resolution a
\* caller holds names a provider that, in the version the resolution cites,
\* had a row claiming the capability at the required rung and meeting the
\* caller's demands, for a capability that was matchable there; and its
\* request comes from an approved decision (select_provider, _validate_claims
\* and the refusal to retire a claimed capability, together).
ResolutionSound ==
  \A r \in prepared :
    LET s   == AtVersion(r.version)
        req == r.request
    IN  /\ req.coords.decision.outcome = "REASONING_APPROVED"
        /\ r.provider \in CandidateSet(s.rows, req.capability, req.rung)
        /\ s.caps[req.capability].lifecycle \in Matchable
        /\ Eligible(s.rows[r.provider], req.demands, DeriveSizeClass(ContextBytes(req.context)))

\* What the invocation that ended in this record has been charged.
Spent(final) == final.request.ceiling - final.remaining

\* The engine is never called with an empty envelope, an invocation never
\* charges more than its envelope, and the constituents of a composite
\* together never more than their parent (_apply_consumption,
\* _retry_disposition, run_composite's threading of drawn ceilings).
EnvelopeHonoured ==
  /\ \A f \in finished : ConsumedUpTo(f.records, Len(f.records)) <= f.records[1].request.ceiling
  /\ run # None =>
       /\ run.total = ConsumedUpTo(run.records, Len(run.records))
       /\ run.total <= run.request.ceiling
       /\ (run.phase = "crossing" => run.total < run.request.ceiling)
  /\ composite # None =>
       Total([i \in DOMAIN composite.finals |-> Spent(composite.finals[i])]) <= composite.plan.parent

\* An invocation that was never initiated.
InitiationRefused(records) ==
  Len(records) = 1 /\ records[1].class = "F6" /\ ~Initiates(records[1].request, records[1].resolution)

\* Every attempt sequence execute() returns is legal record by record, and
\* replay() accepts it with its decision, under its own policy: no gap, no
\* broken chain, no inconsistent budget, no premature stop, no event too few or
\* too many.  The one sequence replay may refuse is an initiation refusal under
\* a policy that retries F6.
ReplayAccepts ==
  \A f \in finished :
    /\ \A i \in DOMAIN f.records : OutcomeBuilds(f.records[i])
    /\ \/ RuntimeReplays(f.records[1].request.coords.decision, f.records, f.policy)
       \/ InitiationRefused(f.records)

OutcomesStored == {r \in stored : "refs" \in DOMAIN r}

\* A stored outcome record can be traced: the attempts before it are stored
\* too, its events went out before it, and what execute() returned or handed to
\* verification is all in storage, under an approved decision, whatever write
\* failed and wherever the process died.
ChainDurable ==
  /\ \A r \in OutcomesStored : Range(r.refs) \subseteq stored /\ Derived(r) \subseteq published
  /\ \A f \in finished :
       /\ Range(f.records) \subseteq stored
       /\ f.handoff # None => /\ {f.handoff.record, f.handoff.decision} \subseteq stored
                              /\ f.handoff.decision.outcome = "REASONING_APPROVED"
                              /\ f.handoff.output = Last(f.records).output
=============================================================================
