---------------------------- MODULE Verification ----------------------------
(***************************************************************************)
(* Verification and evaluation (src/vae/): a demand event opens a judgment *)
(* of an artifact, its delegated checks go to Execution and its static     *)
(* checks run here, and when all have ended the verdict is derived, made   *)
(* durable and published.  The pending state is lost in a crash and        *)
(* rebuilt from the demands, the durable records and the rules.            *)
(*                                                                         *)
(* One operation of Verification runs to its end before the next one       *)
(* starts, except that emission is split between the write and the         *)
(* publish, where a crash or an exception of the bus makes a difference.   *)
(***************************************************************************)
EXTENDS Derivation

CONSTANTS
  Artifacts,
  Delegated, Static,  \* the checks that the rules require of every artifact
  LevelOf,            \* the verification level of a check
  Versions,           \* the rules versions
  Deadline,           \* ArtifactRules.deadlines, by version and delegated check
  Outcomes,           \* the outcomes Execution answers with
  None,               \* no judgment, verdict or result
  MaxDemands, MaxClock, MaxCrashes,
  MaxUnacked,         \* bound on the unacknowledged requests of a check
  MaxItems            \* bound on the items of a record

VARIABLES
  demands,     \* the demand events: artifact and rules version; id and judgment id: position
  rules,       \* RulesStore: the versions ingested
  seen,        \* Intake._seen_event_ids
  judging,     \* Intake._open_judgments: the judgment id of an artifact
  terminal,    \* Intake._terminal_verdicts: the record of an artifact
  open,        \* Verification._open: the judgment of an artifact
  execution,   \* Execution: requests received, answers given and the latest answer, by key
  storage,     \* Storage: the evidence records
  bus,         \* the verdicts and faults published
  at, subject, \* where try_close_and_emit is, and the artifact it is about
  up,          \* the process runs
  clock,       \* the injected now
  crashes, lost  \* history: crashes, and the artifacts whose verdict one left unpublished

pendingVars == <<seen, judging, terminal, open>>
vars == <<demands, rules, pendingVars, execution, storage, bus, at, subject, up, clock, crashes, lost>>

Ids == 1..MaxDemands

\* build_artifact_rules: check names are not repeated, and every check that is sent
\* out has a deadline.
RulesBuild == Delegated \cap Static = {} /\ Deadline \in [Versions -> [Delegated -> 1..MaxClock]]

ASSUME VerificationAssumption ==
  /\ Versions \subseteq Nat \ {0} /\ 1 \in Versions
  /\ RulesBuild
  /\ LevelOf \in [Delegated \cup Static -> DOMAIN LevelToDimension]
  /\ Outcomes \subseteq {"success", "failure", "timeout", "crash"}
  /\ MaxDemands \in Nat

\* StaticCheckRegistry.run accepts these outcomes only.
StaticOutcomes == {"pass", "fail"}

\* The items that a judgment collects, and the evidence records made of them.
Evidence == [rule : Delegated \cup Static, level : DOMAIN LevelToDimension,
             result : Outcomes \cup StaticOutcomes \cup {"execution_failure"}, kind : Kinds]
Records == [artifact : Artifacts, version : Versions, items : Seq(Evidence)]
ASSUME NoneAssumption == None \notin Records

Idle == up /\ at = "idle"

-----------------------------------------------------------------------------
(* Judgments.                                                              *)

OpenJudgment(id, version) ==
  [id |-> id, version |-> version, delegations |-> [c \in Delegated |-> "required"],
   static_pending |-> Static, items |-> <<>>]

Ended(state) == state \in {"resulted", "expired"}

IsClosed(j) == j.static_pending = {} /\ \A c \in Delegated : Ended(j.delegations[c])

Item(check, result, kind) == [rule |-> check, level |-> LevelOf[check], result |-> result, kind |-> kind]

\* The evidence record of a judgment; its derivation account is a function of it.
RecordOf(a, j) == [artifact |-> a, version |-> j.version, items |-> j.items]

\* Intake.receive, for the demand event id.
Receive(id, a) ==
  CASE id \in seen -> "deduped"
    [] id \notin seen /\ terminal[a] # None -> "answered_by_existing_verdict"
    [] id \notin seen /\ terminal[a] = None /\ judging[a] # None -> "already_open"
    [] OTHER -> "opened"

\* RulesStore.lookup finds the rules; otherwise it raises.
Lookup(v) == v \in rules

\* handle_demand.  Intake has the judgment before the rules are looked up: when they
\* are not there the lookup raises, and the artifact stays open without a judgment.
HandleDemand(id, d) ==
  LET opened == Receive(id, d.artifact) = "opened" IN
  /\ seen' = seen \cup {id}
  /\ judging' = IF opened THEN [judging EXCEPT ![d.artifact] = id] ELSE judging
  /\ open' = IF opened /\ Lookup(d.version)
               THEN [open EXCEPT ![d.artifact] = OpenJudgment(id, d.version)] ELSE open
  /\ UNCHANGED <<terminal, rules, execution, storage, bus, at, subject, up, clock, crashes, lost>>

Demand(a, v) ==
  /\ Idle
  /\ Len(demands) < MaxDemands
  /\ demands' = Append(demands, [artifact |-> a, version |-> v])
  /\ HandleDemand(Len(demands) + 1, [artifact |-> a, version |-> v])

\* At-least-once delivery.
Redeliver(id) ==
  /\ Idle
  /\ HandleDemand(id, demands[id])
  /\ UNCHANGED demands

\* RulesStore.ingest: versions only go up.
IngestRules(v) ==
  /\ \A w \in rules : v > w
  /\ rules' = rules \cup {v}
  /\ UNCHANGED <<demands, pendingVars, execution, storage, bus, at, subject, up, clock, crashes, lost>>

-----------------------------------------------------------------------------
(* Checks.                                                                 *)

Unmoved == <<demands, rules, seen, judging, terminal, storage, bus, at, subject, up, clock, crashes, lost>>

Judge(a, j) == open' = [open EXCEPT ![a] = j]

Open(a) == Idle /\ open[a] # None

Asked(id, c) == execution' = [execution EXCEPT ![id][c].asked = @ + 1]

\* dispatch: acknowledged,
Dispatch(a, c) ==
  /\ Open(a)
  /\ open[a].delegations[c] = "required"
  /\ Judge(a, [open[a] EXCEPT !.delegations[c] = "dispatched"])
  /\ Asked(open[a].id, c)
  /\ UNCHANGED Unmoved

\* or not, although Execution has the request.
DispatchUnacked(a, c) ==
  /\ Open(a)
  /\ open[a].delegations[c] = "required"
  /\ execution[open[a].id][c].asked < MaxUnacked
  /\ Asked(open[a].id, c)
  /\ UNCHANGED <<Unmoved, open>>

\* External: Execution answers a request; a later answer replaces an earlier one.
Execute(id, c, outcome) ==
  /\ execution[id][c].told < execution[id][c].asked
  /\ execution' = [execution EXCEPT ![id][c].told = @ + 1, ![id][c].result = outcome]
  /\ UNCHANGED <<Unmoved, open>>

Conclude(a, c, state, result) ==
  Judge(a, [open[a] EXCEPT !.delegations[c] = state,
                           !.items = Append(@, Item(c, result, "independent"))])

\* Mutant: nothing expires.
ResolveWaits(a, c) ==
  /\ Open(a)
  /\ open[a].delegations[c] = "dispatched"
  /\ LET result == execution[open[a].id][c].result IN
       result # None /\ Conclude(a, c, "resulted", result)
  /\ UNCHANGED <<Unmoved, execution>>
\* resolve: a result first, and the deadline only without one.
Resolve(a, c) ==
  /\ Open(a)
  /\ open[a].delegations[c] = "dispatched"
  /\ LET result == execution[open[a].id][c].result IN
       \/ result # None /\ Conclude(a, c, "resulted", result)
       \/ /\ result = None
          /\ clock >= Deadline[open[a].version][c]
          /\ Conclude(a, c, "expired", "execution_failure")
  /\ UNCHANGED <<Unmoved, execution>>

\* record_late_result
LateResult(a, c) ==
  /\ Open(a)
  /\ Ended(open[a].delegations[c])
  /\ Len(open[a].items) < MaxItems
  /\ execution[open[a].id][c].result # None
  /\ Judge(a, [open[a] EXCEPT !.items = Append(@, Item(c, execution[open[a].id][c].result, "redundant"))])
  /\ UNCHANGED <<Unmoved, execution>>

RunStatic(a, c) ==
  /\ Open(a)
  /\ c \in open[a].static_pending
  /\ \E result \in StaticOutcomes :
       Judge(a, [open[a] EXCEPT !.static_pending = @ \ {c},
                                !.items = Append(@, Item(c, result, "independent"))])
  /\ UNCHANGED <<Unmoved, execution>>

Tick ==
  /\ clock < MaxClock
  /\ clock' = clock + 1
  /\ UNCHANGED <<demands, rules, pendingVars, execution, storage, bus, at, subject, up, crashes, lost>>

-----------------------------------------------------------------------------
(* Emission: derive, persist, publish.                                     *)

\* try_close_and_emit up to the answer of Storage.
TryClose(a) ==
  /\ Open(a)
  /\ IsClosed(open[a])
  /\ terminal[a] = None
  /\ \/ storage' = storage \cup {RecordOf(a, open[a])} /\ at' = "publish"
     \/ storage' = storage /\ at' = "fault"
  /\ subject' = a
  /\ UNCHANGED <<demands, rules, pendingVars, execution, bus, up, clock, crashes, lost>>

Published(a) == {n \in DOMAIN bus : bus[n].artifact = a /\ bus[n].name # "fault.recorded"}

VerdictEvent(record) ==
  [name |-> IF Derive(record.items).outcome.verdict = "passed" THEN "verify.passed" ELSE "verify.failed",
   artifact |-> record.artifact, record |-> record]

\* Intake.mark_terminal: a verdict is never replaced by another one.
MarkTerminal(a, record) ==
  /\ terminal[a] \in {None, record}
  /\ terminal' = [terminal EXCEPT ![a] = record]
  /\ judging' = [judging EXCEPT ![a] = None]

\* Verification.replay: the durable record alone gives the event that was published.
Replays(record, event) == VerdictEvent(record) = event

\* The verdict, then mark_terminal and the end of the judgment.
Publish ==
  /\ at = "publish"
  /\ LET record == RecordOf(subject, open[subject])
     IN bus' = Append(bus, VerdictEvent(record)) /\ MarkTerminal(subject, record)
  /\ open' = [open EXCEPT ![subject] = None]
  /\ at' = "idle"
  /\ UNCHANGED <<demands, rules, seen, execution, storage, subject, up, clock, crashes, lost>>

\* The write was rejected: a fault, and the judgment ends; Intake is not told.
PublishFault ==
  /\ at = "fault"
  /\ bus' = Append(bus, [name |-> "fault.recorded", artifact |-> subject, record |-> None])
  /\ open' = [open EXCEPT ![subject] = None]
  /\ at' = "idle"
  /\ UNCHANGED <<demands, rules, seen, judging, terminal, execution, storage, subject, up, clock, crashes, lost>>

\* The bus raises: the judgment is still open, and may be closed again.
BusRaises ==
  /\ at # "idle"
  /\ at' = "idle"
  /\ UNCHANGED <<demands, rules, pendingVars, execution, storage, bus, subject, up, clock, crashes, lost>>

-----------------------------------------------------------------------------
(* Crash and rebuild.                                                      *)

Persisted == {r.artifact : r \in storage}

Crash ==
  /\ up
  /\ crashes < MaxCrashes
  /\ crashes' = crashes + 1
  /\ lost' = lost \cup {a \in Persisted : Published(a) = {}}
  /\ up' = FALSE
  /\ at' = "idle"
  /\ seen' = {}
  /\ judging' = [a \in Artifacts |-> None]
  /\ terminal' = [a \in Artifacts |-> None]
  /\ open' = [a \in Artifacts |-> None]
  /\ UNCHANGED <<demands, rules, execution, storage, bus, subject, clock>>

\* The artifacts that rebuild opens a judgment of, and the demand that does it.
ToReopen == {d.artifact : d \in ToSet(demands)} \ Persisted
FirstDemand(a) == CHOOSE i \in DOMAIN demands :
                    demands[i].artifact = a /\ \A k \in 1..i-1 : demands[k].artifact # a
\* The rules of one of them are not there: rebuild raises.
RebuildRaises == \E a \in ToReopen : ~Lookup(demands[FirstDemand(a)].version)

\* Mutant: the durable records are not looked at.
RebuildReopens ==
  /\ ~up
  /\ LET all == {d.artifact : d \in ToSet(demands)} IN
       /\ \A a \in all : demands[FirstDemand(a)].version \in rules
       /\ judging' = [a \in Artifacts |-> IF a \in all THEN FirstDemand(a) ELSE None]
       /\ open' = [a \in Artifacts |-> IF a \in all
                     THEN OpenJudgment(FirstDemand(a), demands[FirstDemand(a)].version) ELSE None]
  /\ seen' = DOMAIN demands
  /\ up' = TRUE
  /\ UNCHANGED <<demands, terminal, rules, execution, storage, bus, at, subject, clock, crashes, lost>>
\* pending.rebuild: durable records are terminal, then the demands are replayed.
Rebuild ==
  /\ ~up
  /\ ~RebuildRaises
  /\ terminal' \in {t \in [Artifacts -> storage \cup {None}] :
                      \A a \in Artifacts : IF a \in Persisted THEN t[a] # None /\ t[a].artifact = a
                                                              ELSE t[a] = None}
  /\ judging' = [a \in Artifacts |-> IF a \in ToReopen THEN FirstDemand(a) ELSE None]
  /\ open' = [a \in Artifacts |-> IF a \in ToReopen
                THEN OpenJudgment(FirstDemand(a), demands[FirstDemand(a)].version) ELSE None]
  /\ seen' = DOMAIN demands
  /\ up' = TRUE
  /\ UNCHANGED <<demands, rules, execution, storage, bus, at, subject, clock, crashes, lost>>

-----------------------------------------------------------------------------
Init ==
  /\ demands = <<>>
  /\ rules = {1}
  /\ seen = {}
  /\ judging = [a \in Artifacts |-> None]
  /\ terminal = [a \in Artifacts |-> None]
  /\ open = [a \in Artifacts |-> None]
  /\ execution = [id \in Ids |-> [c \in Delegated |-> [asked |-> 0, told |-> 0, result |-> None]]]
  /\ storage = {}
  /\ bus = <<>>
  /\ at = "idle"
  /\ subject \in Artifacts
  /\ up = TRUE
  /\ clock = 0
  /\ crashes = 0
  /\ lost = {}

Next ==
  \/ \E a \in Artifacts, v \in Versions : Demand(a, v)
  \/ \E id \in DOMAIN demands : Redeliver(id)
  \/ \E v \in Versions : IngestRules(v)
  \/ \E a \in Artifacts, c \in Delegated :
       Dispatch(a, c) \/ DispatchUnacked(a, c) \/ Resolve(a, c) \/ LateResult(a, c)
  \/ \E a \in Artifacts, c \in Static : RunStatic(a, c)
  \/ \E id \in Ids, c \in Delegated, outcome \in Outcomes : Execute(id, c, outcome)
  \/ \E a \in Artifacts : TryClose(a)
  \/ Publish \/ PublishFault \/ BusRaises
  \/ Tick
  \/ Crash \/ Rebuild

Spec == Init /\ [][Next]_vars

\* The caller's next call about an artifact under judgment.
Drive(a) ==
  \/ \E c \in Delegated : Dispatch(a, c) \/ Resolve(a, c)
  \/ \E c \in Static : RunStatic(a, c)
  \/ TryClose(a)

\* The caller keeps driving every open judgment, as System does; the bus does not
\* raise for ever; time passes; and a process that went down is started again.
\* Execution need not answer, and nobody need demand.
FairSpec ==
  /\ Spec
  /\ \A a \in Artifacts : WF_vars(Drive(a))
  /\ SF_vars(Publish \/ PublishFault)
  /\ WF_vars(Tick)
  /\ WF_vars(Rebuild)

-----------------------------------------------------------------------------
(* Properties.                                                             *)

Required == Delegated \cup Static
Verdicts == {e \in ToSet(bus) : e.name # "fault.recorded"}

\* INVARIANT (VAE-I8, VAE-O5, VAE-K8): a published verdict replays from an evidence
\* record in Storage, the record has one first outcome of every required check, whatever
\* expired, crashed or came late, and the verdict is passed only if all of them passed.
VerdictExplained ==
  \A e \in Verdicts :
    /\ \E r \in storage : Replays(r, e)
    /\ \A c \in Required :
         Cardinality({n \in DOMAIN e.record.items :
                        e.record.items[n].rule = c /\ e.record.items[n].kind = "independent"}) = 1
    /\ e.name = "verify.passed" =>
         \A i \in ToSet(e.record.items) : i.result \in {"pass", "success"}

\* INVARIANT (VAE-O10, VAE/04 section 5.3): one verdict per artifact, over redelivered
\* demands, publishes that raised, crashes and rebuilds; and an artifact that has one
\* in this life of the process is not judged again.
OneVerdict ==
  \A a \in Artifacts :
    /\ Cardinality(Published(a)) <= 1
    /\ terminal[a] # None => terminal[a] \in storage /\ open[a] = None /\ judging[a] = None

\* INVARIANT (VAE/02 section 5): evidence that repeats a check earns nothing: without it
\* the record has the same confidence and coverage, and a verdict at least as good.
RedundantEarnsNothing ==
  \A r \in storage :
    LET once == RestrictValues(r.items, LAMBDA i : i.kind # "redundant")
        with == Derive(r.items)
        without == Derive(once)
    IN  /\ with.confidence = without.confidence
        /\ with.coverage = without.coverage
        /\ with.outcome.verdict = "passed" => with = without

\* INVARIANT: the verdict of an artifact is one, explained by its stored evidence,
\* and not bought by repeating a check.
VerdictSound == VerdictExplained /\ OneVerdict /\ RedundantEarnsNothing

\* LIVENESS (VAE-O4, VAE-I5): an open judgment ends in a published verdict or in a
\* recorded fault, whether or not Execution answers, unless a crash comes between the
\* durable record and its publication, or the rebuild is refused for missing rules.
JudgmentEnds ==
  \A a \in Artifacts :
    open[a] # None ~> \/ \E e \in ToSet(bus) : e.artifact = a
                      \/ a \in lost
                      \/ ~up /\ RebuildRaises
=============================================================================
