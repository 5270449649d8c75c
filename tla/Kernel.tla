------------------------------- MODULE Kernel -------------------------------
(***************************************************************************)
(* The Kernel event loop (src/kernel/coordinator.py) with the pure modules *)
(* it calls: admission, router, gates, ledger and the default transition   *)
(* table.  One action handles one inbound envelope to the end, as handle() *)
(* does: the loop is single-threaded, so nothing interleaves inside it.    *)
(*                                                                         *)
(* Peers send envelopes with fresh event ids; the bus may deliver one of   *)
(* them a second time, later but before the next message of its topic (at- *)
(* least-once, per-topic FIFO).  The bus may refuse topics (`down'), which *)
(* the code sees as publish raising.  Module KernelRecovery adds crashes.  *)
(***************************************************************************)
EXTENDS Naturals, Sequences, FiniteSets, SequencesExt

CONSTANTS
  Rids,             \* request ids
  Types,            \* declared types a request.received may carry
  Targets,          \* owning components of the routing table
  NoType,           \* the payload carries no declared_type
  NoTarget,         \* the table has no (single) owner for the type
  NoEvent,          \* no event id applied yet / no envelope sent yet
  Snapshots,        \* valid configuration snapshots that may be delivered
  InitialSnapshot,  \* the snapshot the Coordinator is constructed with
  NoSnapshot,       \* an invalid snapshot, or no snapshot for a version
  DownChoices,      \* sets of topics that the bus may refuse
  PeerEvents,       \* the event names the peers of the instance send
  MaxEvents,        \* bound: fresh envelopes sent
  MaxFaults,        \* bound: faults recorded
  MaxRedeliveries   \* bound: duplicate deliveries

NonTerminal == {"created", "initialized", "scheduled", "executing", "verifying"}
Terminal == {"completed", "failed", "cancelled"}
\* "absent" stands for a request id that is not a key of the ledger.
States == NonTerminal \cup Terminal \cup {"absent"}

LogTopic == "transition.log"
FaultTopic == "fault.recorded"
RequestEvents == {"request.received", "request.cancelled", "plan.created",
                  "plan.rejected", "task.completed", "task.failed",
                  "verify.passed", "verify.failed"}
SessionEvents == {"session.wake", "session.sleep"}
InboundEvents == RequestEvents \cup SessionEvents \cup {"config.changed"}
Emissions == {"request.admitted", "request.rejected", "request.completed",
              "request.failed", "request.cancelled", "gate.enforced",
              "routing.directive"}

Versions == {s.version : s \in Snapshots \cup {InitialSnapshot}}

ASSUME SnapshotAssumption ==
  /\ InitialSnapshot \in Snapshots
  /\ \A s \in Snapshots :
       /\ s.routing_table \in [Types -> Targets \cup {NoTarget}]
       /\ s.max_replans \in Nat
       /\ s.max_active_requests \in Nat
  /\ NoSnapshot \notin Snapshots
  /\ NoType \notin Types
  /\ NoTarget \notin Targets
ASSUME BoundAssumption ==
  MaxEvents \in Nat /\ MaxFaults \in Nat /\ MaxRedeliveries \in Nat
ASSUME PeerAssumption == PeerEvents \subseteq InboundEvents
ASSUME EventIdAssumption == NoEvent \notin Nat

VARIABLES
  ledger,     \* Ledger._entries: one entry per request id
  log,        \* Coordinator.log, the in-memory transition log
  bus,        \* what the bus accepted: log records and row emissions
  halted,     \* Coordinator.halted
  config,     \* Coordinator._config, the current snapshot
  configs,    \* Coordinator._configs, version -> snapshot
  out_seq,    \* Coordinator._out_seq, the number of faults emitted
  down,       \* topics the bus refuses now (environment)
  next_eid,   \* the next fresh event id (environment)
  pending,    \* an envelope the bus will deliver again, or NoEvent (environment)
  redelivered \* the number of duplicate deliveries so far (environment)

kernelVars == <<ledger, log, bus, halted, config, configs, out_seq>>
envVars == <<down, next_eid, pending, redelivered>>
vars == <<ledger, log, bus, halted, config, configs, out_seq,
          down, next_eid, pending, redelivered>>

-----------------------------------------------------------------------------
(* The ledger.                                                             *)

Absent == [lifecycle_state |-> "absent", declared_type |-> NoType,
           config_version |-> InitialSnapshot.version, verdict |-> "none",
           routing_target |-> NoTarget, cancellation_flag |-> FALSE,
           transition_sequence |-> 0, last_applied_event_id |-> NoEvent,
           replan_count |-> 0]

NewEntry(type, version) ==
  [Absent EXCEPT !.lifecycle_state = "created", !.declared_type = type,
                 !.config_version = version]

InLedger(rid) == ledger[rid].lifecycle_state # "absent"
ActiveCount == Cardinality({r \in Rids : ledger[r].lifecycle_state \in NonTerminal})
TerminalRids == {r \in Rids : ledger[r].lifecycle_state \in Terminal}

-----------------------------------------------------------------------------
(* The transition table as data.  A row: the guard, the next state, the    *)
(* events to emit, an explicit decision or "default", and the ledger       *)
(* mutation it asks for.                                                   *)

Row(when, next, emit, decision, action) ==
  [when |-> when, next |-> next, emit |-> emit, decision |-> decision, action |-> action]

CancelRow == Row("always", "cancelled", <<"request.cancelled", "gate.enforced">>,
                 "default", "set_cancel_flag")

\* Mutant: cancellation is legal from a terminal state too.
CancelRowsFromTerminal(state) == IF state = "absent" THEN <<>> ELSE <<CancelRow>>
\* The rows that the two loops after TRANSITIONS add: cancellation is legal in
\* every non-terminal state and a no-op in a terminal one.
CancelRows(state) ==
  IF state \in NonTerminal THEN <<CancelRow>>
  ELSE IF state \in Terminal THEN <<Row("always", state, <<>>, "default", "none")>> ELSE <<>>

\* ConfigView.rows over TRANSITIONS; <<>> when the pair is unmatched.
Rows(state, event) ==
  CASE state = "created" /\ event = "request.received" ->
         << Row("admission_ok", "initialized", <<"request.admitted", "gate.enforced">>,
                "default", "none"),
            Row("always", "failed", <<"request.rejected", "gate.enforced">>, "block", "none") >>
    [] state = "initialized" /\ event = "__routing__" ->
         << Row("routing_ok", "scheduled", <<"routing.directive">>,
                "default", "set_routing_target"),
            Row("always", "failed", <<"request.rejected", "gate.enforced">>, "block", "none") >>
    [] state = "scheduled" /\ event = "plan.created" ->
         << Row("always", "executing", <<>>, "default", "none") >>
    [] state = "scheduled" /\ event = "plan.rejected" ->
         << Row("always", "scheduled", <<>>, "default", "none") >>
    [] state = "executing" /\ event \in {"verify.passed", "verify.failed"} ->
         << Row("always", "executing", <<>>, "default", "record_verdict") >>
    [] state = "executing" /\ event = "task.completed" ->
         << Row("gate:completion", "completed", <<"request.completed", "gate.enforced">>,
                "default", "none"),
            Row("always", "verifying", <<"gate.enforced">>, "block", "none") >>
    [] state = "executing" /\ event = "task.failed" ->
         << Row("replans_remaining", "scheduled", <<>>, "default", "increment_replan"),
            Row("always", "failed", <<"request.failed">>, "block", "none") >>
    [] state = "verifying" /\ event = "verify.passed" ->
         << Row("always", "completed", <<"request.completed", "gate.enforced">>,
                "default", "record_verdict") >>
    [] state = "verifying" /\ event = "verify.failed" ->
         << Row("always", "scheduled", <<"gate.enforced">>, "block", "record_verdict") >>
    [] event = "request.cancelled" -> CancelRows(state)
    [] OTHER -> <<>>

\* Mutant: the gate permits a missing verdict.
CompletionGateDefaultsToPermit(entry) == entry.verdict # "failed"
\* The completion gate: gates.evaluate over the recorded verdict.
CompletionGate(entry) == entry.verdict = "passed"

\* _guard; the two guards that _admit evaluates itself never hold here.
Guard(when, entry, cfg) ==
  \/ when = "always"
  \/ when = "gate:completion" /\ CompletionGate(entry)
  \/ when = "replans_remaining" /\ entry.replan_count < cfg.max_replans

\* The index _pick_row returns; 0 when every guard fails.
PickRow(rows, entry, cfg) ==
  IF Len(rows) >= 1 /\ Guard(rows[1].when, entry, cfg) THEN 1
  ELSE IF Len(rows) >= 2 /\ Guard(rows[2].when, entry, cfg) THEN 2 ELSE 0

\* The guard result _pick_row returns for that row.
GuardResult(row, index) ==
  IF row.decision # "default" THEN row.decision = "permit" ELSE index = 1

\* Mutant: the cancellation flag is not stored.
DoActionDropsCancel(action, entry, event, target) ==
  CASE action = "record_verdict" ->
         [entry EXCEPT !.verdict = IF event = "verify.passed" THEN "passed" ELSE "failed"]
    [] action = "increment_replan" -> [entry EXCEPT !.replan_count = @ + 1]
    [] action = "set_routing_target" -> [entry EXCEPT !.routing_target = target]
    [] OTHER -> entry
\* _do_action: the ledger mutation a row asks for.
DoAction(action, entry, event, target) ==
  CASE action = "record_verdict" ->
         [entry EXCEPT !.verdict = IF event = "verify.passed" THEN "passed" ELSE "failed"]
    [] action = "increment_replan" -> [entry EXCEPT !.replan_count = @ + 1]
    [] action = "set_cancel_flag" -> [entry EXCEPT !.cancellation_flag = TRUE]
    [] action = "set_routing_target" -> [entry EXCEPT !.routing_target = target]
    [] OTHER -> entry

\* The entry that _transition leaves in the ledger.
Advance(entry, event, eid, row, target) ==
  [DoAction(row.action, entry, event, target) EXCEPT
     !.lifecycle_state = row.next,
     !.transition_sequence = entry.transition_sequence + 1,
     !.last_applied_event_id = eid]

\* The log record of a transition; declared_type and routing_target are the
\* truthy keys of its `info'.
Record(rid, entry, event, eid, row, guard_result, version, target) ==
  [request_id |-> rid, event_id |-> eid, sequence |-> entry.transition_sequence + 1,
   prior_state |-> entry.lifecycle_state, event |-> event,
   guard_result |-> guard_result, next_state |-> row.next,
   config_version |-> version, emitted |-> row.emit, verdict |-> "applied",
   declared_type |-> IF event = "request.received" THEN entry.declared_type ELSE NoType,
   routing_target |-> IF event = "__routing__" THEN target ELSE NoTarget,
   snapshot |-> NoSnapshot]

-----------------------------------------------------------------------------
(* What the bus carries.  A row emission's id is (request, sequence,       *)
(* index), the deterministic outbound id of _publish_row.                  *)

LogMsg(rec) == [topic |-> LogTopic, rid |-> rec.request_id, seq |-> rec.sequence,
                index |-> 0, body |-> rec]
EmitMsg(name, rid, seq, index, decision) ==
  [topic |-> name, rid |-> rid, seq |-> seq, index |-> index, body |-> decision]

PublishRow(rid, seq, row, decision) ==
  [i \in 1..Len(row.emit) |-> EmitMsg(row.emit[i], rid, seq, i - 1, decision)]

EmitDecision(row, guard_result) ==
  IF row.decision # "default" THEN row.decision
  ELSE IF guard_result THEN "permit" ELSE "block"

\* The messages of one transition: its log record, then the row's emissions.
TransitionMsgs(rec, row, decision) ==
  <<LogMsg(rec)>> \o PublishRow(rec.request_id, rec.sequence, row, decision)

\* _transition: the entry it leaves, the record it logs, the messages it publishes.
Transition(rid, entry, event, eid, row, guard_result, version, target) ==
  LET rec == Record(rid, entry, event, eid, row, guard_result, version, target)
  IN [entry |-> Advance(entry, event, eid, row, target), rec |-> rec,
      msgs |-> TransitionMsgs(rec, row, EmitDecision(row, guard_result))]

\* What is left of a sequence when only the positions in `keep' stay.
Subsequence(seq, keep) ==
  LET kept[n \in 0..Len(seq)] ==
        IF n = 0 THEN <<>>
        ELSE IF n \in keep THEN Append(kept[n - 1], seq[n]) ELSE kept[n - 1]
  IN  kept[Len(seq)]

\* _safe_publish for a batch of messages: a refused topic loses the message,
\* halts admission and emits one fault; the in-memory log is unaffected.
Refused(msgs) == \E i \in DOMAIN msgs : msgs[i].topic \in down
Accepted(msgs) ==
  IF Refused(msgs) THEN Subsequence(msgs, {i \in DOMAIN msgs : msgs[i].topic \notin down})
                   ELSE msgs
SafePublish(msgs) ==
  /\ bus' = bus \o Accepted(msgs)
  /\ halted' = (halted \/ Refused(msgs))
  /\ out_seq' = IF Refused(msgs) /\ ~halted THEN out_seq + 1 ELSE out_seq

\* _fault: emits fault.recorded under a counter id; a refused fault halts
\* admission and reports that too.
Fault ==
  /\ halted' = (halted \/ FaultTopic \in down)
  /\ out_seq' = IF FaultTopic \in down /\ ~halted THEN out_seq + 2 ELSE out_seq + 1
  /\ UNCHANGED <<ledger, log, bus, config, configs>>

-----------------------------------------------------------------------------
(* What handle() computes for an envelope of a request: the transitions it *)
(* takes, in order.                                                        *)

\* admission.decide, on the active count taken before the entry is created.
AdmissionOk(env) ==
  /\ ~halted
  /\ ActiveCount < config.max_active_requests
  /\ env.declared_type # NoType

\* router.route
RouteOf(type, cfg) == IF type \in Types THEN cfg.routing_table[type] ELSE NoTarget

\* The two halves of _admit: the admission row, and the chained routing row.
AdmissionTransition(env) ==
  LET ok == AdmissionOk(env)
  IN Transition(env.request_id, NewEntry(env.declared_type, config.version),
                "request.received", env.event_id,
                Rows("created", "request.received")[IF ok THEN 1 ELSE 2],
                ok, config.version, NoTarget)

RoutingTransition(env, entry) ==
  LET target == RouteOf(env.declared_type, config)
      found == target # NoTarget
  IN Transition(env.request_id, entry, "__routing__", env.event_id,
                Rows("initialized", "__routing__")[IF found THEN 1 ELSE 2],
                found, config.version, target)

Admit(env) ==
  LET first == AdmissionTransition(env)
  IN IF AdmissionOk(env) THEN <<first, RoutingTransition(env, first.entry)>> ELSE <<first>>

\* The snapshot a request in flight is pinned to.
PinnedConfig(entry) ==
  IF configs[entry.config_version] # NoSnapshot THEN configs[entry.config_version]
                                                ELSE config

\* _apply: the first row whose guard holds.
Apply(env) ==
  LET entry == ledger[env.request_id]
      cfg == PinnedConfig(entry)
      rows == Rows(entry.lifecycle_state, env.event_name)
      i == PickRow(rows, entry, cfg)
  IN << Transition(env.request_id, entry, env.event_name, env.event_id, rows[i],
                   GuardResult(rows[i], i), cfg.version, NoTarget) >>

\* _log_noop: a duplicate delivery is recorded and changes nothing.
Noop(env) ==
  LET entry == ledger[env.request_id]
      rec == [request_id |-> env.request_id, event_id |-> env.event_id,
              sequence |-> entry.transition_sequence,
              prior_state |-> entry.lifecycle_state, event |-> env.event_name,
              guard_result |-> FALSE, next_state |-> entry.lifecycle_state,
              config_version |-> entry.config_version, emitted |-> <<>>,
              verdict |-> "duplicate", declared_type |-> NoType,
              routing_target |-> NoTarget, snapshot |-> NoSnapshot]
  IN << [entry |-> entry, rec |-> rec, msgs |-> <<LogMsg(rec)>>] >>

\* A record that belongs to no request: config.changed, session.*.
SystemRecord(event, version, snap) ==
  [request_id |-> "none", event_id |-> NoEvent, sequence |-> 0,
   prior_state |-> "absent", event |-> event, guard_result |-> TRUE,
   next_state |-> "absent", config_version |-> version, emitted |-> <<>>,
   verdict |-> "applied", declared_type |-> NoType,
   routing_target |-> NoTarget, snapshot |-> snap]

CleanupRecord(rid) ==
  [SystemRecord("__cleanup__", ledger[rid].config_version, NoSnapshot) EXCEPT
     !.request_id = rid, !.sequence = ledger[rid].transition_sequence + 1,
     !.prior_state = ledger[rid].lifecycle_state, !.next_state = "cleanup"]

\* The records of _handle_session, in order (the ledger's own iteration
\* order; cleanup records of different requests commute).
SessionRecords(name) ==
  <<SystemRecord(name, config.version, NoSnapshot)>> \o
    (IF name = "session.sleep"
       THEN LET rids == SetToSeq(TerminalRids)
            IN [i \in 1..Len(rids) |-> CleanupRecord(rids[i])]
       ELSE <<>>)

-----------------------------------------------------------------------------
(* handle(), one action per branch.                                        *)

IsDuplicate(env) ==
  InLedger(env.request_id) /\ env.event_id = ledger[env.request_id].last_applied_event_id

StepRecords(steps) == [i \in 1..Len(steps) |-> steps[i].rec]
StepMsgs(steps) == IF Len(steps) = 1 THEN steps[1].msgs ELSE steps[1].msgs \o steps[2].msgs

Commit(env, steps) ==
  /\ ledger' = [ledger EXCEPT ![env.request_id] = steps[Len(steps)].entry]
  /\ log' = log \o StepRecords(steps)
  /\ SafePublish(StepMsgs(steps))
  /\ UNCHANGED <<config, configs>>

HandleDuplicate(env) ==
  /\ env.event_name \in RequestEvents
  /\ IsDuplicate(env)
  /\ Commit(env, Noop(env))

HandleAdmit(env) ==
  /\ env.event_name = "request.received"
  /\ ~InLedger(env.request_id)
  /\ Commit(env, Admit(env))

HandleApply(env) ==
  /\ env.event_name \in RequestEvents \ {"request.received"}
  /\ InLedger(env.request_id)
  /\ ~IsDuplicate(env)
  /\ Rows(ledger[env.request_id].lifecycle_state, env.event_name) # <<>>
  /\ Commit(env, Apply(env))

\* request.unknown, transition.unmatched and a second request.received.
HandleUnmatched(env) ==
  /\ env.event_name \in RequestEvents
  /\ ~IsDuplicate(env)
  /\ \/ ~InLedger(env.request_id) /\ env.event_name # "request.received"
     \/ InLedger(env.request_id) /\ env.event_name = "request.received"
     \/ InLedger(env.request_id)
          /\ Rows(ledger[env.request_id].lifecycle_state, env.event_name) = <<>>
  /\ Fault

HandleConfig(env) ==
  /\ env.event_name = "config.changed"
  /\ \/ /\ env.snapshot = NoSnapshot
        /\ Fault
     \/ /\ env.snapshot # NoSnapshot
        /\ LET rec == SystemRecord("config.changed", env.snapshot.version, env.snapshot)
           IN log' = Append(log, rec) /\ SafePublish(<<LogMsg(rec)>>)
        /\ config' = env.snapshot
        /\ configs' = [configs EXCEPT ![env.snapshot.version] = env.snapshot]
        /\ UNCHANGED ledger

HandleSession(env) ==
  /\ env.event_name \in SessionEvents
  /\ LET recs == SessionRecords(env.event_name)
     IN log' = log \o recs /\ SafePublish([i \in 1..Len(recs) |-> LogMsg(recs[i])])
  /\ ledger' = IF env.event_name = "session.sleep"
                 THEN [r \in Rids |-> IF r \in TerminalRids THEN Absent ELSE ledger[r]]
                 ELSE ledger
  /\ UNCHANGED <<config, configs>>

Handle(env) ==
  \/ HandleDuplicate(env)
  \/ HandleAdmit(env)
  \/ HandleApply(env)
  \/ HandleUnmatched(env)
  \/ HandleConfig(env)
  \/ HandleSession(env)

-----------------------------------------------------------------------------
(* The environment.                                                        *)

Envelopes(eid) ==
  [event_id : {eid}, event_name : RequestEvents \ {"request.received"},
   request_id : Rids, declared_type : {NoType}, snapshot : {NoSnapshot}]
  \cup [event_id : {eid}, event_name : {"request.received"}, request_id : Rids,
        declared_type : Types \cup {NoType}, snapshot : {NoSnapshot}]
  \cup [event_id : {eid}, event_name : {"config.changed"}, request_id : {"none"},
        declared_type : {NoType}, snapshot : Snapshots \cup {NoSnapshot}]
  \cup [event_id : {eid}, event_name : SessionEvents, request_id : {"none"},
        declared_type : {NoType}, snapshot : {NoSnapshot}]

\* A peer publishes a new envelope and the kernel handles it; the bus may
\* keep it for a second delivery.
Deliver ==
  /\ next_eid < MaxEvents
  /\ \E env \in Envelopes(next_eid) :
       /\ env.event_name \in PeerEvents
       /\ pending # NoEvent => env.event_name # pending.event_name
       /\ Handle(env)
       /\ \/ pending' = pending
          \/ pending = NoEvent /\ redelivered < MaxRedeliveries /\ pending' = env
  /\ out_seq' <= MaxFaults
  /\ next_eid' = next_eid + 1
  /\ UNCHANGED <<down, redelivered>>

\* The second delivery.
Redeliver ==
  /\ pending # NoEvent
  /\ Handle(pending)
  /\ out_seq' <= MaxFaults
  /\ pending' = NoEvent
  /\ redelivered' = redelivered + 1
  /\ UNCHANGED <<down, next_eid>>

\* An envelope that fails envelope.validate, or carries no request id.
DeliverMalformed ==
  /\ next_eid < MaxEvents
  /\ Fault
  /\ out_seq' <= MaxFaults
  /\ next_eid' = next_eid + 1
  /\ UNCHANGED <<down, pending, redelivered>>

\* Subscriber queues fill up or drain: the bus refuses other topics.
BusChanges ==
  /\ \E d \in DownChoices \ {down} : down' = d
  /\ UNCHANGED <<kernelVars, next_eid, pending, redelivered>>

Init ==
  /\ ledger = [r \in Rids |-> Absent]
  /\ log = <<>>
  /\ bus = <<>>
  /\ halted = FALSE
  /\ config = InitialSnapshot
  /\ configs = [v \in Versions |-> IF v = InitialSnapshot.version THEN InitialSnapshot
                                                                  ELSE NoSnapshot]
  /\ out_seq = 0
  /\ down = {}
  /\ next_eid = 0
  /\ pending = NoEvent
  /\ redelivered = 0

Next == Deliver \/ Redeliver \/ DeliverMalformed \/ BusChanges

Spec == Init /\ [][Next]_vars

-----------------------------------------------------------------------------
(* Properties.                                                             *)

Entry ==
  [lifecycle_state : States, declared_type : Types \cup {NoType},
   config_version : Versions, verdict : {"none", "passed", "failed"},
   routing_target : Targets \cup {NoTarget}, cancellation_flag : BOOLEAN,
   transition_sequence : Nat, last_applied_event_id : Nat \cup {NoEvent},
   replan_count : Nat]

\* Every variable holds a value the coordinator and its bus can hold.
TypeOK ==
  /\ ledger \in [Rids -> Entry]
  /\ halted \in BOOLEAN
  /\ config \in Snapshots
  /\ configs \in [Versions -> Snapshots \cup {NoSnapshot}]
  /\ out_seq \in Nat
  /\ next_eid \in Nat
  /\ pending # NoEvent => /\ pending.event_id \in Nat
                           /\ pending \in Envelopes(pending.event_id)
  /\ redelivered \in Nat

\* The verdict records of request rid in the log, since its last admission.
IsVerdict(rec) == rec.event \in {"verify.passed", "verify.failed"} /\ rec.verdict = "applied"
LatestVerdict(i, j) ==
  /\ j <= i
  /\ IsVerdict(log[j])
  /\ log[j].request_id = log[i].request_id
  /\ \A k \in j+1..i : log[k].request_id = log[i].request_id =>
        ~IsVerdict(log[k]) /\ log[k].event # "request.received"
Completes(rec) == rec.next_state = "completed" /\ rec.prior_state # "completed"

\* INVARIANT (I5, the completion gate): a request only ever completes when the
\* latest verdict the kernel applied to this incarnation of it is verify.passed.
VerifiedCompletion ==
  \A i \in DOMAIN log : Completes(log[i]) =>
    \E j \in 1..i : LatestVerdict(i, j) /\ log[j].event = "verify.passed"

\* INVARIANT (I5 and the cancellation gate, as ledger state): a completed entry
\* holds a passed verdict and was never cancelled, the cancellation flag is set
\* exactly in `cancelled', and a request past routing has an owner.  No verdict,
\* duplicate or late event of a peer can separate these fields.
OutcomeConsistent ==
  \A r \in Rids : LET e == ledger[r] IN
    /\ e.lifecycle_state = "completed" => e.verdict = "passed"
    /\ e.cancellation_flag <=> e.lifecycle_state = "cancelled"
    /\ e.lifecycle_state \in {"scheduled", "executing", "verifying", "completed"}
         => e.routing_target # NoTarget

\* INVARIANT: between two events no request rests in `created' or `initialized':
\* admission and routing are one event processing (_admit), so every request the
\* kernel has accepted can be moved on by a peer's event.
NoRequestStranded ==
  \A r \in Rids : ledger[r].lifecycle_state \notin {"created", "initialized"}

\* INVARIANT: what every entry of the ledger keeps between two events: fields of
\* their types that agree with each other, and a state a peer can move on.
LedgerSound == TypeOK /\ OutcomeConsistent /\ NoRequestStranded

\* I18, CF-1: a request in flight resolves to the same snapshot for as long as it
\* stays in the ledger, whatever config.changed brings.
PinnedPolicy ==
  \A r \in Rids : InLedger(r) /\ InLedger(r)' =>
    PinnedConfig(ledger[r])' = PinnedConfig(ledger[r])
\* admission.decide: the number of active requests only grows while the kernel is
\* not halted and below the current exhaustion threshold.
AdmissionRespectsLimits ==
  ActiveCount' > ActiveCount => ~halted /\ ActiveCount' <= config.max_active_requests
\* CT-2: the outcome of a request is final; a terminal entry keeps its state,
\* verdict and replan count until session.sleep evicts it.
OutcomeFinal ==
  \A r \in Rids : ledger[r].lifecycle_state \in Terminal =>
    \/ ~InLedger(r)'
    \/ [ledger[r] EXCEPT !.transition_sequence = 0, !.last_applied_event_id = NoEvent]'
         = [ledger[r] EXCEPT !.transition_sequence = 0, !.last_applied_event_id = NoEvent]
\* ACTION PROPERTY: no step of the coordinator changes the snapshot a request in
\* flight is judged by, admits beyond the limits, or touches a final outcome.
StepsLawful == [][PinnedPolicy /\ AdmissionRespectsLimits /\ OutcomeFinal]_vars

\* The record is on the bus, and behind it everything it asked the bus to carry.
OnBus(rec) ==
  \E n \in DOMAIN bus :
    /\ bus[n] = LogMsg(rec)
    /\ n + Len(rec.emitted) <= Len(bus)
    /\ \A k \in 1..Len(rec.emitted) :
         /\ bus[n + k].topic = rec.emitted[k] /\ bus[n + k].index = k - 1
         /\ bus[n + k].rid = rec.request_id /\ bus[n + k].seq = rec.sequence
\* INVARIANT (I22, _safe_publish): a log record or an emission is missing on the
\* bus, or out of place there, only while the kernel has halted admission, however
\* outages and events interleave; the in-memory log still holds the record.
LossHaltsAdmission == halted \/ \A i \in DOMAIN log : OnBus(log[i])

\* INVARIANT: what log and bus show of the kernel is lawful: every completion in
\* the log has its passed verdict, and nothing is missing on the bus unless the
\* kernel has halted admission.
LogSound == VerifiedCompletion /\ LossHaltsAdmission
=============================================================================
