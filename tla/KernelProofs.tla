---------------------------- MODULE KernelProofs ----------------------------
(***************************************************************************)
(* Proofs about Kernel and its recovery for every set of requests, types,  *)
(* targets and valid snapshots, every pattern of bus outages and any       *)
(* number of events and crashes.                                           *)
(***************************************************************************)
EXTENDS KernelRecovery, FiniteSetTheorems, SequenceTheorems, NaturalsInduction, TLAPS

\* One entry of the ledger satisfies the conjuncts of the inductive invariant.
EntryOK(e) ==
  /\ e \in Entry
  /\ e.lifecycle_state \notin {"created", "initialized"}
  /\ e.lifecycle_state = "completed" => e.verdict = "passed"
  /\ e.cancellation_flag <=> e.lifecycle_state = "cancelled"
  /\ e.lifecycle_state \in {"scheduled", "executing", "verifying", "completed"}
       => e.routing_target # NoTarget

\* e is entry after the ledger mutation `action', as far as the invariant reads it.
Mutated(e, entry, event, action, target) ==
  /\ e.verdict = IF action = "record_verdict"
                   THEN IF event = "verify.passed" THEN "passed" ELSE "failed"
                   ELSE entry.verdict
  /\ e.cancellation_flag = IF action = "set_cancel_flag" THEN TRUE ELSE entry.cancellation_flag
  /\ e.routing_target = IF action = "set_routing_target" THEN target ELSE entry.routing_target
  /\ e.config_version = entry.config_version

\* What _do_action changes of an entry.
LEMMA DoActionFields ==
  ASSUME NEW entry \in Entry, NEW event, NEW action, NEW target \in Targets \cup {NoTarget}
  PROVE  /\ DoAction(action, entry, event, target) \in Entry
         /\ Mutated(DoAction(action, entry, event, target), entry, event, action, target)
<1> USE DEF Entry, Mutated
<1>1. CASE action = "record_verdict"
  BY <1>1 DEF DoAction
<1>2. CASE action = "increment_replan"
  BY <1>2 DEF DoAction
<1>3. CASE action = "set_cancel_flag"
  BY <1>3 DEF DoAction
<1>4. CASE action = "set_routing_target"
  BY <1>4 DEF DoAction
<1>5. CASE action \notin {"record_verdict", "increment_replan", "set_cancel_flag",
                          "set_routing_target"}
  BY <1>5 DEF DoAction
<1> QED BY <1>1, <1>2, <1>3, <1>4, <1>5

\* The rows a peer's event can select in a state a request rests in.
LEMMA RowFacts ==
  ASSUME NEW state \in States \ {"created", "initialized"},
         NEW event \in RequestEvents,
         NEW i \in 1..Len(Rows(state, event))
  PROVE  LET row == Rows(state, event)[i] IN
         /\ state # "absent"
         /\ row.next \in States \ {"absent", "created", "initialized"}
         /\ row.action # "set_routing_target"
         /\ row.action = "record_verdict" <=> event \in {"verify.passed", "verify.failed"}
         /\ row.next = "cancelled" <=> (state = "cancelled" \/ row.action = "set_cancel_flag")
         /\ row.next = "completed" =>
              \/ state = "completed" /\ row.action = "none"
              \/ row.action = "record_verdict" /\ event = "verify.passed"
              \/ row.when = "gate:completion" /\ row.action = "none"
         /\ row.next \in {"scheduled", "executing", "verifying", "completed"}
              => state \in {"scheduled", "executing", "verifying", "completed"}
         /\ state \in Terminal => row.next = state /\ row.action = "none"
<1> USE DEF States, NonTerminal, Terminal, RequestEvents, Row
<1>1. CASE event = "request.cancelled"
  <2>1. Rows(state, event) = CancelRows(state)
    BY <1>1, Zenon DEF Rows
  <2>2. CASE state \in NonTerminal
    BY <1>1, <2>1, <2>2 DEF CancelRows, CancelRow
  <2>3. CASE state \in Terminal
    BY <1>1, <2>1, <2>3 DEF CancelRows
  <2>4. CASE state = "absent"
    BY <1>1, <2>1, <2>4 DEF CancelRows
  <2> QED BY <2>2, <2>3, <2>4
<1>2. CASE state = "scheduled" /\ event # "request.cancelled"
  BY <1>2 DEF Rows
<1>3. CASE state = "executing" /\ event # "request.cancelled"
  BY <1>3 DEF Rows
<1>4. CASE state = "verifying" /\ event # "request.cancelled"
  BY <1>4 DEF Rows
<1>5. CASE state \in Terminal \cup {"absent"} /\ event # "request.cancelled"
  <2>1. Rows(state, event) = <<>>
    BY <1>5 DEF Rows
  <2> QED BY <2>1
<1> QED BY <1>1, <1>2, <1>3, <1>4, <1>5

\* Every list of rows ends with an unguarded one, so _pick_row never fails.
LEMMA RowsShape ==
  ASSUME NEW state, NEW event, Rows(state, event) # <<>>
  PROVE  /\ Len(Rows(state, event)) \in {1, 2}
         /\ Rows(state, event)[Len(Rows(state, event))].when = "always"
<1> USE DEF NonTerminal, Terminal, Row
<1>1. CASE event = "request.cancelled"
  <2>1. Rows(state, event) = CancelRows(state)
    BY <1>1, Zenon DEF Rows
  <2> QED BY <2>1 DEF CancelRows, CancelRow
<1>2. CASE state = "created" /\ event # "request.cancelled"
  BY <1>2 DEF Rows
<1>3. CASE state = "initialized" /\ event # "request.cancelled"
  BY <1>3 DEF Rows
<1>4. CASE state = "scheduled" /\ event # "request.cancelled"
  BY <1>4 DEF Rows
<1>5. CASE state = "executing" /\ event # "request.cancelled"
  BY <1>5 DEF Rows
<1>6. CASE state = "verifying" /\ event # "request.cancelled"
  BY <1>6 DEF Rows
<1>7. CASE /\ state \notin {"created", "initialized", "scheduled", "executing", "verifying"}
           /\ event # "request.cancelled"
  BY <1>7 DEF Rows
<1> QED BY <1>1, <1>2, <1>3, <1>4, <1>5, <1>6, <1>7

\* _pick_row finds a row whose guard holds.
LEMMA PickRowFacts ==
  ASSUME NEW state, NEW event, Rows(state, event) # <<>>, NEW entry, NEW cfg
  PROVE  LET rows == Rows(state, event)
             i == PickRow(rows, entry, cfg)
         IN  i \in 1..Len(rows) /\ Guard(rows[i].when, entry, cfg)
<1>1. \A e, c : Guard("always", e, c)
  BY DEF Guard
<1> QED BY <1>1, RowsShape DEF PickRow

\* _transition: the next state of the row, and the row's ledger mutation.
LEMMA AdvanceFields ==
  ASSUME NEW entry \in Entry, NEW event, NEW eid \in Nat, NEW row,
         NEW target \in Targets \cup {NoTarget}, row.next \in States
  PROVE  /\ Advance(entry, event, eid, row, target) \in Entry
         /\ Advance(entry, event, eid, row, target).lifecycle_state = row.next
         /\ Advance(entry, event, eid, row, target).last_applied_event_id = eid
         /\ Mutated(Advance(entry, event, eid, row, target), entry, event, row.action, target)
<1>1. PICK d : d = DoAction(row.action, entry, event, target)
  OBVIOUS
<1>2. d \in Entry /\ Mutated(d, entry, event, row.action, target)
  BY <1>1, DoActionFields, Zenon
<1>3. PICK n \in Nat : n = entry.transition_sequence + 1
  BY DEF Entry
<1>4. PICK s \in States : s = row.next
  OBVIOUS
<1>5. PICK e : e = Advance(entry, event, eid, row, target)
  OBVIOUS
<1>6. e = [d EXCEPT !.lifecycle_state = s, !.transition_sequence = n,
                  !.last_applied_event_id = eid]
  BY <1>1, <1>3, <1>4, <1>5, Zenon DEF Advance
<1>7. /\ e \in Entry /\ e.lifecycle_state = s /\ e.verdict = d.verdict
      /\ e.cancellation_flag = d.cancellation_flag /\ e.routing_target = d.routing_target
      /\ e.config_version = d.config_version /\ e.last_applied_event_id = eid
  BY <1>2, <1>6 DEF Entry
<1>8. Mutated(e, entry, event, row.action, target)
  BY <1>2, <1>7 DEF Mutated
<1> QED BY <1>4, <1>5, <1>7, <1>8, Zenon

\* _apply keeps the entry of a request well formed, and leaves the outcome of a
\* terminal one alone.
LEMMA AppliedEntry ==
  ASSUME NEW entry, EntryOK(entry), NEW event \in RequestEvents, NEW eid \in Nat, NEW cfg,
         Rows(entry.lifecycle_state, event) # <<>>
  PROVE  LET rows == Rows(entry.lifecycle_state, event)
             row == rows[PickRow(rows, entry, cfg)]
         IN  EntryOK(Advance(entry, event, eid, row, NoTarget))
<1>1. PICK rows : rows = Rows(entry.lifecycle_state, event)
  OBVIOUS
<1>2. PICK i : i = PickRow(rows, entry, cfg)
  OBVIOUS
<1>3. entry \in Entry /\ entry.lifecycle_state \in States \ {"created", "initialized"}
  BY DEF EntryOK, Entry
<1>4. i \in 1..Len(rows) /\ Guard(rows[i].when, entry, cfg)
  BY <1>1, <1>2, <1>3, PickRowFacts
<1>5. PICK row : row = rows[i]
  OBVIOUS
<1>6. /\ row.next \in States \ {"absent", "created", "initialized"}
      /\ row.action # "set_routing_target"
      /\ row.next = "cancelled"
           <=> (entry.lifecycle_state = "cancelled" \/ row.action = "set_cancel_flag")
      /\ row.next = "completed" =>
           \/ entry.lifecycle_state = "completed" /\ row.action = "none"
           \/ row.action = "record_verdict" /\ event = "verify.passed"
           \/ row.when = "gate:completion" /\ row.action = "none"
      /\ row.next \in {"scheduled", "executing", "verifying", "completed"}
           => entry.lifecycle_state \in {"scheduled", "executing", "verifying", "completed"}
  BY <1>1, <1>3, <1>4, <1>5, RowFacts
<1>7. row.when = "gate:completion" => entry.verdict = "passed"
  BY <1>4, <1>5 DEF Guard, CompletionGate
<1>8. PICK e : e = Advance(entry, event, eid, row, NoTarget)
  OBVIOUS
<1>9. /\ e \in Entry /\ e.lifecycle_state = row.next
      /\ Mutated(e, entry, event, row.action, NoTarget)
  BY <1>3, <1>6, <1>8, AdvanceFields
<1>10. EntryOK(e)
  BY <1>6, <1>7, <1>9 DEF EntryOK, Mutated
<1> QED BY <1>1, <1>2, <1>5, <1>8, <1>10

\* The four rows that _admit selects from.
LEMMA AdmissionRows ==
  /\ Len(Rows("created", "request.received")) = 2
  /\ Rows("created", "request.received")[1] =
       Row("admission_ok", "initialized", <<"request.admitted", "gate.enforced">>,
           "default", "none")
  /\ Rows("created", "request.received")[2] =
       Row("always", "failed", <<"request.rejected", "gate.enforced">>, "block", "none")
  /\ Rows("initialized", "__routing__")[1] =
       Row("routing_ok", "scheduled", <<"routing.directive">>, "default", "set_routing_target")
  /\ Rows("initialized", "__routing__")[2] =
       Row("always", "failed", <<"request.rejected", "gate.enforced">>, "block", "none")
BY DEF Rows

\* The entry that _admit creates.
LEMMA NewEntryFields ==
  ASSUME NEW type \in Types \cup {NoType}, NEW version \in Versions
  PROVE  /\ NewEntry(type, version) \in Entry
         /\ NewEntry(type, version).cancellation_flag = FALSE
BY DEF NewEntry, Absent, Entry, States, NonTerminal, Versions

\* A request.received that is not permitted leaves a failed entry.
LEMMA RejectedEntry ==
  ASSUME NEW type \in Types \cup {NoType}, NEW version \in Versions, NEW eid \in Nat
  PROVE  EntryOK(Advance(NewEntry(type, version), "request.received", eid,
                         Rows("created", "request.received")[2], NoTarget))
<1>1. PICK entry \in Entry : entry = NewEntry(type, version) /\ entry.cancellation_flag = FALSE
  BY NewEntryFields
<1>2. PICK row : row = Rows("created", "request.received")[2]
  OBVIOUS
<1>3. row.next = "failed" /\ row.action = "none"
  BY <1>2, AdmissionRows DEF Row
<1>4. row.next \in States
  BY <1>3 DEF States, Terminal
<1>5. PICK e : e = Advance(entry, "request.received", eid, row, NoTarget)
  OBVIOUS
<1>6. /\ e \in Entry /\ e.lifecycle_state = row.next
      /\ Mutated(e, entry, "request.received", row.action, NoTarget)
  BY <1>4, <1>5, AdvanceFields
<1>7. EntryOK(e)
  BY <1>1, <1>3, <1>6 DEF EntryOK, Mutated
<1> QED BY <1>1, <1>2, <1>5, <1>7

\* A permitted one is routed in the same event, to its owner or to `failed'.
LEMMA AdmittedEntry ==
  ASSUME NEW type \in Types \cup {NoType}, NEW version \in Versions, NEW eid \in Nat,
         NEW target \in Targets \cup {NoTarget}
  PROVE  EntryOK(Advance(Advance(NewEntry(type, version), "request.received", eid,
                                 Rows("created", "request.received")[1], NoTarget),
                         "__routing__", eid,
                         Rows("initialized", "__routing__")[IF target # NoTarget THEN 1 ELSE 2],
                         target))
<1>1. PICK entry \in Entry : entry = NewEntry(type, version) /\ entry.cancellation_flag = FALSE
  BY NewEntryFields
<1>2. PICK row : row = Rows("created", "request.received")[1]
  OBVIOUS
<1>3. row.next = "initialized" /\ row.action = "none" /\ row.next \in States
  BY <1>2, AdmissionRows DEF Row, States, NonTerminal
<1>4. PICK e : e = Advance(entry, "request.received", eid, row, NoTarget)
  OBVIOUS
<1>5. e \in Entry /\ Mutated(e, entry, "request.received", row.action, NoTarget)
  BY <1>3, <1>4, AdvanceFields
<1>6. e.cancellation_flag = FALSE
  BY <1>1, <1>3, <1>5 DEF Mutated
<1>7. PICK row2 : row2 = Rows("initialized", "__routing__")[IF target # NoTarget THEN 1 ELSE 2]
  OBVIOUS
<1>8. IF target # NoTarget THEN row2.next = "scheduled" /\ row2.action = "set_routing_target"
                           ELSE row2.next = "failed" /\ row2.action = "none"
  BY <1>7, AdmissionRows DEF Row
<1>9. row2.next \in States
  BY <1>8 DEF States, NonTerminal, Terminal
<1>10. PICK e2 : e2 = Advance(e, "__routing__", eid, row2, target)
  OBVIOUS
<1>11. /\ e2 \in Entry /\ e2.lifecycle_state = row2.next
       /\ Mutated(e2, e, "__routing__", row2.action, target)
  BY <1>5, <1>9, <1>10, AdvanceFields
<1>12. EntryOK(e2)
  BY <1>6, <1>8, <1>11 DEF EntryOK, Mutated
<1> QED BY <1>1, <1>2, <1>4, <1>7, <1>10, <1>12

\* The inductive invariant.
IInv == TypeOK /\ \A r \in Rids : EntryOK(ledger[r])

\* It is the conjunction of the three invariants the runs check.
LEMMA IInvParts == IInv <=> TypeOK /\ OutcomeConsistent /\ NoRequestStranded
BY DEF IInv, TypeOK, OutcomeConsistent, NoRequestStranded, EntryOK

\* The coordinator starts with an empty ledger.
LEMMA InitIInv == Init => IInv
<1> SUFFICES ASSUME Init PROVE IInv
  OBVIOUS
<1>1. Absent \in Entry /\ EntryOK(Absent)
  BY DEF Absent, Entry, EntryOK, States, NonTerminal, Versions
<1>2. ledger = [r \in Rids |-> Absent]
  BY DEF Init
<1>3. ledger \in [Rids -> Entry] /\ \A r \in Rids : EntryOK(ledger[r])
  BY <1>1, <1>2
<1>4. /\ halted \in BOOLEAN /\ out_seq \in Nat /\ next_eid \in Nat /\ redelivered \in Nat
      /\ pending = NoEvent /\ config \in Snapshots
  BY SnapshotAssumption DEF Init
<1>5. configs \in [Versions -> Snapshots \cup {NoSnapshot}]
  BY SnapshotAssumption DEF Init
<1> QED BY <1>3, <1>4, <1>5 DEF IInv, TypeOK

\* The part of the invariant that handle() can disturb.
KernelOK ==
  /\ ledger \in [Rids -> Entry]
  /\ \A r \in Rids : EntryOK(ledger[r])
  /\ halted \in BOOLEAN
  /\ config \in Snapshots
  /\ configs \in [Versions -> Snapshots \cup {NoSnapshot}]
  /\ out_seq \in Nat

\* What an envelope carries.
LEMMA EnvelopeFacts ==
  ASSUME NEW eid \in Nat, NEW env \in Envelopes(eid)
  PROVE  /\ env.event_id = eid
         /\ env.event_name \in RequestEvents => env.request_id \in Rids
         /\ env.declared_type \in Types \cup {NoType}
         /\ env.snapshot \in Snapshots \cup {NoSnapshot}
         /\ env.event_name \in InboundEvents
BY DEF Envelopes, RequestEvents, SessionEvents, InboundEvents

\* A fault touches nothing but the outbound counter and the halt flag.
LEMMA FaultKernelOK == KernelOK /\ Fault => KernelOK'
<1> SUFFICES ASSUME KernelOK, Fault PROVE KernelOK'
  OBVIOUS
<1>1. halted' \in BOOLEAN
  BY Zenon DEF KernelOK, Fault
<1>2. out_seq' \in Nat
  BY DEF KernelOK, Fault
<1> QED BY <1>1, <1>2 DEF KernelOK, Fault

\* Publishing touches nothing but the bus, the outbound counter and the halt flag.
LEMMA SafePublishTypes ==
  ASSUME KernelOK, NEW msgs, SafePublish(msgs)
  PROVE  halted' \in BOOLEAN /\ out_seq' \in Nat
<1>1. halted' \in BOOLEAN
  BY Zenon DEF KernelOK, SafePublish
<1>2. out_seq' \in Nat
  BY DEF KernelOK, SafePublish
<1> QED BY <1>1, <1>2

\* Committing a well-formed entry keeps the invariant.
LEMMA CommitKernelOK ==
  ASSUME KernelOK, NEW env, NEW steps, env.request_id \in Rids,
         Commit(env, steps), EntryOK(steps[Len(steps)].entry)
  PROVE  KernelOK'
<1>1. PICK e : e = steps[Len(steps)].entry
  OBVIOUS
<1>2. PICK rid \in Rids : rid = env.request_id
  OBVIOUS
<1>3. ledger' = [ledger EXCEPT ![rid] = e] /\ EntryOK(e) /\ e \in Entry
  BY <1>1, <1>2 DEF Commit, EntryOK
<1>4. ledger' \in [Rids -> Entry] /\ \A r \in Rids : EntryOK(ledger'[r])
  BY <1>3 DEF KernelOK
<1>5. halted' \in BOOLEAN /\ out_seq' \in Nat
  BY SafePublishTypes DEF Commit
<1>6. config' = config /\ configs' = configs
  BY DEF Commit
<1> QED BY <1>4, <1>5, <1>6 DEF KernelOK

\* Each branch of handle() keeps the invariant.
LEMMA HandleKernelOK ==
  ASSUME KernelOK, NEW eid \in Nat, NEW env \in Envelopes(eid), Handle(env)
  PROVE  KernelOK'
<1> USE EnvelopeFacts
<1>1. CASE HandleDuplicate(env)
  <2>1. env.request_id \in Rids /\ Commit(env, Noop(env))
    BY <1>1 DEF HandleDuplicate
  <2>2. Len(Noop(env)) = 1 /\ Noop(env)[1].entry = ledger[env.request_id]
    BY DEF Noop
  <2> QED BY <2>1, <2>2, CommitKernelOK DEF KernelOK
<1>2. CASE HandleAdmit(env)
  <2>1. env.request_id \in Rids /\ Commit(env, Admit(env))
    BY <1>2 DEF HandleAdmit, RequestEvents
  <2>2. config.version \in Versions
    BY DEF KernelOK, Versions
  <2>3. CASE AdmissionOk(env)
    <3>1. PICK target : target = RouteOf(env.declared_type, config)
      OBVIOUS
    <3>2. target \in Targets \cup {NoTarget}
      BY <3>1, SnapshotAssumption DEF KernelOK, RouteOf
    <3>3. /\ Len(Admit(env)) = 2
          /\ Admit(env)[2].entry =
               Advance(Advance(NewEntry(env.declared_type, config.version), "request.received",
                               env.event_id, Rows("created", "request.received")[1], NoTarget),
                       "__routing__", env.event_id,
                       Rows("initialized", "__routing__")[IF target # NoTarget THEN 1 ELSE 2],
                       target)
      BY <2>3, <3>1 DEF Admit, AdmissionTransition, RoutingTransition, Transition
    <3>4. EntryOK(Admit(env)[2].entry)
      BY <2>2, <3>2, <3>3, AdmittedEntry
    <3> QED BY <2>1, <3>3, <3>4, CommitKernelOK
  <2>4. CASE ~AdmissionOk(env)
    <3>1. /\ Len(Admit(env)) = 1
          /\ Admit(env)[1].entry =
               Advance(NewEntry(env.declared_type, config.version), "request.received",
                       env.event_id, Rows("created", "request.received")[2], NoTarget)
      BY <2>4 DEF Admit, AdmissionTransition, Transition
    <3>2. EntryOK(Admit(env)[1].entry)
      BY <2>2, <3>1, RejectedEntry
    <3> QED BY <2>1, <3>1, <3>2, CommitKernelOK
  <2> QED BY <2>3, <2>4
<1>3. CASE HandleApply(env)
  <2>1. /\ env.request_id \in Rids /\ env.event_name \in RequestEvents
        /\ Commit(env, Apply(env))
        /\ Rows(ledger[env.request_id].lifecycle_state, env.event_name) # <<>>
    BY <1>3 DEF HandleApply
  <2>2. PICK entry : entry = ledger[env.request_id] /\ EntryOK(entry)
    BY <2>1 DEF KernelOK
  <2>3. PICK cfg : cfg = PinnedConfig(entry)
    OBVIOUS
  <2>4. /\ Len(Apply(env)) = 1
        /\ Apply(env)[1].entry =
             LET rows == Rows(entry.lifecycle_state, env.event_name)
             IN Advance(entry, env.event_name, env.event_id,
                        rows[PickRow(rows, entry, cfg)], NoTarget)
    BY <2>2, <2>3 DEF Apply, Transition
  <2>5. EntryOK(Apply(env)[1].entry)
    <3>1. env.event_id \in Nat
      OBVIOUS
    <3>2. Rows(entry.lifecycle_state, env.event_name) # <<>>
      BY <2>1, <2>2
    <3> HIDE EnvelopeFacts
    <3> QED BY <2>1, <2>2, <2>4, <3>1, <3>2, AppliedEntry, Zenon
  <2> QED BY <2>1, <2>4, <2>5, CommitKernelOK
<1>4. CASE HandleUnmatched(env)
  BY <1>4, FaultKernelOK DEF HandleUnmatched
<1>5. CASE HandleConfig(env)
  <2>1. CASE Fault
    BY <2>1, FaultKernelOK
  <2>2. CASE ~Fault
    <3>1. PICK msgs : SafePublish(msgs)
      BY <1>5, <2>2 DEF HandleConfig
    <3>2. halted' \in BOOLEAN /\ out_seq' \in Nat
      BY <3>1, SafePublishTypes
    <3>3. /\ env.snapshot \in Snapshots /\ config' = env.snapshot /\ ledger' = ledger
          /\ configs' = [configs EXCEPT ![env.snapshot.version] = env.snapshot]
      BY <1>5, <2>2 DEF HandleConfig
    <3> QED BY <3>2, <3>3 DEF KernelOK
  <2> QED BY <2>1, <2>2
<1>6. CASE HandleSession(env)
  <2>1. PICK msgs : SafePublish(msgs)
    BY <1>6 DEF HandleSession
  <2>2. halted' \in BOOLEAN /\ out_seq' \in Nat
    BY <2>1, SafePublishTypes
  <2>3. config' = config /\ configs' = configs
    BY <1>6 DEF HandleSession
  <2>4. Absent \in Entry /\ EntryOK(Absent)
    BY DEF Absent, Entry, EntryOK, States, NonTerminal, Versions
  <2>5. ledger' \in [Rids -> Entry] /\ \A r \in Rids : EntryOK(ledger'[r])
    BY <1>6, <2>4 DEF HandleSession, KernelOK
  <2> QED BY <2>2, <2>3, <2>5 DEF KernelOK
<1> QED BY <1>1, <1>2, <1>3, <1>4, <1>5, <1>6 DEF Handle

\* Every step of the system keeps the inductive invariant.
LEMMA NextIInv == IInv /\ [Next]_vars => IInv'
<1> SUFFICES ASSUME IInv, [Next]_vars PROVE IInv'
  OBVIOUS
<1>1. KernelOK /\ next_eid \in Nat /\ redelivered \in Nat
      /\ (pending # NoEvent => pending.event_id \in Nat
                               /\ pending \in Envelopes(pending.event_id))
  BY DEF IInv, TypeOK, KernelOK
<1>2. SUFFICES KernelOK' /\ next_eid' \in Nat /\ redelivered' \in Nat
               /\ (pending' # NoEvent => pending'.event_id \in Nat
                                         /\ pending' \in Envelopes(pending'.event_id))
  BY DEF IInv, TypeOK, KernelOK
<1>3. CASE Deliver
  <2>1. PICK env \in Envelopes(next_eid) : Handle(env) /\ pending' \in {pending, env}
    BY <1>3 DEF Deliver
  <2>2. KernelOK'
    BY <1>1, <2>1, HandleKernelOK
  <2>3. env.event_id = next_eid
    BY <1>1, <2>1, EnvelopeFacts
  <2>4. next_eid' = next_eid + 1 /\ redelivered' = redelivered
    BY <1>3 DEF Deliver
  <2>5. pending' # NoEvent => pending'.event_id \in Nat
                              /\ pending' \in Envelopes(pending'.event_id)
    <3>1. CASE pending' = pending
      BY <1>1, <3>1
    <3>2. CASE pending' = env
      BY <1>1, <2>3, <3>2
    <3> QED BY <2>1, <3>1, <3>2
  <2> QED BY <1>1, <2>2, <2>4, <2>5
<1>4. CASE Redeliver
  <2>1. KernelOK'
    BY <1>1, <1>4, HandleKernelOK DEF Redeliver
  <2> QED BY <1>1, <1>4, <2>1 DEF Redeliver
<1>5. CASE DeliverMalformed
  BY <1>1, <1>5, FaultKernelOK DEF DeliverMalformed
<1>6. CASE BusChanges
  BY <1>1, <1>6 DEF BusChanges, kernelVars, KernelOK
<1>7. CASE UNCHANGED vars
  BY <1>1, <1>7 DEF vars, KernelOK
<1> QED BY <1>3, <1>4, <1>5, <1>6, <1>7 DEF Next

\* The inductive invariant holds in every reachable state.
THEOREM Invariance == Spec => []IInv
<1>1. Init => IInv
  BY InitIInv
<1>2. IInv /\ [Next]_vars => IInv'
  BY NextIInv
<1> QED BY <1>1, <1>2, PTL DEF Spec

\* handle() and its helpers keep every field of the coordinator in its type, for
\* any requests, routing tables, snapshots and bus outages.
THEOREM TypeCorrect == Spec => []TypeOK
<1>1. IInv => TypeOK
  BY DEF IInv
<1> QED BY <1>1, Invariance, PTL

\* I5 and the cancellation gate: whatever the peers send, in any order and any
\* number of times, a completed entry holds a passed verdict and was not cancelled.
THEOREM OutcomesConsistent == Spec => []OutcomeConsistent
<1>1. IInv => OutcomeConsistent
  BY IInvParts
<1> QED BY <1>1, Invariance, PTL

\* Phase 3: admission and routing are one event processing, so no request is ever
\* left in `created' or `initialized' between two events.
THEOREM NothingStranded == Spec => []NoRequestStranded
<1>1. IInv => NoRequestStranded
  BY IInvParts
<1> QED BY <1>1, Invariance, PTL

\* The three together: what the run of the kernel checks of the ledger.
THEOREM LedgerIsSound == Spec => []LedgerSound
<1>1. IInv => LedgerSound
  BY IInvParts DEF IInv, LedgerSound
<1> QED BY <1>1, Invariance, PTL

-----------------------------------------------------------------------------
(* What a step does to the ledger: the part of handle() that the action    *)
(* property is about.                                                      *)

\* e is the entry that _admit leaves for the request of env.
AdmittedAs(env, e) ==
  /\ env.event_name = "request.received"
  /\ ~InLedger(env.request_id)
  /\ e.lifecycle_state \in {"scheduled", "failed"}
  /\ e.lifecycle_state = "scheduled" => AdmissionOk(env)
  /\ e.config_version = config.version
  /\ e.verdict = "none"
  /\ e.last_applied_event_id = env.event_id

\* The fields of an entry that its outcome consists of.
Outcome(e) == [e EXCEPT !.transition_sequence = 0, !.last_applied_event_id = NoEvent]

\* e is the entry that _apply leaves for the request of env.
AppliedAs(env, e) ==
  LET entry == ledger[env.request_id] IN
  /\ env.event_name \in RequestEvents \ {"request.received"}
  /\ InLedger(env.request_id)
  /\ e.lifecycle_state # "absent"
  /\ e.lifecycle_state \in NonTerminal => entry.lifecycle_state \in NonTerminal
  /\ entry.lifecycle_state \in Terminal => Outcome(e) = Outcome(entry)
  /\ e.config_version = entry.config_version
  /\ e.verdict = IF env.event_name = "verify.passed" THEN "passed"
                 ELSE IF env.event_name = "verify.failed" THEN "failed" ELSE entry.verdict
  /\ e.last_applied_event_id = env.event_id

\* _admit: the entry of a request that was not in the ledger.
LEMMA AdmitLedger ==
  ASSUME KernelOK, NEW eid \in Nat, NEW env \in Envelopes(eid), HandleAdmit(env)
  PROVE  \E e \in Entry : AdmittedAs(env, e) /\ ledger' = [ledger EXCEPT ![env.request_id] = e]
<1>1. /\ env.request_id \in Rids /\ env.event_name = "request.received"
      /\ ~InLedger(env.request_id) /\ Commit(env, Admit(env))
      /\ env.declared_type \in Types \cup {NoType} /\ env.event_id \in Nat
  BY EnvelopeFacts DEF HandleAdmit, RequestEvents
<1>2. PICK n \in Entry : /\ n = NewEntry(env.declared_type, config.version)
                         /\ n.verdict = "none" /\ n.config_version = config.version
  <2>1. config.version \in Versions
    BY DEF KernelOK, Versions
  <2> QED BY <1>1, <2>1, NewEntryFields DEF NewEntry, Absent
<1>3. PICK row : row = Rows("created", "request.received")[IF AdmissionOk(env) THEN 1 ELSE 2]
  OBVIOUS
<1>4. /\ row.next = IF AdmissionOk(env) THEN "initialized" ELSE "failed"
      /\ row.action = "none" /\ row.next \in States
  BY <1>3, AdmissionRows DEF Row, States, NonTerminal, Terminal
<1>5. PICK e : e = Advance(n, "request.received", env.event_id, row, NoTarget)
  OBVIOUS
<1>6. /\ e \in Entry /\ e.lifecycle_state = row.next /\ e.last_applied_event_id = env.event_id
      /\ e.verdict = "none" /\ e.config_version = config.version
  <2>1. /\ e \in Entry /\ e.lifecycle_state = row.next
        /\ e.last_applied_event_id = env.event_id
        /\ Mutated(e, n, "request.received", row.action, NoTarget)
    BY <1>1, <1>4, <1>5, AdvanceFields
  <2> QED BY <1>2, <1>4, <2>1 DEF Mutated
<1>7. AdmissionTransition(env).entry = e
  BY <1>2, <1>3, <1>5 DEF AdmissionTransition, Transition
<1>8. CASE ~AdmissionOk(env)
  <2>1. Len(Admit(env)) = 1 /\ Admit(env)[1].entry = e
    BY <1>7, <1>8 DEF Admit
  <2>2. ledger' = [ledger EXCEPT ![env.request_id] = e]
    BY <1>1, <2>1 DEF Commit
  <2>3. AdmittedAs(env, e)
    BY <1>1, <1>4, <1>6, <1>8 DEF AdmittedAs
  <2> QED BY <1>6, <2>2, <2>3
<1>9. CASE AdmissionOk(env)
  <2>1. PICK target : target = RouteOf(env.declared_type, config)
    OBVIOUS
  <2>2. target \in Targets \cup {NoTarget}
    BY <2>1, SnapshotAssumption DEF KernelOK, RouteOf
  <2>3. PICK row2 : row2 = Rows("initialized", "__routing__")[IF target # NoTarget THEN 1 ELSE 2]
    OBVIOUS
  <2>4. /\ row2.next \in {"scheduled", "failed"} /\ row2.action \in {"set_routing_target", "none"}
        /\ row2.next \in States
    BY <2>3, AdmissionRows DEF Row, States, NonTerminal, Terminal
  <2>5. PICK e2 : e2 = Advance(e, "__routing__", env.event_id, row2, target)
    OBVIOUS
  <2>6. /\ e2 \in Entry /\ e2.lifecycle_state = row2.next
        /\ e2.last_applied_event_id = env.event_id
        /\ e2.verdict = "none" /\ e2.config_version = config.version
    <3>1. /\ e2 \in Entry /\ e2.lifecycle_state = row2.next
          /\ e2.last_applied_event_id = env.event_id
          /\ Mutated(e2, e, "__routing__", row2.action, target)
      BY <1>1, <1>6, <2>2, <2>4, <2>5, AdvanceFields
    <3> QED BY <1>6, <2>4, <3>1 DEF Mutated
  <2>7. RoutingTransition(env, e).entry = e2
    BY <2>1, <2>3, <2>5 DEF RoutingTransition, Transition
  <2>8. Len(Admit(env)) = 2 /\ Admit(env)[2].entry = e2
    BY <1>7, <1>9, <2>7 DEF Admit
  <2>9. ledger' = [ledger EXCEPT ![env.request_id] = e2]
    BY <1>1, <2>8 DEF Commit
  <2>10. AdmittedAs(env, e2)
    BY <1>1, <1>9, <2>4, <2>6 DEF AdmittedAs
  <2> QED BY <2>6, <2>9, <2>10
<1> QED BY <1>8, <1>9

\* _apply: the entry of a request in the ledger after a row of the table.
LEMMA ApplyLedger ==
  ASSUME KernelOK, NEW eid \in Nat, NEW env \in Envelopes(eid), HandleApply(env)
  PROVE  \E e \in Entry : AppliedAs(env, e) /\ ledger' = [ledger EXCEPT ![env.request_id] = e]
<1>1. /\ env.request_id \in Rids /\ env.event_name \in RequestEvents \ {"request.received"}
      /\ env.event_id \in Nat /\ InLedger(env.request_id) /\ Commit(env, Apply(env))
      /\ Rows(ledger[env.request_id].lifecycle_state, env.event_name) # <<>>
  BY EnvelopeFacts DEF HandleApply
<1>2. PICK entry \in Entry : entry = ledger[env.request_id] /\ EntryOK(entry)
  BY <1>1 DEF KernelOK
<1>3. PICK cfg : cfg = PinnedConfig(entry)
  OBVIOUS
<1>4. PICK rows : rows = Rows(entry.lifecycle_state, env.event_name)
  OBVIOUS
<1>5. PICK i : i = PickRow(rows, entry, cfg)
  OBVIOUS
<1>6. entry.lifecycle_state \in States \ {"created", "initialized"}
  BY <1>2 DEF EntryOK, Entry
<1>7. i \in 1..Len(rows)
  BY <1>1, <1>2, <1>4, <1>5, <1>6, PickRowFacts
<1>8. PICK row : row = rows[i]
  OBVIOUS
<1>9. /\ row.next \in States \ {"absent", "created", "initialized"}
      /\ row.action # "set_routing_target"
      /\ row.action = "record_verdict" <=> env.event_name \in {"verify.passed", "verify.failed"}
      /\ entry.lifecycle_state \in Terminal
           => row.next = entry.lifecycle_state /\ row.action = "none"
  BY <1>1, <1>4, <1>6, <1>7, <1>8, RowFacts
<1>10. PICK e : e = Advance(entry, env.event_name, env.event_id, row, NoTarget)
  OBVIOUS
<1>11. /\ e \in Entry /\ e.lifecycle_state = row.next /\ e.last_applied_event_id = env.event_id
       /\ Mutated(e, entry, env.event_name, row.action, NoTarget)
  BY <1>1, <1>9, <1>10, AdvanceFields
<1>12. entry.lifecycle_state \in Terminal => Outcome(e) = Outcome(entry)
  <2> SUFFICES ASSUME entry.lifecycle_state \in Terminal PROVE Outcome(e) = Outcome(entry)
    OBVIOUS
  <2>1. DoAction(row.action, entry, env.event_name, NoTarget) = entry
    BY <1>9 DEF DoAction
  <2>2. e = [entry EXCEPT !.lifecycle_state = entry.lifecycle_state,
                        !.transition_sequence = entry.transition_sequence + 1,
                        !.last_applied_event_id = env.event_id]
    BY <1>9, <1>10, <2>1 DEF Advance
  <2> QED BY <2>2 DEF Outcome, Entry
<1>13. entry.lifecycle_state \notin Terminal => entry.lifecycle_state \in NonTerminal
  BY <1>1, <1>2, <1>6 DEF States, InLedger
<1>14. AppliedAs(env, e)
  <2>1. e.lifecycle_state \in NonTerminal => entry.lifecycle_state \in NonTerminal
    BY <1>9, <1>11, <1>13 DEF NonTerminal, Terminal
  <2>2. /\ e.config_version = entry.config_version
        /\ e.verdict = IF env.event_name = "verify.passed" THEN "passed"
                       ELSE IF env.event_name = "verify.failed" THEN "failed" ELSE entry.verdict
    BY <1>9, <1>11 DEF Mutated
  <2> QED BY <1>1, <1>2, <1>9, <1>11, <1>12, <2>1, <2>2 DEF AppliedAs
<1>15. Len(Apply(env)) = 1 /\ Apply(env)[1].entry = e
  BY <1>2, <1>3, <1>4, <1>5, <1>8, <1>10 DEF Apply, Transition
<1>16. ledger' = [ledger EXCEPT ![env.request_id] = e]
  BY <1>1, <1>15 DEF Commit
<1> QED BY <1>11, <1>14, <1>16

\* session.sleep evicts the terminal entries and touches no other.
Evicts == ledger' = [r \in Rids |-> IF r \in TerminalRids THEN Absent ELSE ledger[r]]

\* The four things that handling an envelope can do to the ledger.
LEMMA HandleLedger ==
  ASSUME KernelOK, NEW eid \in Nat, NEW env \in Envelopes(eid), Handle(env)
  PROVE  /\ \/ ledger' = ledger
            \/ Evicts
            \/ /\ env.request_id \in Rids
               /\ \E e \in Entry : /\ AdmittedAs(env, e) \/ AppliedAs(env, e)
                                   /\ ledger' = [ledger EXCEPT ![env.request_id] = e]
         /\ \/ config' = config /\ configs' = configs
            \/ /\ env.snapshot \in Snapshots /\ config' = env.snapshot /\ ledger' = ledger
               /\ configs' = [configs EXCEPT ![env.snapshot.version] = env.snapshot]
<1>1. CASE HandleDuplicate(env)
  <2>1. env.request_id \in Rids /\ Commit(env, Noop(env))
    BY <1>1, EnvelopeFacts DEF HandleDuplicate
  <2>2. Len(Noop(env)) = 1 /\ Noop(env)[1].entry = ledger[env.request_id]
    BY DEF Noop
  <2>3. ledger' = [ledger EXCEPT ![env.request_id] = ledger[env.request_id]]
    BY <2>1, <2>2 DEF Commit
  <2>4. ledger' = ledger
    BY <2>1, <2>3 DEF KernelOK
  <2> QED BY <2>1, <2>4 DEF Commit
<1>2. CASE HandleAdmit(env)
  <2>1. env.request_id \in Rids
    BY <1>2, EnvelopeFacts DEF HandleAdmit, RequestEvents
  <2>2. config' = config /\ configs' = configs
    BY <1>2 DEF HandleAdmit, Commit
  <2> QED BY <1>2, <2>1, <2>2, AdmitLedger
<1>3. CASE HandleApply(env)
  <2>1. env.request_id \in Rids
    BY <1>3, EnvelopeFacts DEF HandleApply
  <2>2. config' = config /\ configs' = configs
    BY <1>3 DEF HandleApply, Commit
  <2> QED BY <1>3, <2>1, <2>2, ApplyLedger
<1>4. CASE HandleUnmatched(env)
  BY <1>4 DEF HandleUnmatched, Fault
<1>5. CASE HandleConfig(env)
  BY <1>5, EnvelopeFacts DEF HandleConfig, Fault
<1>6. CASE HandleSession(env)
  BY <1>6 DEF HandleSession, Evicts
<1> QED BY <1>1, <1>2, <1>3, <1>4, <1>5, <1>6 DEF Handle

-----------------------------------------------------------------------------
(* Every snapshot that a request in the ledger is pinned to is cached, and *)
(* the ledger is finite, so its active entries can be counted.             *)

PolicyInv ==
  /\ \A v \in Versions : configs[v] # NoSnapshot => configs[v].version = v
  /\ configs[config.version] # NoSnapshot
  /\ \A r \in Rids : InLedger(r) => configs[ledger[r].config_version] # NoSnapshot

Admitted == {r \in Rids : InLedger(r)}
Active == {r \in Rids : ledger[r].lifecycle_state \in NonTerminal}

LEMMA InitPolicyInv == Init => PolicyInv /\ IsFiniteSet(Admitted)
<1> SUFFICES ASSUME Init PROVE PolicyInv /\ IsFiniteSet(Admitted)
  OBVIOUS
<1>1. InitialSnapshot # NoSnapshot /\ InitialSnapshot.version \in Versions
  BY SnapshotAssumption DEF Versions
<1>2. \A r \in Rids : ~InLedger(r)
  BY DEF Init, InLedger, Absent
<1>3. Admitted = {}
  BY <1>2 DEF Admitted
<1>4. PolicyInv
  BY <1>1, <1>2 DEF Init, PolicyInv
<1> QED BY <1>3, <1>4, FS_EmptySet

\* A step adds at most one request to the ledger, and nothing it caches is dropped.
LEMMA HandlePolicyInv ==
  ASSUME KernelOK, NEW eid \in Nat, NEW env \in Envelopes(eid), Handle(env),
         PolicyInv, IsFiniteSet(Admitted)
  PROVE  PolicyInv' /\ IsFiniteSet(Admitted')
<1>0. config.version \in Versions /\ ledger \in [Rids -> Entry] /\ NoSnapshot \notin Snapshots
      /\ configs \in [Versions -> Snapshots \cup {NoSnapshot}]
      /\ (\A s \in Snapshots : s.version \in Versions)
      /\ (\A r \in Rids : ledger[r].config_version \in Versions)
  BY SnapshotAssumption DEF KernelOK, Versions, EntryOK, Entry
<1>1. CASE ledger' = ledger
  <2>1. Admitted' = Admitted
    BY <1>1 DEF Admitted, InLedger
  <2>2. CASE config' = config /\ configs' = configs
    BY <1>1, <2>1, <2>2 DEF PolicyInv, InLedger
  <2>3. CASE /\ env.snapshot \in Snapshots /\ config' = env.snapshot
             /\ configs' = [configs EXCEPT ![env.snapshot.version] = env.snapshot]
    <3>1. \A v \in Versions : configs'[v] = IF v = env.snapshot.version THEN env.snapshot
                                                                       ELSE configs[v]
      BY <1>0, <2>3
    <3>2. PolicyInv'
      BY <1>0, <1>1, <2>3, <3>1 DEF PolicyInv, InLedger
    <3> QED BY <2>1, <3>2
  <2> QED BY <1>1, <2>2, <2>3, HandleLedger
<1>2. CASE config' = config /\ configs' = configs /\ Evicts
  <2>1. \A r \in Rids : InLedger(r)' => InLedger(r) /\ ledger'[r] = ledger[r]
    BY <1>2 DEF Evicts, InLedger, Absent
  <2>2. Admitted' \in SUBSET Admitted
    BY <2>1 DEF Admitted
  <2>3. PolicyInv'
    BY <1>2, <2>1 DEF PolicyInv
  <2> QED BY <2>2, <2>3, FS_Subset
<1>3. CASE /\ config' = config /\ configs' = configs /\ env.request_id \in Rids
           /\ \E e \in Entry : /\ AdmittedAs(env, e) \/ AppliedAs(env, e)
                               /\ ledger' = [ledger EXCEPT ![env.request_id] = e]
  <2>1. PICK e \in Entry : /\ AdmittedAs(env, e) \/ AppliedAs(env, e)
                           /\ ledger' = [ledger EXCEPT ![env.request_id] = e]
    BY <1>3
  <2>2. \A r \in Rids : ledger'[r] = IF r = env.request_id THEN e ELSE ledger[r]
    BY <1>0, <2>1
  <2>3. Admitted' \in SUBSET (Admitted \cup {env.request_id})
    BY <2>2 DEF Admitted, InLedger
  <2>4. configs[e.config_version] # NoSnapshot
    BY <1>3, <2>1 DEF AdmittedAs, AppliedAs, PolicyInv
  <2>5. PolicyInv'
    BY <1>3, <2>2, <2>4 DEF PolicyInv, InLedger
  <2> QED BY <2>3, <2>5, FS_AddElement, FS_Subset
<1> QED BY <1>1, <1>2, <1>3, HandleLedger

\* A step either handles an envelope or leaves the ledger and the snapshots alone.
LEMMA StepCases ==
  ASSUME IInv, [Next]_vars
  PROVE  \/ \E eid \in Nat : \E env \in Envelopes(eid) : Handle(env)
         \/ ledger' = ledger /\ config' = config /\ configs' = configs
<1>1. CASE Deliver
  BY <1>1 DEF Deliver, IInv, TypeOK
<1>2. CASE Redeliver
  BY <1>2 DEF Redeliver, IInv, TypeOK
<1>3. CASE DeliverMalformed
  BY <1>3 DEF DeliverMalformed, Fault
<1>4. CASE BusChanges
  BY <1>4 DEF BusChanges, kernelVars
<1>5. CASE UNCHANGED vars
  BY <1>5 DEF vars
<1> QED BY <1>1, <1>2, <1>3, <1>4, <1>5 DEF Next

LEMMA KernelOKPart == IInv => KernelOK
BY DEF IInv, TypeOK, KernelOK

LEMMA NextPolicyInv ==
  IInv /\ PolicyInv /\ IsFiniteSet(Admitted) /\ [Next]_vars
    => PolicyInv' /\ IsFiniteSet(Admitted')
<1> SUFFICES ASSUME IInv, PolicyInv, IsFiniteSet(Admitted), [Next]_vars
             PROVE  PolicyInv' /\ IsFiniteSet(Admitted')
  OBVIOUS
<1>1. CASE \E eid \in Nat : \E env \in Envelopes(eid) : Handle(env)
  BY <1>1, HandlePolicyInv, KernelOKPart
<1>2. CASE ledger' = ledger /\ config' = config /\ configs' = configs
  <2>1. Admitted' = Admitted /\ PolicyInv'
    BY <1>2 DEF Admitted, PolicyInv, InLedger
  <2> QED BY <2>1
<1> QED BY <1>1, <1>2, StepCases

\* A version names one snapshot: the `immutable, versioned configuration snapshot'
\* of config_view.py.  _install relies on it and does not enforce it.
OneSnapshotPerVersion == \A s, t \in Snapshots : s.version = t.version => s = t

LEMMA StepPinned ==
  ASSUME OneSnapshotPerVersion, IInv, PolicyInv, [Next]_vars
  PROVE  PinnedPolicy
<1> SUFFICES ASSUME NEW r \in Rids, InLedger(r), InLedger(r)'
             PROVE  PinnedConfig(ledger[r])' = PinnedConfig(ledger[r])
  BY DEF PinnedPolicy
<1>0. /\ ledger \in [Rids -> Entry] /\ NoSnapshot \notin Snapshots
      /\ configs \in [Versions -> Snapshots \cup {NoSnapshot}]
      /\ (\A s \in Snapshots : s.version \in Versions)
      /\ ledger[r].config_version \in Versions
      /\ configs[ledger[r].config_version] # NoSnapshot
  BY SnapshotAssumption DEF IInv, TypeOK, Versions, EntryOK, Entry, PolicyInv
<1>1. ledger'[r].config_version = ledger[r].config_version
  <2>1. CASE \E eid \in Nat : \E env \in Envelopes(eid) : Handle(env)
    <3>0. PICK eid \in Nat : \E env \in Envelopes(eid) : Handle(env)
      BY <2>1
    <3>1. PICK env \in Envelopes(eid) : Handle(env)
      BY <3>0
    <3>2. CASE ledger' = ledger
      BY <3>2
    <3>3. CASE Evicts
      BY <3>3 DEF Evicts, InLedger, Absent
    <3>4. CASE /\ env.request_id \in Rids
               /\ \E e \in Entry : /\ AdmittedAs(env, e) \/ AppliedAs(env, e)
                                   /\ ledger' = [ledger EXCEPT ![env.request_id] = e]
      BY <1>0, <3>4 DEF AdmittedAs, AppliedAs
    <3> QED BY <3>1, <3>2, <3>3, <3>4, HandleLedger, KernelOKPart
  <2> QED BY <2>1, StepCases
<1>2. configs'[ledger[r].config_version] = configs[ledger[r].config_version]
  <2>1. CASE \E eid \in Nat : \E env \in Envelopes(eid) : Handle(env)
    <3>0. PICK eid \in Nat : \E env \in Envelopes(eid) : Handle(env)
      BY <2>1
    <3>1. PICK env \in Envelopes(eid) : Handle(env)
      BY <3>0
    <3>2. CASE configs' = configs
      BY <3>2
    <3>3. CASE /\ env.snapshot \in Snapshots
               /\ configs' = [configs EXCEPT ![env.snapshot.version] = env.snapshot]
      BY <1>0, <3>3 DEF PolicyInv, OneSnapshotPerVersion
    <3> QED BY <3>1, <3>2, <3>3, HandleLedger, KernelOKPart
  <2> QED BY <2>1, StepCases
<1> QED BY <1>0, <1>1, <1>2 DEF PinnedConfig

LEMMA StepLimits ==
  ASSUME IInv, IsFiniteSet(Admitted), [Next]_vars
  PROVE  AdmissionRespectsLimits
<1>0. ledger \in [Rids -> Entry] /\ config \in Snapshots
  BY DEF IInv, TypeOK
<1>1. /\ IsFiniteSet(Active) /\ Cardinality(Active) \in Nat
      /\ ActiveCount = Cardinality(Active) /\ ActiveCount' = Cardinality(Active')
  <2>1. Active \in SUBSET Admitted
    BY DEF Active, Admitted, InLedger, NonTerminal
  <2> QED BY <2>1, FS_Subset, FS_CardinalityType DEF ActiveCount, Active
<1>2. ASSUME Active' \in SUBSET Active PROVE AdmissionRespectsLimits
  BY <1>1, <1>2, FS_Subset, FS_CardinalityType DEF AdmissionRespectsLimits
<1>3. CASE ledger' = ledger
  BY <1>2, <1>3 DEF Active
<1>4. CASE \E eid \in Nat : \E env \in Envelopes(eid) : Handle(env)
  <2>0. PICK eid \in Nat : \E env \in Envelopes(eid) : Handle(env)
    BY <1>4
  <2>1. PICK env \in Envelopes(eid) : Handle(env)
    BY <2>0
  <2>2. CASE Evicts
    <3>1. Active' \in SUBSET Active
      BY <2>2 DEF Evicts, Active, NonTerminal, Absent
    <3> QED BY <1>2, <3>1
  <2>3. CASE /\ env.request_id \in Rids
             /\ \E e \in Entry : /\ AdmittedAs(env, e) \/ AppliedAs(env, e)
                                 /\ ledger' = [ledger EXCEPT ![env.request_id] = e]
    <3>1. PICK e \in Entry : /\ AdmittedAs(env, e) \/ AppliedAs(env, e)
                             /\ ledger' = [ledger EXCEPT ![env.request_id] = e]
      BY <2>3
    <3>2. \A r \in Rids : ledger'[r] = IF r = env.request_id THEN e ELSE ledger[r]
      BY <1>0, <3>1
    <3>3. CASE e.lifecycle_state \notin NonTerminal
                 \/ ledger[env.request_id].lifecycle_state \in NonTerminal
      <4>1. Active' \in SUBSET Active
        BY <3>2, <3>3 DEF Active
      <4> QED BY <1>2, <4>1
    <3>4. CASE AdmittedAs(env, e) /\ e.lifecycle_state \in NonTerminal
      <4>1. ~halted /\ ActiveCount < config.max_active_requests
        BY <3>4 DEF AdmittedAs, AdmissionOk, NonTerminal
      <4>2. Active' \in SUBSET (Active \cup {env.request_id})
        BY <3>2 DEF Active
      <4>3. /\ IsFiniteSet(Active \cup {env.request_id})
            /\ Cardinality(Active \cup {env.request_id}) <= Cardinality(Active) + 1
        <5>1. /\ IsFiniteSet(Active \cup {env.request_id})
              /\ Cardinality(Active \cup {env.request_id}) =
                   IF env.request_id \in Active THEN Cardinality(Active)
                                                ELSE Cardinality(Active) + 1
          BY <1>1, FS_AddElement, Zenon
        <5> QED BY <1>1, <5>1
      <4>4. Cardinality(Active') \in Nat /\ Cardinality(Active') <= Cardinality(Active) + 1
        BY <1>1, <4>2, <4>3, FS_Subset, FS_CardinalityType
      <4>5. config.max_active_requests \in Nat
        BY <1>0, SnapshotAssumption
      <4> QED BY <1>1, <4>1, <4>4, <4>5 DEF AdmissionRespectsLimits
    <3> QED BY <3>1, <3>3, <3>4 DEF AppliedAs
  <2> QED BY <1>3, <2>1, <2>2, <2>3, HandleLedger, KernelOKPart
<1> QED BY <1>3, <1>4, StepCases

LEMMA StepFinal ==
  ASSUME IInv, [Next]_vars
  PROVE  OutcomeFinal
<1> SUFFICES ASSUME NEW r \in Rids, ledger[r].lifecycle_state \in Terminal, InLedger(r)'
             PROVE  Outcome(ledger'[r]) = Outcome(ledger[r])
  BY DEF OutcomeFinal, Outcome
<1>0. ledger \in [Rids -> Entry] /\ InLedger(r)
  BY DEF IInv, TypeOK, InLedger, Terminal
<1>1. CASE \E eid \in Nat : \E env \in Envelopes(eid) : Handle(env)
  <2>0. PICK eid \in Nat : \E env \in Envelopes(eid) : Handle(env)
    BY <1>1
  <2>1. PICK env \in Envelopes(eid) : Handle(env)
    BY <2>0
  <2>2. CASE ledger' = ledger
    BY <2>2
  <2>3. CASE Evicts
    BY <2>3 DEF Evicts, InLedger, Absent
  <2>4. CASE /\ env.request_id \in Rids
             /\ \E e \in Entry : /\ AdmittedAs(env, e) \/ AppliedAs(env, e)
                                 /\ ledger' = [ledger EXCEPT ![env.request_id] = e]
    BY <1>0, <2>4 DEF AdmittedAs, AppliedAs
  <2> QED BY <2>1, <2>2, <2>3, <2>4, HandleLedger, KernelOKPart
<1> QED BY <1>1, StepCases

\* Every reachable state has what the steps above rest on.
LEMMA PolicyInvariance == Spec => [](IInv /\ PolicyInv /\ IsFiniteSet(Admitted))
<1>1. Init => IInv /\ PolicyInv /\ IsFiniteSet(Admitted)
  BY InitIInv, InitPolicyInv
<1>2. IInv /\ PolicyInv /\ IsFiniteSet(Admitted) /\ [Next]_vars
        => (IInv /\ PolicyInv /\ IsFiniteSet(Admitted))'
  BY NextIInv, NextPolicyInv
<1> QED BY <1>1, <1>2, PTL DEF Spec

\* CT-2 and admission.decide: whatever arrives in whatever order, a final outcome is
\* never touched and no step admits while halted or beyond the limit in force.
THEOREM OutcomesAreFinal == Spec => [][AdmissionRespectsLimits /\ OutcomeFinal]_vars
<1>1. IInv /\ PolicyInv /\ IsFiniteSet(Admitted) /\ [Next]_vars
        => [AdmissionRespectsLimits /\ OutcomeFinal]_vars
  BY StepLimits, StepFinal
<1> QED BY <1>1, PolicyInvariance, PTL DEF Spec

\* I18, CF-1: where a version names one snapshot, a request in flight is also judged
\* by the same snapshot throughout, whatever configurations arrive meanwhile.
THEOREM StepsAreLawful == OneSnapshotPerVersion => (Spec => StepsLawful)
<1> SUFFICES ASSUME OneSnapshotPerVersion PROVE Spec => StepsLawful
  OBVIOUS
<1>1. IInv /\ PolicyInv /\ IsFiniteSet(Admitted) /\ [Next]_vars
        => [PinnedPolicy /\ AdmissionRespectsLimits /\ OutcomeFinal]_vars
  BY StepPinned, StepLimits, StepFinal
<1> QED BY <1>1, PolicyInvariance, PTL DEF Spec, StepsLawful

-----------------------------------------------------------------------------
(* The log and the bus.  A batch of messages carries a record when it has  *)
(* the record's message and, right behind it, all its emissions.           *)

IsSeq(s) == \E S : s \in Seq(S)

LEMMA FunIsSeq ==
  ASSUME NEW n \in Nat, NEW f, f = [i \in 1..n |-> f[i]]
  PROVE  IsSeq(f) /\ Len(f) = n /\ DOMAIN f = 1..n
<1>1. PICK S : S = {f[i] : i \in 1..n}
  OBVIOUS
<1>2. f \in [1..n -> S]
  BY <1>1
<1>3. f \in Seq(S) /\ Len(f) = n
  BY <1>2
<1> QED BY <1>2, <1>3 DEF IsSeq

LEMMA ConcatIsSeq ==
  ASSUME NEW a, NEW b, IsSeq(a), IsSeq(b)
  PROVE  /\ Len(a) \in Nat /\ Len(b) \in Nat
         /\ DOMAIN a = 1..Len(a) /\ DOMAIN b = 1..Len(b)
         /\ IsSeq(a \o b)
         /\ Len(a \o b) = Len(a) + Len(b)
         /\ DOMAIN (a \o b) = 1..(Len(a) + Len(b))
         /\ \A i \in 1..Len(a) : (a \o b)[i] = a[i]
         /\ \A i \in 1..Len(b) : (a \o b)[Len(a) + i] = b[i]
<1>1. PICK A : a \in Seq(A)
  BY DEF IsSeq
<1>2. PICK B : b \in Seq(B)
  BY DEF IsSeq
<1>3. PICK S : S = A \cup B
  OBVIOUS
<1>4. a \in Seq(S) /\ b \in Seq(S)
  BY <1>1, <1>2, <1>3, SeqMonotonic
<1>5. a \o b \in Seq(S)
  BY <1>4, ConcatProperties
<1>6. Len(a) \in Nat /\ Len(b) \in Nat /\ DOMAIN a = 1..Len(a) /\ DOMAIN b = 1..Len(b)
  BY <1>4, LenProperties
<1>7. /\ Len(a \o b) = Len(a) + Len(b)
      /\ \A i \in 1..Len(a) + Len(b) :
           (a \o b)[i] = IF i <= Len(a) THEN a[i] ELSE b[i - Len(a)]
  BY <1>4, ConcatProperties
<1>8. DOMAIN (a \o b) = 1..Len(a \o b)
  BY <1>5, LenProperties
<1>9. \A i \in 1..Len(a) : (a \o b)[i] = a[i]
  BY <1>6, <1>7
<1>10. \A i \in 1..Len(b) : (a \o b)[Len(a) + i] = b[i]
  <2> SUFFICES ASSUME NEW i \in 1..Len(b) PROVE (a \o b)[Len(a) + i] = b[i]
    OBVIOUS
  <2>1. Len(a) + i \in 1..Len(a) + Len(b) /\ ~(Len(a) + i <= Len(a)) /\ Len(a) + i - Len(a) = i
    BY <1>6
  <2> QED BY <1>7, <2>1
<1> QED BY <1>5, <1>6, <1>7, <1>8, <1>9, <1>10 DEF IsSeq

\* OnBus, of any batch of messages.
Carries(b, rec) ==
  \E n \in DOMAIN b :
    /\ b[n] = LogMsg(rec)
    /\ n + Len(rec.emitted) <= Len(b)
    /\ \A k \in 1..Len(rec.emitted) :
         /\ b[n + k].topic = rec.emitted[k] /\ b[n + k].index = k - 1
         /\ b[n + k].rid = rec.request_id /\ b[n + k].seq = rec.sequence

LEMMA CarriesIsOnBus == \A rec : OnBus(rec) <=> Carries(bus, rec)
BY DEF OnBus, Carries

\* What a batch carries it carries after more was published, before or behind it.
LEMMA CarriesConcat ==
  ASSUME NEW a, NEW b, IsSeq(a), IsSeq(b), NEW rec, IsSeq(rec.emitted),
         Carries(a, rec) \/ Carries(b, rec)
  PROVE  Carries(a \o b, rec)
<1>0. PICK m \in Nat : m = Len(rec.emitted)
  BY ConcatIsSeq
<1>1. /\ Len(a) \in Nat /\ Len(b) \in Nat
      /\ DOMAIN a = 1..Len(a) /\ DOMAIN b = 1..Len(b)
      /\ Len(a \o b) = Len(a) + Len(b)
      /\ DOMAIN (a \o b) = 1..(Len(a) + Len(b))
      /\ \A i \in 1..Len(a) : (a \o b)[i] = a[i]
      /\ \A i \in 1..Len(b) : (a \o b)[Len(a) + i] = b[i]
  BY ConcatIsSeq
<1>2. CASE Carries(a, rec)
  <2>1. PICK n \in 1..Len(a) :
          /\ a[n] = LogMsg(rec) /\ n + m <= Len(a)
          /\ \A k \in 1..m :
               /\ a[n + k].topic = rec.emitted[k] /\ a[n + k].index = k - 1
               /\ a[n + k].rid = rec.request_id /\ a[n + k].seq = rec.sequence
    BY <1>0, <1>1, <1>2 DEF Carries
  <2>2. n \in DOMAIN (a \o b) /\ (a \o b)[n] = a[n] /\ n + m <= Len(a \o b)
    BY <1>1, <2>1
  <2>3. \A k \in 1..m : (a \o b)[n + k] = a[n + k]
    BY <1>1, <2>1
  <2>4. /\ (a \o b)[n] = LogMsg(rec) /\ n + m <= Len(a \o b)
        /\ \A k \in 1..m :
             /\ (a \o b)[n + k].topic = rec.emitted[k] /\ (a \o b)[n + k].index = k - 1
             /\ (a \o b)[n + k].rid = rec.request_id /\ (a \o b)[n + k].seq = rec.sequence
    BY <2>1, <2>2, <2>3
  <2>5. n \in DOMAIN (a \o b)
    BY <2>2
  <2> QED BY ONLY <1>0, <2>4, <2>5 DEF Carries
<1>3. CASE Carries(b, rec)
  <2>1. PICK n \in 1..Len(b) :
          /\ b[n] = LogMsg(rec) /\ n + m <= Len(b)
          /\ \A k \in 1..m :
               /\ b[n + k].topic = rec.emitted[k] /\ b[n + k].index = k - 1
               /\ b[n + k].rid = rec.request_id /\ b[n + k].seq = rec.sequence
    BY <1>0, <1>1, <1>3 DEF Carries
  <2>2. PICK n2 \in Nat : n2 = Len(a) + n
    BY <1>1
  <2>3. n2 \in DOMAIN (a \o b) /\ (a \o b)[n2] = b[n] /\ n2 + m <= Len(a \o b)
    BY <1>1, <2>1, <2>2
  <2>4. \A k \in 1..m : (a \o b)[n2 + k] = b[n + k]
    <3> SUFFICES ASSUME NEW k \in 1..m PROVE (a \o b)[n2 + k] = b[n + k]
      OBVIOUS
    <3>1. n + k \in 1..Len(b) /\ n2 + k = Len(a) + (n + k)
      BY <1>1, <2>1, <2>2
    <3> QED BY <1>1, <3>1
  <2>5. /\ (a \o b)[n2] = LogMsg(rec) /\ n2 + m <= Len(a \o b)
        /\ \A k \in 1..m :
             /\ (a \o b)[n2 + k].topic = rec.emitted[k] /\ (a \o b)[n2 + k].index = k - 1
             /\ (a \o b)[n2 + k].rid = rec.request_id /\ (a \o b)[n2 + k].seq = rec.sequence
    BY <2>1, <2>3, <2>4
  <2>6. n2 \in DOMAIN (a \o b)
    BY <2>3
  <2> QED BY ONLY <1>0, <2>5, <2>6 DEF Carries
<1> QED BY <1>2, <1>3

\* Short tuples are sequences.
LEMMA TupleIsSeq ==
  /\ IsSeq(<<>>) /\ Len(<<>>) = 0
  /\ \A x : IsSeq(<<x>>) /\ Len(<<x>>) = 1 /\ <<x>>[1] = x
  /\ \A x, y : IsSeq(<<x, y>>) /\ Len(<<x, y>>) = 2
<1>1. IsSeq(<<>>)
  BY EmptySeq DEF IsSeq
<1>2. ASSUME NEW x PROVE IsSeq(<<x>>)
  <2>1. <<x>> \in Seq({x})
    OBVIOUS
  <2> QED BY <2>1 DEF IsSeq
<1>3. ASSUME NEW x, NEW y PROVE IsSeq(<<x, y>>)
  <2>1. <<x, y>> \in Seq({x, y})
    OBVIOUS
  <2> QED BY <2>1 DEF IsSeq
<1> QED BY <1>1, <1>2, <1>3

\* The lists of events that rows emit: none is the beginning of another, but for the
\* empty one.
EmitLists ==
  {<<>>, <<"gate.enforced">>, <<"request.failed">>, <<"routing.directive">>,
   <<"request.admitted", "gate.enforced">>, <<"request.rejected", "gate.enforced">>,
   <<"request.completed", "gate.enforced">>, <<"request.cancelled", "gate.enforced">>}

LEMMA EmitListFacts ==
  ASSUME NEW l \in EmitLists
  PROVE  IsSeq(l) /\ Len(l) \in 0..2 /\ \A k \in 1..Len(l) : l[k] \in Emissions
BY TupleIsSeq DEF EmitLists, Emissions

\* Two records that agree on what both emit first emit the same.
LEMMA EmitPrefix ==
  ASSUME NEW a \in EmitLists, NEW b \in EmitLists, a # <<>>,
         \A k \in 1..Len(a) : k <= Len(b) /\ a[k] = b[k]
  PROVE  a = b
BY DEF EmitLists

\* Every row emits one of them.
LEMMA RowEmits ==
  ASSUME NEW state, NEW event, NEW i \in 1..Len(Rows(state, event))
  PROVE  Rows(state, event)[i].emit \in EmitLists
<1> USE DEF NonTerminal, Terminal, Row, EmitLists
<1>1. CASE event = "request.cancelled"
  <2>1. Rows(state, event) = CancelRows(state)
    BY <1>1, Zenon DEF Rows
  <2> QED BY <2>1 DEF CancelRows, CancelRow
<1>2. CASE state = "created" /\ event # "request.cancelled"
  BY <1>2 DEF Rows
<1>3. CASE state = "initialized" /\ event # "request.cancelled"
  BY <1>3 DEF Rows
<1>4. CASE state = "scheduled" /\ event # "request.cancelled"
  BY <1>4 DEF Rows
<1>5. CASE state = "executing" /\ event # "request.cancelled"
  BY <1>5 DEF Rows
<1>6. CASE state = "verifying" /\ event # "request.cancelled"
  BY <1>6 DEF Rows
<1>7. CASE /\ state \notin {"created", "initialized", "scheduled", "executing", "verifying"}
           /\ event # "request.cancelled"
  BY <1>7 DEF Rows
<1> QED BY <1>1, <1>2, <1>3, <1>4, <1>5, <1>6, <1>7

LEMMA AdmissionEmits ==
  /\ \A i \in {1, 2} : Rows("created", "request.received")[i].emit \in EmitLists
  /\ \A i \in {1, 2} : Rows("initialized", "__routing__")[i].emit \in EmitLists
BY AdmissionRows DEF Row, EmitLists

\* A record of the log: only transitions emit, and only what a row lists.
RecordOK(rec) ==
  /\ rec.emitted \in EmitLists
  /\ rec.emitted # <<>> => IsTransition(rec)

\* A sequence of messages whose log messages hold such records.
MsgsOK(msgs) ==
  /\ IsSeq(msgs)
  /\ \A j \in 1..Len(msgs) : msgs[j].topic = LogTopic => RecordOK(msgs[j].body)

LEMMA MsgsConcat ==
  ASSUME NEW a, NEW b, MsgsOK(a), MsgsOK(b)
  PROVE  MsgsOK(a \o b)
<1>1. IsSeq(a) /\ IsSeq(b)
  BY DEF MsgsOK
<1>2. /\ Len(a) \in Nat /\ Len(b) \in Nat /\ IsSeq(a \o b)
      /\ Len(a \o b) = Len(a) + Len(b)
      /\ \A i \in 1..Len(a) : (a \o b)[i] = a[i]
      /\ \A i \in 1..Len(b) : (a \o b)[Len(a) + i] = b[i]
  BY ONLY <1>1, ConcatIsSeq
<1>3. ASSUME NEW j \in 1..Len(a \o b), (a \o b)[j].topic = LogTopic
      PROVE  RecordOK((a \o b)[j].body)
  <2>1. CASE j \in 1..Len(a)
    BY <1>2, <1>3, <2>1 DEF MsgsOK
  <2>2. CASE j \notin 1..Len(a)
    <3>1. PICK i \in 1..Len(b) : j = Len(a) + i
      <4>1. j - Len(a) \in 1..Len(b) /\ j = Len(a) + (j - Len(a))
        BY <1>2, <2>2
      <4> QED BY <4>1
    <3> QED BY <1>2, <1>3, <3>1 DEF MsgsOK
  <2> QED BY <2>1, <2>2
<1> QED BY <1>2, <1>3 DEF MsgsOK

\* A batch of one record that asks for no emission.
LEMMA SingleCarries ==
  ASSUME NEW rec, rec.emitted = <<>>
  PROVE  /\ IsSeq(<<LogMsg(rec)>>) /\ Carries(<<LogMsg(rec)>>, rec)
         /\ MsgsOK(<<LogMsg(rec)>>) /\ RecordOK(rec)
<1>1. PICK a : a = <<LogMsg(rec)>>
  OBVIOUS
<1>2. IsSeq(a) /\ Len(a) = 1 /\ a[1] = LogMsg(rec)
  BY <1>1, TupleIsSeq
<1>3. 1 \in DOMAIN a
  BY <1>2, ConcatIsSeq
<1>4. Len(rec.emitted) = 0
  BY TupleIsSeq
<1>5. Carries(a, rec)
  BY <1>2, <1>3, <1>4 DEF Carries
<1>6. RecordOK(rec)
  BY DEF RecordOK, EmitLists
<1>7. MsgsOK(a)
  BY <1>2, <1>6 DEF MsgsOK, LogMsg
<1> QED BY <1>1, <1>2, <1>5, <1>6, <1>7

\* The messages of a transition carry its record, and no other one.
LEMMA TransitionCarries ==
  ASSUME NEW rec, NEW row, RecordOK(rec), rec.emitted = row.emit, NEW decision
  PROVE  /\ MsgsOK(TransitionMsgs(rec, row, decision))
         /\ Carries(TransitionMsgs(rec, row, decision), rec)
<1>0. IsSeq(row.emit) /\ \A k \in 1..Len(row.emit) : row.emit[k] # LogTopic
  <2>1. row.emit \in EmitLists /\ LogTopic \notin Emissions
    BY DEF RecordOK, LogTopic, Emissions
  <2> QED BY <2>1, EmitListFacts
<1>1. PICK e : e = PublishRow(rec.request_id, rec.sequence, row, decision)
  OBVIOUS
<1>2. PICK m \in Nat : m = Len(row.emit)
  BY <1>0, ConcatIsSeq
<1>3. /\ e = [i \in 1..m |-> e[i]]
      /\ \A i \in 1..m : /\ e[i].topic = row.emit[i] /\ e[i].index = i - 1
                         /\ e[i].rid = rec.request_id /\ e[i].seq = rec.sequence
  BY <1>1, <1>2 DEF PublishRow, EmitMsg
<1>4. IsSeq(e) /\ Len(e) = m
  BY <1>3, FunIsSeq
<1>5. PICK a : a = <<LogMsg(rec)>>
  OBVIOUS
<1>6. IsSeq(a) /\ Len(a) = 1 /\ a[1] = LogMsg(rec)
  BY <1>5, TupleIsSeq
<1>7. PICK c : c = a \o e
  OBVIOUS
<1>8. /\ IsSeq(c) /\ DOMAIN c = 1..(1 + m) /\ Len(c) = 1 + m /\ c[1] = LogMsg(rec)
      /\ \A k \in 1..m : c[1 + k] = e[k]
  <2>1. /\ IsSeq(a \o e) /\ Len(a \o e) = Len(a) + Len(e)
        /\ DOMAIN (a \o e) = 1..(Len(a) + Len(e))
        /\ \A k \in 1..Len(a) : (a \o e)[k] = a[k]
        /\ \A k \in 1..Len(e) : (a \o e)[Len(a) + k] = e[k]
    <3>1. IsSeq(a) /\ IsSeq(e)
      BY <1>4, <1>6
    <3> QED BY ONLY <3>1, ConcatIsSeq
  <2> QED BY <1>4, <1>6, <1>7, <2>1
<1>9. Carries(c, rec)
  <2>1. 1 \in DOMAIN c /\ 1 + Len(rec.emitted) <= Len(c)
    BY <1>2, <1>8
  <2>2. \A k \in 1..Len(rec.emitted) :
          /\ c[1 + k].topic = rec.emitted[k] /\ c[1 + k].index = k - 1
          /\ c[1 + k].rid = rec.request_id /\ c[1 + k].seq = rec.sequence
    <3> SUFFICES ASSUME NEW k \in 1..m
                 PROVE  /\ c[1 + k].topic = rec.emitted[k] /\ c[1 + k].index = k - 1
                        /\ c[1 + k].rid = rec.request_id /\ c[1 + k].seq = rec.sequence
      BY <1>2
    <3>1. c[1 + k] = e[k]
      BY <1>8
    <3> QED BY <1>3, <3>1
  <2> QED BY <1>8, <2>1, <2>2 DEF Carries
<1>10. MsgsOK(a) /\ MsgsOK(e)
  <2>1. \A j \in 1..m : e[j].topic # LogTopic
    BY <1>0, <1>2, <1>3
  <2> QED BY <1>4, <1>6, <2>1 DEF MsgsOK, LogMsg
<1>11. MsgsOK(c)
  BY <1>7, <1>10, MsgsConcat
<1> QED BY <1>1, <1>5, <1>7, <1>9, <1>11 DEF TransitionMsgs

\* What one transition leaves: its record asks for the emissions of the row, and the
\* messages carry it.
LEMMA TransitionFacts ==
  ASSUME NEW rid, NEW entry, NEW event, NEW eid, NEW row, NEW ok, NEW version, NEW target,
         row.emit \in EmitLists,
         event \notin SessionEvents \cup {"config.changed", "__cleanup__"}
  PROVE  LET t == Transition(rid, entry, event, eid, row, ok, version, target) IN
         /\ MsgsOK(t.msgs) /\ Carries(t.msgs, t.rec) /\ RecordOK(t.rec)
         /\ t.rec.request_id = rid /\ t.rec.event = event /\ t.rec.verdict = "applied"
         /\ t.rec.prior_state = entry.lifecycle_state /\ t.rec.next_state = row.next
<1>1. PICK rec : rec = Record(rid, entry, event, eid, row, ok, version, target)
  OBVIOUS
<1>2. /\ rec.emitted = row.emit /\ rec.request_id = rid /\ rec.event = event
      /\ rec.verdict = "applied" /\ rec.prior_state = entry.lifecycle_state
      /\ rec.next_state = row.next
  BY <1>1 DEF Record
<1>3. PICK decision : decision = EmitDecision(row, ok)
  OBVIOUS
<1>4. PICK msgs : msgs = TransitionMsgs(rec, row, decision)
  OBVIOUS
<1>5. MsgsOK(msgs) /\ Carries(msgs, rec) /\ RecordOK(rec)
  <2>1. RecordOK(rec)
    BY <1>2 DEF RecordOK, IsTransition
  <2> QED BY <1>2, <1>4, <2>1, TransitionCarries
<1>6. PICK t : t = Transition(rid, entry, event, eid, row, ok, version, target)
  OBVIOUS
<1>7. t.rec = rec /\ t.msgs = msgs
  BY <1>1, <1>3, <1>4, <1>6 DEF Transition
<1> QED BY <1>2, <1>5, <1>6, <1>7

\* handle() logs the records recs and publishes msgs, which carry them.
Publishes(recs, msgs) ==
  /\ IsSeq(recs) /\ MsgsOK(msgs)
  /\ \A i \in 1..Len(recs) : RecordOK(recs[i]) /\ Carries(msgs, recs[i])
  /\ log' = log \o recs
  /\ SafePublish(msgs)

StepOK(t) == MsgsOK(t.msgs) /\ Carries(t.msgs, t.rec) /\ RecordOK(t.rec)

LEMMA StepMsgsOK ==
  ASSUME NEW steps, Len(steps) \in {1, 2}, \A i \in 1..Len(steps) : StepOK(steps[i])
  PROVE  /\ MsgsOK(StepMsgs(steps))
         /\ \A i \in 1..Len(steps) : Carries(StepMsgs(steps), steps[i].rec)
<1>1. PICK msgs : msgs = StepMsgs(steps)
  OBVIOUS
<1>2. CASE Len(steps) = 1
  BY <1>2 DEF StepMsgs, StepOK
<1>3. CASE Len(steps) = 2
  <2>1. PICK a : a = steps[1].msgs
    OBVIOUS
  <2>2. PICK b : b = steps[2].msgs
    OBVIOUS
  <2>3. msgs = a \o b
    BY <1>1, <1>3, <2>1, <2>2 DEF StepMsgs
  <2>4. PICK r1 : r1 = steps[1].rec
    OBVIOUS
  <2>5. PICK r2 : r2 = steps[2].rec
    OBVIOUS
  <2>6. /\ MsgsOK(a) /\ MsgsOK(b) /\ Carries(a, r1) /\ Carries(b, r2)
        /\ r1.emitted \in EmitLists /\ r2.emitted \in EmitLists
    BY <1>3, <2>1, <2>2, <2>4, <2>5 DEF StepOK, RecordOK
  <2>7. /\ IsSeq(a) /\ IsSeq(b) /\ IsSeq(r1.emitted) /\ IsSeq(r2.emitted)
    BY <2>6, EmitListFacts DEF MsgsOK
  <2>8. Carries(msgs, r1) /\ Carries(msgs, r2)
    BY ONLY <2>3, <2>6, <2>7, CarriesConcat
  <2>9. MsgsOK(msgs)
    BY <2>3, <2>6, MsgsConcat
  <2> QED BY <1>1, <1>3, <2>4, <2>5, <2>8, <2>9
<1> QED BY <1>2, <1>3

LEMMA CommitPublishes ==
  ASSUME NEW env, NEW steps, Commit(env, steps), Len(steps) \in {1, 2},
         \A i \in 1..Len(steps) : StepOK(steps[i])
  PROVE  \E recs, msgs : /\ Publishes(recs, msgs) /\ Len(recs) = Len(steps)
                         /\ \A i \in 1..Len(recs) : recs[i] = steps[i].rec
<1>1. PICK recs : recs = StepRecords(steps)
  OBVIOUS
<1>2. PICK n \in Nat : n = Len(steps)
  OBVIOUS
<1>3. recs = [i \in 1..n |-> recs[i]] /\ \A i \in 1..n : recs[i] = steps[i].rec
  BY <1>1, <1>2 DEF StepRecords
<1>4. IsSeq(recs) /\ Len(recs) = n
  BY <1>3, FunIsSeq
<1>5. PICK msgs : msgs = StepMsgs(steps)
  OBVIOUS
<1>6. MsgsOK(msgs) /\ \A i \in 1..n : Carries(msgs, recs[i]) /\ RecordOK(recs[i])
  <2>0. /\ MsgsOK(StepMsgs(steps))
        /\ \A i \in 1..Len(steps) : Carries(StepMsgs(steps), steps[i].rec)
    BY StepMsgsOK
  <2>1. MsgsOK(msgs) /\ \A i \in 1..n : Carries(msgs, steps[i].rec)
    BY <1>2, <1>5, <2>0
  <2>2. \A i \in 1..n : RecordOK(steps[i].rec)
    BY <1>2 DEF StepOK
  <2> QED BY <1>3, <2>1, <2>2
<1>7. log' = log \o recs /\ SafePublish(msgs)
  BY <1>1, <1>5 DEF Commit
<1> QED BY <1>2, <1>3, <1>4, <1>6, <1>7 DEF Publishes

\* A record of the request of env that is neither a verdict nor a completion.
Neutral(rec, env) ==
  rec.request_id = env.request_id /\ ~IsVerdict(rec) /\ ~Completes(rec)

LEMMA NoopSteps ==
  ASSUME NEW env
  PROVE  /\ Len(Noop(env)) = 1 /\ StepOK(Noop(env)[1])
         /\ Neutral(Noop(env)[1].rec, env) /\ Noop(env)[1].rec.event = env.event_name
<1>1. PICK steps : steps = Noop(env)
  OBVIOUS
<1>2. PICK rec : rec = steps[1].rec
  OBVIOUS
<1>3. /\ Len(steps) = 1
      /\ steps[1].msgs = <<LogMsg(rec)>> /\ rec.emitted = <<>>
      /\ rec.request_id = env.request_id /\ rec.event = env.event_name
      /\ rec.verdict = "duplicate" /\ rec.prior_state = rec.next_state
  BY <1>1, <1>2 DEF Noop
<1>4. StepOK(steps[1])
  BY <1>2, <1>3, SingleCarries DEF StepOK
<1>5. Neutral(rec, env)
  BY <1>3 DEF Neutral, IsVerdict, Completes
<1> QED BY <1>1, <1>2, <1>3, <1>4, <1>5

LEMMA DuplicatePublishes ==
  ASSUME NEW env, HandleDuplicate(env)
  PROVE  \E recs, msgs : /\ Publishes(recs, msgs)
                         /\ \A i \in 1..Len(recs) : /\ Neutral(recs[i], env)
                                                    /\ recs[i].event = env.event_name
<1>1. Commit(env, Noop(env))
  BY DEF HandleDuplicate
<1>2. PICK steps : steps = Noop(env)
  OBVIOUS
<1>3. /\ Len(steps) = 1 /\ StepOK(steps[1])
      /\ Neutral(steps[1].rec, env) /\ steps[1].rec.event = env.event_name
  BY <1>2, NoopSteps
<1>4. \A i \in 1..Len(steps) : StepOK(steps[i])
  BY <1>3
<1>5. PICK recs, msgs : /\ Publishes(recs, msgs) /\ Len(recs) = Len(steps)
                        /\ \A i \in 1..Len(recs) : recs[i] = steps[i].rec
  BY <1>1, <1>2, <1>3, <1>4, CommitPublishes
<1> QED BY <1>3, <1>5

LEMMA AdmitSteps ==
  ASSUME NEW env
  PROVE  /\ Len(Admit(env)) \in {1, 2}
         /\ \A i \in 1..Len(Admit(env)) :
              StepOK(Admit(env)[i]) /\ Neutral(Admit(env)[i].rec, env)
<1>1. /\ "request.received" \notin SessionEvents \cup {"config.changed", "__cleanup__"}
      /\ "__routing__" \notin SessionEvents \cup {"config.changed", "__cleanup__"}
  BY DEF SessionEvents
<1>2. PICK steps : steps = Admit(env)
  OBVIOUS
<1>3. PICK row : row = Rows("created", "request.received")[IF AdmissionOk(env) THEN 1 ELSE 2]
  OBVIOUS
<1>4. row.emit \in EmitLists /\ row.next \in {"initialized", "failed"}
  BY <1>3, AdmissionRows, AdmissionEmits DEF Row
<1>5. PICK first : first = AdmissionTransition(env)
  OBVIOUS
<1>6. /\ StepOK(first) /\ Neutral(first.rec, env)
  <2>1. PICK n, ok, v : first = Transition(env.request_id, n, "request.received", env.event_id,
                                           row, ok, v, NoTarget)
    BY <1>3, <1>5 DEF AdmissionTransition
  <2>2. /\ MsgsOK(first.msgs) /\ Carries(first.msgs, first.rec) /\ RecordOK(first.rec)
        /\ first.rec.request_id = env.request_id /\ first.rec.event = "request.received"
        /\ first.rec.next_state = row.next
    BY <1>1, <1>4, <2>1, TransitionFacts
  <2> QED BY <1>4, <2>2 DEF StepOK, Neutral, IsVerdict, Completes
<1>7. Len(steps) \in {1, 2}
      /\ \A i \in 1..Len(steps) : StepOK(steps[i]) /\ Neutral(steps[i].rec, env)
  <2>1. CASE ~AdmissionOk(env)
    BY <1>2, <1>5, <1>6, <2>1 DEF Admit
  <2>2. CASE AdmissionOk(env)
    <3>1. PICK second : second = RoutingTransition(env, first.entry)
      OBVIOUS
    <3>2. PICK k, ok, v, target :
            k \in {1, 2} /\ second = Transition(env.request_id, first.entry, "__routing__", env.event_id,
                                Rows("initialized", "__routing__")[k], ok, v, target)
      BY <3>1 DEF RoutingTransition
    <3>3. PICK row2 : row2 = Rows("initialized", "__routing__")[k]
      OBVIOUS
    <3>4. row2.emit \in EmitLists /\ row2.next \in {"scheduled", "failed"}
      BY <3>2, <3>3, AdmissionRows, AdmissionEmits DEF Row
    <3>5. /\ MsgsOK(second.msgs) /\ Carries(second.msgs, second.rec)
          /\ RecordOK(second.rec)
          /\ second.rec.request_id = env.request_id /\ second.rec.event = "__routing__"
          /\ second.rec.next_state = row2.next
      BY <1>1, <3>2, <3>3, <3>4, TransitionFacts
    <3>6. StepOK(second) /\ Neutral(second.rec, env)
      BY <3>4, <3>5 DEF StepOK, Neutral, IsVerdict, Completes
    <3>7. Len(steps) = 2 /\ steps[1] = first /\ steps[2] = second
      BY <1>2, <1>5, <2>2, <3>1 DEF Admit
    <3> QED BY <1>6, <3>6, <3>7
  <2> QED BY <2>1, <2>2
<1> QED BY <1>2, <1>7

LEMMA AdmitPublishes ==
  ASSUME NEW env, HandleAdmit(env)
  PROVE  \E recs, msgs : /\ Publishes(recs, msgs)
                         /\ \A i \in 1..Len(recs) : Neutral(recs[i], env)
<1>1. Commit(env, Admit(env))
  BY DEF HandleAdmit
<1>2. PICK steps : steps = Admit(env)
  OBVIOUS
<1>3. \E recs, msgs : /\ Publishes(recs, msgs) /\ Len(recs) = Len(steps)
                      /\ \A i \in 1..Len(recs) : recs[i] = steps[i].rec
  BY <1>1, <1>2, AdmitSteps, CommitPublishes
<1> QED BY <1>2, <1>3, AdmitSteps

\* _apply finds a row, whatever state the request is in.
LEMMA ApplySteps ==
  ASSUME NEW env, env.event_name \in RequestEvents,
         Rows(ledger[env.request_id].lifecycle_state, env.event_name) # <<>>
  PROVE  Len(Apply(env)) = 1 /\ StepOK(Apply(env)[1])
<1>1. PICK entry : entry = ledger[env.request_id]
  OBVIOUS
<1>2. PICK cfg : cfg = PinnedConfig(entry)
  OBVIOUS
<1>3. PICK rows : rows = Rows(entry.lifecycle_state, env.event_name)
  OBVIOUS
<1>4. PICK i : i = PickRow(rows, entry, cfg)
  OBVIOUS
<1>5. i \in 1..Len(rows) /\ rows[i].emit \in EmitLists
  BY <1>1, <1>3, <1>4, PickRowFacts, RowEmits
<1>6. PICK row : row = rows[i]
  OBVIOUS
<1>7. PICK t : t = Transition(env.request_id, entry, env.event_name, env.event_id, row,
                              GuardResult(row, i), cfg.version, NoTarget)
  OBVIOUS
<1>8. env.event_name \notin SessionEvents \cup {"config.changed", "__cleanup__"}
  BY DEF RequestEvents, SessionEvents
<1>9. MsgsOK(t.msgs) /\ Carries(t.msgs, t.rec) /\ RecordOK(t.rec)
  BY <1>5, <1>6, <1>7, <1>8, TransitionFacts
<1>10. PICK steps : steps = Apply(env)
  OBVIOUS
<1>11. Len(steps) = 1 /\ steps[1] = t
  BY <1>1, <1>2, <1>3, <1>4, <1>6, <1>7, <1>10 DEF Apply
<1> QED BY <1>9, <1>10, <1>11 DEF StepOK

\* A completing row either is a passed verdict or finds one recorded.
LEMMA ApplyPublishes ==
  ASSUME KernelOK, NEW eid \in Nat, NEW env \in Envelopes(eid), HandleApply(env)
  PROVE  \E recs, msgs :
           /\ Publishes(recs, msgs) /\ Len(recs) = 1
           /\ recs[1].request_id = env.request_id /\ recs[1].event = env.event_name
           /\ recs[1].verdict = "applied"
           /\ Completes(recs[1]) =>
                \/ env.event_name = "verify.passed"
                \/ /\ env.event_name # "verify.failed"
                   /\ ledger[env.request_id].verdict = "passed"
<1>1. /\ env.request_id \in Rids /\ env.event_name \in RequestEvents \ {"request.received"}
      /\ Commit(env, Apply(env))
      /\ Rows(ledger[env.request_id].lifecycle_state, env.event_name) # <<>>
  BY EnvelopeFacts DEF HandleApply
<1>2. PICK entry \in Entry : entry = ledger[env.request_id] /\ EntryOK(entry)
  BY <1>1 DEF KernelOK
<1>3. PICK cfg : cfg = PinnedConfig(entry)
  OBVIOUS
<1>4. PICK rows : rows = Rows(entry.lifecycle_state, env.event_name)
  OBVIOUS
<1>5. PICK i : i = PickRow(rows, entry, cfg)
  OBVIOUS
<1>6. entry.lifecycle_state \in States \ {"created", "initialized"}
  BY <1>2 DEF EntryOK, Entry
<1>7. i \in 1..Len(rows) /\ Guard(rows[i].when, entry, cfg)
  BY <1>1, <1>2, <1>4, <1>5, <1>6, PickRowFacts
<1>8. PICK row : row = rows[i]
  OBVIOUS
<1>9. /\ row.action = "record_verdict" <=> env.event_name \in {"verify.passed", "verify.failed"}
      /\ row.next = "completed" =>
           \/ entry.lifecycle_state = "completed" /\ row.action = "none"
           \/ row.action = "record_verdict" /\ env.event_name = "verify.passed"
           \/ row.when = "gate:completion" /\ row.action = "none"
  BY <1>1, <1>4, <1>6, <1>7, <1>8, RowFacts
<1>10. row.when = "gate:completion" => entry.verdict = "passed"
  BY <1>7, <1>8 DEF Guard, CompletionGate
<1>11. /\ row.emit \in EmitLists
       /\ env.event_name \notin SessionEvents \cup {"config.changed", "__cleanup__"}
  BY <1>1, <1>4, <1>7, <1>8, RowEmits DEF RequestEvents, SessionEvents
<1>12. PICK t : t = Transition(env.request_id, entry, env.event_name, env.event_id, row,
                               GuardResult(row, i), cfg.version, NoTarget)
  OBVIOUS
<1>13. /\ MsgsOK(t.msgs) /\ Carries(t.msgs, t.rec) /\ RecordOK(t.rec)
       /\ t.rec.request_id = env.request_id /\ t.rec.event = env.event_name
       /\ t.rec.verdict = "applied"
       /\ t.rec.prior_state = entry.lifecycle_state /\ t.rec.next_state = row.next
  BY <1>11, <1>12, TransitionFacts
<1>14. PICK steps : steps = Apply(env)
  OBVIOUS
<1>15. Len(steps) = 1 /\ steps[1] = t
  BY <1>2, <1>3, <1>4, <1>5, <1>8, <1>12, <1>14 DEF Apply
<1>16. StepOK(steps[1])
  BY <1>13, <1>15 DEF StepOK
<1>17. PICK recs, msgs : Publishes(recs, msgs) /\ Len(recs) = 1 /\ recs[1] = t.rec
  <2>1. \E recs, msgs : /\ Publishes(recs, msgs) /\ Len(recs) = Len(steps)
                        /\ \A j \in 1..Len(recs) : recs[j] = steps[j].rec
    BY <1>1, <1>14, <1>15, <1>16, CommitPublishes
  <2> QED BY <1>15, <2>1
<1>18. Completes(recs[1]) =>
         \/ env.event_name = "verify.passed"
         \/ env.event_name # "verify.failed" /\ entry.verdict = "passed"
  BY <1>9, <1>10, <1>13, <1>17 DEF Completes
<1> QED BY <1>2, <1>13, <1>17, <1>18

\* A record that no property of the log is about.
Harmless(rec) ==
  ~IsVerdict(rec) /\ ~Completes(rec) /\ rec.event # "request.received"

LEMMA ConfigPublishes ==
  ASSUME NEW env, HandleConfig(env), ~Fault
  PROVE  \E recs, msgs : /\ Publishes(recs, msgs)
                         /\ \A i \in 1..Len(recs) : Harmless(recs[i])
<1>1. PICK rec : /\ rec = SystemRecord("config.changed", env.snapshot.version, env.snapshot)
                 /\ log' = Append(log, rec) /\ SafePublish(<<LogMsg(rec)>>)
  BY DEF HandleConfig
<1>2. Harmless(rec) /\ rec.emitted = <<>>
  BY <1>1 DEF SystemRecord, Harmless, IsVerdict, Completes
<1>3. PICK recs : recs = <<rec>>
  OBVIOUS
<1>4. PICK msgs : msgs = <<LogMsg(rec)>>
  OBVIOUS
<1>5. MsgsOK(msgs) /\ Carries(msgs, rec) /\ RecordOK(rec)
  BY <1>2, <1>4, SingleCarries
<1>6. IsSeq(recs) /\ Len(recs) = 1 /\ recs[1] = rec
  BY <1>3, TupleIsSeq
<1>7. log' = log \o recs
  BY <1>1, <1>3
<1>8. \A i \in 1..Len(recs) : recs[i] = rec
  BY <1>6
<1>9. Publishes(recs, msgs)
  BY <1>1, <1>4, <1>5, <1>6, <1>7, <1>8 DEF Publishes
<1> QED BY <1>2, <1>8, <1>9

\* The iteration over the finite set of evicted requests is a sequence.
LEMMA SetToSeqLen ==
  ASSUME NEW S, IsFiniteSet(S)
  PROVE  Len(SetToSeq(S)) \in Nat
<1>1. PICK n \in Nat : n = Cardinality(S)
  BY FS_CardinalityType
<1>2. Bijection(1..n, S) # {}
  BY <1>1, FS_CardinalityType DEF ExistsBijection
<1>3. PICK f : f \in Bijection(1..n, S)
  BY <1>2
<1>4. f \in [1..n -> S] /\ IsInjective(f)
  BY <1>3 DEF Bijection, Injection
<1>5. SetToSeq(S) \in [1..n -> S]
  BY <1>1, <1>4 DEF SetToSeq
<1> QED BY <1>5

LEMMA Prepended ==
  ASSUME NEW x, NEW b, IsSeq(b), NEW s, s = <<x>> \o b
  PROVE  /\ IsSeq(s) /\ Len(s) = 1 + Len(b) /\ Len(b) \in Nat
         /\ s[1] = x /\ \A i \in 1..Len(b) : s[1 + i] = b[i]
<1>1. PICK a : a = <<x>>
  OBVIOUS
<1>2. IsSeq(b) /\ IsSeq(a) /\ Len(a) = 1 /\ a[1] = x
  BY <1>1, TupleIsSeq
<1>3. IsSeq(a) /\ IsSeq(b)
  BY <1>2
<1>4. /\ IsSeq(a \o b) /\ Len(a \o b) = Len(a) + Len(b)
      /\ Len(b) \in Nat
      /\ \A i \in 1..Len(a) : (a \o b)[i] = a[i]
      /\ \A i \in 1..Len(b) : (a \o b)[Len(a) + i] = b[i]
  BY ONLY <1>3, ConcatIsSeq
<1> QED BY <1>1, <1>2, <1>4

LEMMA SessionRecordFacts ==
  ASSUME NEW name \in SessionEvents, IsFiniteSet(Admitted)
  PROVE  LET recs == SessionRecords(name) IN
         IsSeq(recs) /\ \A i \in 1..Len(recs) : Harmless(recs[i]) /\ recs[i].emitted = <<>>
<1>1. PICK recs : recs = SessionRecords(name)
  OBVIOUS
<1>4. PICK first : first = SystemRecord(name, config.version, NoSnapshot)
  OBVIOUS
<1>5. Harmless(first) /\ first.emitted = <<>>
  BY <1>4 DEF SystemRecord, Harmless, IsVerdict, Completes, SessionEvents
<1>6. \A rid : Harmless(CleanupRecord(rid)) /\ CleanupRecord(rid).emitted = <<>>
  BY DEF CleanupRecord, SystemRecord, Harmless, IsVerdict, Completes
<1>9. PICK rids : rids = SetToSeq(TerminalRids)
  OBVIOUS
<1>10. PICK n \in Nat : n = Len(rids)
  <2>1. TerminalRids \in SUBSET Admitted
    BY DEF TerminalRids, Admitted, InLedger, Terminal
  <2> QED BY <1>9, <2>1, FS_Subset, SetToSeqLen
<1>11. PICK rest : rest = IF name = "session.sleep"
                            THEN [i \in 1..n |-> CleanupRecord(rids[i])] ELSE <<>>
  OBVIOUS
<1>12. /\ IsSeq(rest)
       /\ \A i \in 1..Len(rest) : Harmless(rest[i]) /\ rest[i].emitted = <<>>
  <2>1. CASE name = "session.sleep"
    <3>1. rest = [i \in 1..n |-> rest[i]] /\ \A i \in 1..n : rest[i] = CleanupRecord(rids[i])
      BY <1>11, <2>1
    <3>2. IsSeq(rest) /\ Len(rest) = n
      BY <3>1, FunIsSeq
    <3> QED BY <1>6, <3>1, <3>2
  <2>2. CASE name # "session.sleep"
    <3>1. rest = <<>>
      BY <1>11, <2>2
    <3>2. IsSeq(rest) /\ Len(rest) = 0
      BY <3>1, TupleIsSeq
    <3> QED BY <3>2
  <2> QED BY <2>1, <2>2
<1>13. recs = <<first>> \o rest
  BY <1>1, <1>4, <1>9, <1>10, <1>11 DEF SessionRecords
<1>14. /\ IsSeq(recs) /\ Len(recs) = 1 + Len(rest) /\ Len(rest) \in Nat
       /\ recs[1] = first /\ \A i \in 1..Len(rest) : recs[1 + i] = rest[i]
  <2>1. IsSeq(rest)
    BY <1>12
  <2>2. /\ IsSeq(recs) /\ Len(recs) = 1 + Len(rest) /\ Len(rest) \in Nat
        /\ recs[1] = first
    BY ONLY <1>13, <2>1, Prepended
  <2>3. \A i \in 1..Len(rest) : recs[1 + i] = rest[i]
    BY ONLY <1>13, <2>1, Prepended
  <2> QED BY <2>2, <2>3
<1>15. \A i \in 1..Len(recs) : Harmless(recs[i]) /\ recs[i].emitted = <<>>
  <2> SUFFICES ASSUME NEW i \in 1..Len(recs)
               PROVE  Harmless(recs[i]) /\ recs[i].emitted = <<>>
    OBVIOUS
  <2>1. CASE i = 1
    BY <1>5, <1>14, <2>1
  <2>2. CASE i # 1
    <3>1. PICK j \in 1..Len(rest) : i = 1 + j
      <4>1. i - 1 \in 1..Len(rest) /\ i = 1 + (i - 1)
        BY <1>14, <2>2
      <4> QED BY <4>1
    <3> QED BY <1>12, <1>14, <3>1
  <2> QED BY <2>1, <2>2
<1> QED BY <1>1, <1>14, <1>15

\* The log messages of records that emit nothing.
LEMMA LogMsgsOK ==
  ASSUME NEW recs, NEW m \in Nat, \A i \in 1..m : recs[i].emitted = <<>>
  PROVE  LET msgs == [i \in 1..m |-> LogMsg(recs[i])] IN
         MsgsOK(msgs) /\ \A i \in 1..m : RecordOK(recs[i]) /\ Carries(msgs, recs[i])
<1>1. PICK msgs : msgs = [i \in 1..m |-> LogMsg(recs[i])]
  OBVIOUS
<1>2. /\ IsSeq(msgs) /\ Len(msgs) = m /\ DOMAIN msgs = 1..m
      /\ \A i \in 1..m : msgs[i] = LogMsg(recs[i])
  <2>1. msgs = [i \in 1..m |-> msgs[i]] /\ \A i \in 1..m : msgs[i] = LogMsg(recs[i])
    BY <1>1
  <2> QED BY <2>1, FunIsSeq
<1>3. \A i \in 1..m : Carries(msgs, recs[i]) /\ RecordOK(recs[i])
  <2> SUFFICES ASSUME NEW i \in 1..m PROVE Carries(msgs, recs[i]) /\ RecordOK(recs[i])
    OBVIOUS
  <2>1. recs[i].emitted = <<>> /\ Len(recs[i].emitted) = 0
    BY TupleIsSeq
  <2>2. i \in DOMAIN msgs /\ msgs[i] = LogMsg(recs[i]) /\ i + 0 <= Len(msgs)
    BY <1>2
  <2>3. Carries(msgs, recs[i])
    BY <2>1, <2>2 DEF Carries
  <2> QED BY <2>1, <2>3 DEF RecordOK, EmitLists
<1>4. MsgsOK(msgs)
  BY <1>2, <1>3 DEF MsgsOK, LogMsg
<1> QED BY <1>1, <1>3, <1>4

LEMMA SessionPublishes ==
  ASSUME NEW env, HandleSession(env), IsFiniteSet(Admitted)
  PROVE  \E recs, msgs : /\ Publishes(recs, msgs)
                         /\ \A i \in 1..Len(recs) : Harmless(recs[i])
<1>1. PICK recs : recs = SessionRecords(env.event_name)
  OBVIOUS
<1>2. PICK msgs : msgs = [i \in 1..Len(recs) |-> LogMsg(recs[i])]
  OBVIOUS
<1>3. log' = log \o recs /\ SafePublish(msgs) /\ env.event_name \in SessionEvents
  BY <1>1, <1>2 DEF HandleSession
<1>4. IsSeq(recs) /\ \A i \in 1..Len(recs) : Harmless(recs[i]) /\ recs[i].emitted = <<>>
  BY <1>1, <1>3, SessionRecordFacts
<1>5. PICK m \in Nat : m = Len(recs)
  BY <1>4, ConcatIsSeq
<1>6. MsgsOK(msgs) /\ \A i \in 1..m : RecordOK(recs[i]) /\ Carries(msgs, recs[i])
  BY <1>2, <1>4, <1>5, LogMsgsOK
<1> QED BY <1>3, <1>4, <1>5, <1>6 DEF Publishes

-----------------------------------------------------------------------------
(* The inductive invariant of the log.                                     *)

\* The log is a sequence, and unless admission is halted the bus carries all of it.
BusInv ==
  /\ IsSeq(log)
  /\ \A i \in 1..Len(log) : IsSeq(log[i].emitted)
  /\ halted \/ (IsSeq(bus) /\ \A i \in 1..Len(log) : Carries(bus, log[i]))

\* Record j of the log is the passed verdict of request r, and the latest.
Earned(r, j) ==
  /\ log[j].event = "verify.passed" /\ log[j].verdict = "applied" /\ log[j].request_id = r
  /\ \A k \in j+1..Len(log) : log[k].request_id = r =>
       ~IsVerdict(log[k]) /\ log[k].event # "request.received"

\* A recorded passed verdict is in the log.
VerdictLogged ==
  \A r \in Rids : ledger[r].verdict = "passed" => \E j \in 1..Len(log) : Earned(r, j)

\* Event ids are given out in order, and an admission that is still to be delivered
\* a second time has been followed by nothing that a duplicate of it could hide.
EidInv ==
  /\ \A r \in Rids : ledger[r].last_applied_event_id # NoEvent
                       => ledger[r].last_applied_event_id < next_eid
  /\ pending # NoEvent => pending.event_id < next_eid
PendingInv ==
  pending # NoEvent /\ pending.event_name = "request.received" /\ IsDuplicate(pending)
    => ledger[pending.request_id].verdict = "none"

LogInv == BusInv /\ VerdictLogged /\ VerifiedCompletion

LEMMA InitLogInv == Init => LogInv /\ EidInv /\ PendingInv
<1> SUFFICES ASSUME Init PROVE LogInv /\ EidInv /\ PendingInv
  OBVIOUS
<1>1. IsSeq(log) /\ Len(log) = 0 /\ IsSeq(bus)
  BY TupleIsSeq DEF Init
<1>2. DOMAIN log = 1..Len(log)
  BY <1>1, ConcatIsSeq
<1>3. \A r \in Rids : ledger[r].verdict = "none" /\ ledger[r].last_applied_event_id = NoEvent
  BY DEF Init, Absent
<1>4. pending = NoEvent
  BY DEF Init
<1> QED BY <1>1, <1>2, <1>3, <1>4
        DEF LogInv, BusInv, VerdictLogged, VerifiedCompletion, EidInv, PendingInv

\* What handle() leaves of the log it found.
LEMMA LogGrows ==
  ASSUME NEW recs, NEW msgs, Publishes(recs, msgs), IsSeq(log)
  PROVE  /\ Len(log) \in Nat /\ Len(recs) \in Nat
         /\ Len(log') = Len(log) + Len(recs)
         /\ DOMAIN log' = 1..Len(log')
         /\ \A i \in 1..Len(log) : log'[i] = log[i]
         /\ \A i \in 1..Len(recs) : log'[Len(log) + i] = recs[i]
         /\ \A i \in 1..Len(log') :
              i \in 1..Len(log) \/ \E k \in 1..Len(recs) : i = Len(log) + k
<1>1. IsSeq(recs) /\ log' = log \o recs
  BY DEF Publishes
<1>2. /\ Len(log) \in Nat /\ Len(recs) \in Nat
      /\ Len(log \o recs) = Len(log) + Len(recs)
      /\ DOMAIN (log \o recs) = 1..(Len(log) + Len(recs))
      /\ \A i \in 1..Len(log) : (log \o recs)[i] = log[i]
      /\ \A i \in 1..Len(recs) : (log \o recs)[Len(log) + i] = recs[i]
  BY ONLY <1>1, ConcatIsSeq, IsSeq(log)
<1>3. \A i \in 1..Len(log) + Len(recs) :
        i \in 1..Len(log) \/ \E k \in 1..Len(recs) : i = Len(log) + k
  <2> SUFFICES ASSUME NEW i \in 1..Len(log) + Len(recs), i \notin 1..Len(log)
               PROVE  \E k \in 1..Len(recs) : i = Len(log) + k
    OBVIOUS
  <2>1. i - Len(log) \in 1..Len(recs) /\ i = Len(log) + (i - Len(log))
    BY <1>2
  <2> QED BY <2>1
<1> QED BY <1>1, <1>2, <1>3

LEMMA PublishBusInv ==
  ASSUME NEW recs, NEW msgs, Publishes(recs, msgs), BusInv, halted \in BOOLEAN
  PROVE  BusInv'
<1>1. /\ IsSeq(log) /\ IsSeq(recs) /\ IsSeq(msgs) /\ log' = log \o recs
      /\ \A i \in 1..Len(recs) : IsSeq(recs[i].emitted) /\ Carries(msgs, recs[i])
  BY EmitListFacts DEF Publishes, BusInv, MsgsOK, RecordOK
<1>2. IsSeq(log')
  BY <1>1, ConcatIsSeq
<1>3. \A i \in 1..Len(log') : \/ i \in 1..Len(log) /\ log'[i] = log[i]
                              \/ \E k \in 1..Len(recs) : log'[i] = recs[k]
  BY <1>1, LogGrows
<1>4. \A i \in 1..Len(log') : IsSeq(log'[i].emitted)
  BY <1>1, <1>3 DEF BusInv
<1>5. ASSUME ~halted' PROVE IsSeq(bus') /\ \A i \in 1..Len(log') : Carries(bus', log'[i])
  <2>1. ~halted /\ ~Refused(msgs)
    BY <1>5 DEF Publishes, SafePublish
  <2>2. bus' = bus \o msgs
    BY <2>1 DEF Publishes, SafePublish, Accepted
  <2>3. IsSeq(bus) /\ \A i \in 1..Len(log) : Carries(bus, log[i])
    BY <2>1 DEF BusInv
  <2>4. IsSeq(bus')
    BY <1>1, <2>2, <2>3, ConcatIsSeq
  <2>5. ASSUME NEW i \in 1..Len(log') PROVE Carries(bus', log'[i])
    <3>1. IsSeq(log'[i].emitted) /\ (Carries(bus, log'[i]) \/ Carries(msgs, log'[i]))
      BY <1>1, <1>3, <1>4, <2>3
    <3> QED BY <1>1, <2>2, <2>3, <3>1, CarriesConcat
  <2> QED BY <2>4, <2>5
<1>6. halted' \in BOOLEAN
  BY Zenon DEF Publishes, SafePublish
<1> QED BY <1>2, <1>4, <1>5, <1>6 DEF BusInv

\* A verdict stays the latest one of its request until a record says otherwise.
LEMMA EarnedKept ==
  ASSUME NEW recs, NEW msgs, Publishes(recs, msgs), IsSeq(log),
         NEW r, NEW j \in 1..Len(log), Earned(r, j),
         \A i \in 1..Len(recs) : recs[i].request_id = r =>
           ~IsVerdict(recs[i]) /\ recs[i].event # "request.received"
  PROVE  j \in 1..Len(log') /\ Earned(r, j)'
<1>1. /\ Len(log) \in Nat /\ Len(recs) \in Nat
      /\ Len(log') = Len(log) + Len(recs)
      /\ \A i \in 1..Len(log) : log'[i] = log[i]
      /\ \A i \in 1..Len(recs) : log'[Len(log) + i] = recs[i]
      /\ \A i \in 1..Len(log') :
           i \in 1..Len(log) \/ \E k \in 1..Len(recs) : i = Len(log) + k
  BY LogGrows
<1>2. j \in 1..Len(log') /\ log'[j] = log[j]
  BY <1>1
<1>3. ASSUME NEW k \in j+1..Len(log'), log'[k].request_id = r
      PROVE  ~IsVerdict(log'[k]) /\ log'[k].event # "request.received"
  <2>1. CASE k \in 1..Len(log)
    <3>1. log'[k] = log[k] /\ k \in j+1..Len(log)
      BY <1>1, <2>1
    <3> QED BY <1>3, <3>1 DEF Earned
  <2>2. CASE \E i \in 1..Len(recs) : k = Len(log) + i
    BY <1>1, <1>3, <2>2
  <2>3. k \in 1..Len(log')
    BY <1>1
  <2> QED BY <1>1, <2>1, <2>2, <2>3
<1> QED BY <1>2, <1>3 DEF Earned

\* Completions already in the log keep their verdict.
LEMMA CompletionKept ==
  ASSUME NEW recs, NEW msgs, Publishes(recs, msgs), IsSeq(log), VerifiedCompletion,
         NEW n, n = Len(log),
         \A k \in 1..Len(recs) : Completes(recs[k]) =>
           \E j \in 1..n + k : LatestVerdict(n + k, j)' /\ log'[j].event = "verify.passed"
  PROVE  VerifiedCompletion'
<1>1. /\ Len(log) \in Nat /\ Len(recs) \in Nat
      /\ Len(log') = Len(log) + Len(recs) /\ DOMAIN log' = 1..Len(log')
      /\ \A i \in 1..Len(log) : log'[i] = log[i]
      /\ \A i \in 1..Len(recs) : log'[Len(log) + i] = recs[i]
      /\ \A i \in 1..Len(log') :
           i \in 1..Len(log) \/ \E k \in 1..Len(recs) : i = Len(log) + k
  BY LogGrows
<1>2. DOMAIN log = 1..Len(log)
  BY ConcatIsSeq
<1>3. SUFFICES ASSUME NEW i \in 1..Len(log'), Completes(log'[i])
               PROVE  \E j \in 1..i : LatestVerdict(i, j)' /\ log'[j].event = "verify.passed"
  BY <1>1 DEF VerifiedCompletion
<1>4. CASE i \in 1..Len(log)
  <2>1. PICK j \in 1..i : LatestVerdict(i, j) /\ log[j].event = "verify.passed"
    BY <1>1, <1>2, <1>3, <1>4 DEF VerifiedCompletion
  <2>2. \A k \in 1..i : log'[k] = log[k]
    BY <1>1, <1>4
  <2>3. LatestVerdict(i, j)'
    <3>1. \A k \in j+1..i : log'[k] = log[k]
      BY <2>2
    <3>2. log'[i] = log[i] /\ log'[j] = log[j]
      BY <2>2
    <3> QED BY <2>1, <3>1, <3>2 DEF LatestVerdict
  <2> QED BY <2>1, <2>2, <2>3
<1>5. CASE \E k \in 1..Len(recs) : i = Len(log) + k
  <2>1. PICK k \in 1..Len(recs) : i = n + k
    BY <1>5
  <2>2. Completes(recs[k])
    BY <1>1, <1>3, <2>1
  <2> QED BY <2>1, <2>2
<1> QED BY <1>1, <1>4, <1>5

\* The ledger keeps its entries or evicts them, and the records concern no verdict.
LEMMA HarmlessLogInv ==
  ASSUME KernelOK, LogInv, NEW recs, NEW msgs, Publishes(recs, msgs),
         ledger' = ledger \/ Evicts,
         \A i \in 1..Len(recs) : Harmless(recs[i])
  PROVE  LogInv'
<1>1. BusInv'
  BY PublishBusInv DEF LogInv, KernelOK
<1>2. IsSeq(log)
  BY DEF LogInv, BusInv
<1>3. VerifiedCompletion'
  BY <1>2, CompletionKept DEF LogInv, Harmless
<1>4. ASSUME NEW r \in Rids, ledger'[r].verdict = "passed"
      PROVE  \E j \in 1..Len(log') : Earned(r, j)'
  <2>1. ledger[r].verdict = "passed"
    BY <1>4 DEF Evicts, Absent
  <2>2. PICK j \in 1..Len(log) : Earned(r, j)
    BY <2>1 DEF LogInv, VerdictLogged
  <2> QED BY <1>2, <2>2, EarnedKept DEF Harmless
<1> QED BY <1>1, <1>3, <1>4 DEF LogInv, VerdictLogged

LEMMA DuplicateLogInv ==
  ASSUME KernelOK, LogInv, NEW eid \in Nat, NEW env \in Envelopes(eid), HandleDuplicate(env),
         env.event_name = "request.received" => ledger[env.request_id].verdict = "none"
  PROVE  LogInv'
<1>1. PICK recs, msgs : /\ Publishes(recs, msgs)
                        /\ \A i \in 1..Len(recs) : /\ Neutral(recs[i], env)
                                                   /\ recs[i].event = env.event_name
  BY DuplicatePublishes
<1>2. BusInv' /\ IsSeq(log)
  BY <1>1, PublishBusInv DEF LogInv, KernelOK, BusInv
<1>3. VerifiedCompletion'
  BY <1>1, <1>2, CompletionKept DEF LogInv, Neutral
<1>4. ledger' = ledger
  <2>1. env.request_id \in Rids /\ Commit(env, Noop(env))
    BY EnvelopeFacts DEF HandleDuplicate
  <2>2. Len(Noop(env)) = 1 /\ Noop(env)[1].entry = ledger[env.request_id]
    BY DEF Noop
  <2>3. ledger' = [ledger EXCEPT ![env.request_id] = ledger[env.request_id]]
    BY <2>1, <2>2 DEF Commit
  <2> QED BY <2>1, <2>3 DEF KernelOK
<1>5. ASSUME NEW r \in Rids, ledger[r].verdict = "passed"
      PROVE  \E j \in 1..Len(log') : Earned(r, j)'
  <2>1. PICK j \in 1..Len(log) : Earned(r, j)
    BY <1>5 DEF LogInv, VerdictLogged
  <2>2. \A i \in 1..Len(recs) : recs[i].request_id = r =>
          ~IsVerdict(recs[i]) /\ recs[i].event # "request.received"
    BY <1>1, <1>5 DEF Neutral
  <2> QED BY <1>1, <1>2, <2>1, <2>2, EarnedKept
<1> QED BY <1>2, <1>3, <1>4, <1>5 DEF LogInv, VerdictLogged

LEMMA AdmitLogInv ==
  ASSUME KernelOK, LogInv, NEW eid \in Nat, NEW env \in Envelopes(eid), HandleAdmit(env)
  PROVE  LogInv'
<1>1. PICK recs, msgs : /\ Publishes(recs, msgs)
                        /\ \A i \in 1..Len(recs) : Neutral(recs[i], env)
  BY AdmitPublishes
<1>2. BusInv' /\ IsSeq(log)
  BY <1>1, PublishBusInv DEF LogInv, KernelOK, BusInv
<1>3. VerifiedCompletion'
  BY <1>1, <1>2, CompletionKept DEF LogInv, Neutral
<1>4. PICK e \in Entry : AdmittedAs(env, e) /\ ledger' = [ledger EXCEPT ![env.request_id] = e]
  BY AdmitLedger
<1>5. ASSUME NEW r \in Rids, ledger'[r].verdict = "passed"
      PROVE  \E j \in 1..Len(log') : Earned(r, j)'
  <2>1. r # env.request_id /\ ledger[r].verdict = "passed"
    BY <1>4, <1>5 DEF AdmittedAs, KernelOK
  <2>2. PICK j \in 1..Len(log) : Earned(r, j)
    BY <2>1 DEF LogInv, VerdictLogged
  <2>3. \A i \in 1..Len(recs) : recs[i].request_id # r
    BY <1>1, <2>1 DEF Neutral
  <2> QED BY <1>1, <1>2, <2>2, <2>3, EarnedKept
<1> QED BY <1>2, <1>3, <1>5 DEF LogInv, VerdictLogged

LEMMA ApplyLogInv ==
  ASSUME KernelOK, LogInv, NEW eid \in Nat, NEW env \in Envelopes(eid), HandleApply(env)
  PROVE  LogInv'
<1>1. PICK recs, msgs :
        /\ Publishes(recs, msgs) /\ Len(recs) = 1
        /\ recs[1].request_id = env.request_id /\ recs[1].event = env.event_name
        /\ recs[1].verdict = "applied"
        /\ Completes(recs[1]) =>
             \/ env.event_name = "verify.passed"
             \/ env.event_name # "verify.failed" /\ ledger[env.request_id].verdict = "passed"
  BY ApplyPublishes
<1>2. BusInv' /\ IsSeq(log)
  BY <1>1, PublishBusInv DEF LogInv, KernelOK, BusInv
<1>3. PICK n \in Nat : n = Len(log)
  BY <1>2, ConcatIsSeq
<1>4. /\ Len(log') = n + 1 /\ log'[n + 1] = recs[1]
      /\ \A i \in 1..n : log'[i] = log[i]
  <2>1. /\ Len(log') = Len(log) + Len(recs)
        /\ \A i \in 1..Len(log) : log'[i] = log[i]
        /\ \A i \in 1..Len(recs) : log'[Len(log) + i] = recs[i]
    BY <1>1, <1>2, LogGrows
  <2> QED BY <1>1, <1>3, <2>1
<1>5. env.request_id \in Rids /\ env.event_name # "request.received"
  BY EnvelopeFacts DEF HandleApply
<1>6. PICK rid \in Rids : rid = env.request_id
  BY <1>5
<1>7. VerifiedCompletion'
  <2>1. SUFFICES ASSUME Completes(recs[1])
                 PROVE  \E j \in 1..n + 1 : LatestVerdict(n + 1, j)'
                                            /\ log'[j].event = "verify.passed"
    BY <1>1, <1>2, <1>3, CompletionKept DEF LogInv
  <2>2. CASE env.event_name = "verify.passed"
    <3>1. IsVerdict(log'[n + 1]) /\ log'[n + 1].event = "verify.passed"
      BY <1>1, <1>4, <2>2 DEF IsVerdict
    <3>2. LatestVerdict(n + 1, n + 1)'
      BY <3>1 DEF LatestVerdict
    <3> QED BY <3>1, <3>2
  <2>3. CASE env.event_name # "verify.passed"
    <3>1. ledger[rid].verdict = "passed" /\ ~IsVerdict(recs[1])
      BY <1>1, <1>6, <2>1, <2>3 DEF IsVerdict
    <3>2. PICK j \in 1..n : Earned(rid, j)
      BY <1>3, <3>1 DEF LogInv, VerdictLogged
    <3>3. j \in 1..n + 1 /\ log'[j] = log[j] /\ log'[j].event = "verify.passed"
      BY <1>4, <3>2 DEF Earned
    <3>4. ASSUME NEW k \in j+1..n+1, log'[k].request_id = rid
          PROVE  ~IsVerdict(log'[k]) /\ log'[k].event # "request.received"
      <4>1. CASE k = n + 1
        BY <1>1, <1>4, <1>5, <3>1, <4>1
      <4>2. CASE k # n + 1
        <5>1. k \in j+1..Len(log) /\ log'[k] = log[k]
          BY <1>3, <1>4, <4>2
        <5> QED BY <3>2, <3>4, <5>1 DEF Earned
      <4> QED BY <4>1, <4>2
    <3>5. log'[n + 1].request_id = rid /\ log'[j].request_id = rid /\ IsVerdict(log'[j])
      BY <1>1, <1>4, <1>6, <3>2, <3>3 DEF Earned, IsVerdict
    <3>6. LatestVerdict(n + 1, j)'
      BY <3>3, <3>4, <3>5 DEF LatestVerdict
    <3> QED BY <3>3, <3>6
  <2> QED BY <2>2, <2>3
<1>8. PICK e \in Entry : AppliedAs(env, e) /\ ledger' = [ledger EXCEPT ![env.request_id] = e]
  BY ApplyLedger
<1>9. ASSUME NEW r \in Rids, ledger'[r].verdict = "passed"
      PROVE  \E j \in 1..Len(log') : Earned(r, j)'
  <2>1. CASE r = rid /\ env.event_name = "verify.passed"
    <3>1. /\ log'[n + 1].event = "verify.passed" /\ log'[n + 1].verdict = "applied"
          /\ log'[n + 1].request_id = r
      BY <1>1, <1>4, <1>6, <2>1
    <3>2. n + 1 \in 1..Len(log') /\ \A k \in (n + 1) + 1..Len(log') : FALSE
      BY <1>4
    <3>3. Earned(r, n + 1)'
      BY <3>1, <3>2 DEF Earned
    <3> QED BY <3>2, <3>3
  <2>2. CASE ~(r = rid /\ env.event_name = "verify.passed")
    <3>1. /\ ledger[r].verdict = "passed"
          /\ r = rid => env.event_name \notin {"verify.passed", "verify.failed"}
      BY <1>6, <1>8, <1>9, <2>2 DEF AppliedAs, KernelOK
    <3>2. PICK j \in 1..Len(log) : Earned(r, j)
      BY <3>1 DEF LogInv, VerdictLogged
    <3>3. \A i \in 1..Len(recs) : recs[i].request_id = r =>
            ~IsVerdict(recs[i]) /\ recs[i].event # "request.received"
      BY <1>1, <1>5, <1>6, <3>1 DEF IsVerdict
    <3> QED BY <1>1, <1>2, <3>2, <3>3, EarnedKept
  <2> QED BY <2>1, <2>2
<1> QED BY <1>2, <1>7, <1>9 DEF LogInv, VerdictLogged

\* Every branch of handle() keeps the invariant of the log.
LEMMA HandleLogInv ==
  ASSUME KernelOK, LogInv, IsFiniteSet(Admitted),
         NEW eid \in Nat, NEW env \in Envelopes(eid), Handle(env),
         env.event_name = "request.received" /\ IsDuplicate(env)
           => ledger[env.request_id].verdict = "none"
  PROVE  LogInv'
<1>1. CASE HandleDuplicate(env)
  BY <1>1, DuplicateLogInv DEF HandleDuplicate
<1>2. CASE HandleAdmit(env)
  BY <1>2, AdmitLogInv
<1>3. CASE HandleApply(env)
  BY <1>3, ApplyLogInv
<1>4. CASE Fault
  <2>1. ledger' = ledger /\ log' = log /\ bus' = bus /\ (halted => halted')
    BY <1>4 DEF Fault
  <2>2. BusInv'
    BY <1>4, <2>1 DEF LogInv, BusInv, KernelOK, Fault
  <2> QED BY <2>1, <2>2 DEF LogInv, VerdictLogged, VerifiedCompletion, Earned, LatestVerdict
<1>5. CASE HandleConfig(env) /\ ~Fault
  <2>1. ledger' = ledger
    BY <1>5 DEF HandleConfig
  <2> QED BY <1>5, <2>1, ConfigPublishes, HarmlessLogInv
<1>6. CASE HandleSession(env)
  <2>1. ledger' = ledger \/ Evicts
    BY <1>6 DEF HandleSession, Evicts
  <2> QED BY <1>6, <2>1, SessionPublishes, HarmlessLogInv
<1> QED BY <1>1, <1>2, <1>3, <1>4, <1>5, <1>6 DEF Handle, HandleUnmatched

\* What handle() can make of one entry of the ledger.
LEMMA EntryChange ==
  ASSUME KernelOK, NEW eid \in Nat, NEW env \in Envelopes(eid), Handle(env), NEW r \in Rids
  PROVE  \/ ledger'[r] = ledger[r]
         \/ ledger'[r] = Absent
         \/ /\ r = env.request_id /\ ledger'[r].last_applied_event_id = eid
            /\ env.event_name = "request.received" => ledger'[r].verdict = "none"
<1>1. env.event_id = eid
  BY EnvelopeFacts
<1>2. CASE ledger' = ledger
  BY <1>2
<1>3. CASE Evicts
  BY <1>3 DEF Evicts
<1>4. CASE /\ env.request_id \in Rids
           /\ \E e \in Entry : /\ AdmittedAs(env, e) \/ AppliedAs(env, e)
                               /\ ledger' = [ledger EXCEPT ![env.request_id] = e]
  <2>1. PICK e \in Entry : /\ AdmittedAs(env, e) \/ AppliedAs(env, e)
                           /\ ledger' = [ledger EXCEPT ![env.request_id] = e]
    BY <1>4
  <2>2. ledger'[r] = IF r = env.request_id THEN e ELSE ledger[r]
    BY <2>1 DEF KernelOK
  <2>3. /\ e.last_applied_event_id = env.event_id
        /\ env.event_name = "request.received" => e.verdict = "none"
    BY <2>1 DEF AdmittedAs, AppliedAs
  <2> QED BY <1>1, <2>2, <2>3
<1> QED BY <1>2, <1>3, <1>4, HandleLedger

LEMMA NextLogInv ==
  ASSUME IInv, IsFiniteSet(Admitted), LogInv, EidInv, PendingInv, [Next]_vars
  PROVE  LogInv' /\ EidInv' /\ PendingInv'
<1>1. /\ KernelOK /\ next_eid \in Nat
      /\ pending # NoEvent => pending.event_id \in Nat
                              /\ pending \in Envelopes(pending.event_id)
      /\ \A r \in Rids : ledger[r].last_applied_event_id \in Nat \cup {NoEvent}
  BY DEF IInv, TypeOK, KernelOK, EntryOK, Entry
<1>2. Absent.last_applied_event_id = NoEvent /\ Absent.lifecycle_state = "absent"
  BY DEF Absent
<1>3. CASE Deliver
  <2>1. PICK env \in Envelopes(next_eid) : Handle(env) /\ pending' \in {pending, env}
    BY <1>3 DEF Deliver
  <2>2. env.event_id = next_eid /\ next_eid' = next_eid + 1
    BY <1>1, <1>3, <2>1, EnvelopeFacts DEF Deliver
  <2>3. env.event_name \in RequestEvents => env.request_id \in Rids
    BY <1>1, <2>1, EnvelopeFacts
  <2>4. env.event_name = "request.received" => ~IsDuplicate(env)
    BY <1>1, <2>2, <2>3, EventIdAssumption DEF IsDuplicate, EidInv, RequestEvents
  <2>5. LogInv'
    BY <1>1, <2>1, <2>4, HandleLogInv
  <2>6. \A r \in Rids :
          \/ ledger'[r] = ledger[r]
          \/ ledger'[r] = Absent
          \/ /\ r = env.request_id /\ ledger'[r].last_applied_event_id = next_eid
             /\ env.event_name = "request.received" => ledger'[r].verdict = "none"
    BY <1>1, <2>1, EntryChange
  <2>7. EidInv'
    BY <1>1, <1>2, <2>1, <2>2, <2>6 DEF EidInv
  <2>8. PendingInv'
    <3> SUFFICES ASSUME pending' # NoEvent, pending'.event_name = "request.received",
                        IsDuplicate(pending)'
                 PROVE  ledger'[pending'.request_id].verdict = "none"
      BY DEF PendingInv
    <3>1. /\ ledger'[pending'.request_id].lifecycle_state # "absent"
          /\ ledger'[pending'.request_id].last_applied_event_id = pending'.event_id
      BY DEF IsDuplicate, InLedger
    <3>2. CASE pending' = pending
      <4>1. pending.event_id < next_eid /\ pending.event_id \in Nat
            /\ pending.request_id \in Rids
        BY <1>1, <3>2, EnvelopeFacts DEF EidInv, RequestEvents
      <4>2. ledger'[pending.request_id] = ledger[pending.request_id]
        BY <1>1, <1>2, <2>6, <3>1, <3>2, <4>1
      <4> QED BY <3>1, <3>2, <4>2 DEF PendingInv, IsDuplicate, InLedger
    <3>3. CASE pending' = env
      <4>1. env.request_id \in Rids
        BY <2>3, <3>3 DEF RequestEvents
      <4>2. ledger[env.request_id].last_applied_event_id # next_eid
        BY <1>1, <4>1, EventIdAssumption DEF EidInv
      <4> QED BY <1>2, <2>2, <2>6, <3>1, <3>3, <4>1, <4>2
    <3> QED BY <2>1, <3>2, <3>3
  <2> QED BY <2>5, <2>7, <2>8
<1>4. CASE Redeliver
  <2>1. /\ pending # NoEvent /\ Handle(pending) /\ pending' = NoEvent /\ next_eid' = next_eid
        /\ pending.event_id \in Nat /\ pending \in Envelopes(pending.event_id)
    BY <1>1, <1>4 DEF Redeliver
  <2>2. LogInv'
    BY <1>1, <2>1, HandleLogInv DEF PendingInv
  <2>3. \A r \in Rids :
          \/ ledger'[r] = ledger[r]
          \/ ledger'[r] = Absent
          \/ ledger'[r].last_applied_event_id = pending.event_id
    BY <1>1, <2>1, EntryChange
  <2>4. EidInv' /\ PendingInv'
    BY <1>2, <2>1, <2>3 DEF EidInv, PendingInv
  <2> QED BY <2>2, <2>4
<1>5. CASE DeliverMalformed
  <2>1. Fault /\ ledger' = ledger /\ pending' = pending /\ next_eid' = next_eid + 1
    BY <1>5 DEF DeliverMalformed, Fault
  <2>2. LogInv'
    <3>1. log' = log /\ bus' = bus /\ (halted => halted')
      BY <2>1 DEF Fault
    <3>2. BusInv'
      BY <1>1, <2>1, <3>1 DEF LogInv, BusInv, KernelOK, Fault
    <3> QED BY <2>1, <3>1, <3>2
            DEF LogInv, VerdictLogged, VerifiedCompletion, Earned, LatestVerdict
  <2>3. EidInv'
    BY <1>1, <2>1 DEF EidInv
  <2>4. PendingInv'
    BY <2>1 DEF PendingInv, IsDuplicate, InLedger
  <2> QED BY <2>2, <2>3, <2>4
<1>6. CASE BusChanges \/ UNCHANGED vars
  <2>1. /\ ledger' = ledger /\ log' = log /\ bus' = bus /\ halted' = halted
        /\ pending' = pending /\ next_eid' = next_eid
    BY <1>6 DEF BusChanges, kernelVars, vars
  <2>2. BusInv'
    BY <2>1 DEF LogInv, BusInv
  <2>3. VerdictLogged' /\ VerifiedCompletion'
    BY <2>1 DEF LogInv, VerdictLogged, VerifiedCompletion, Earned, LatestVerdict
  <2>4. EidInv' /\ PendingInv'
    BY <2>1 DEF EidInv, PendingInv, IsDuplicate, InLedger
  <2> QED BY <2>2, <2>3, <2>4 DEF LogInv
<1> QED BY <1>3, <1>4, <1>5, <1>6 DEF Next

\* I5 as the log tells it, and I22: whatever is delivered, twice or not, and whatever
\* the bus refuses, a request completes only under its latest verdict, a passed one,
\* and a message is missing on the bus, or out of place, only once admission is halted.
THEOREM LogIsSound == Spec => []LogSound
<1> DEFINE J == IInv /\ PolicyInv /\ IsFiniteSet(Admitted) /\ LogInv /\ EidInv /\ PendingInv
<1>1. Init => J
  BY InitIInv, InitPolicyInv, InitLogInv
<1>2. J /\ [Next]_vars => J'
  BY NextIInv, NextPolicyInv, NextLogInv
<1>3. J => LogSound
  <2> SUFFICES ASSUME LogInv PROVE LogSound
    OBVIOUS
  <2>1. IsSeq(log)
    BY DEF LogInv, BusInv
  <2>2. DOMAIN log = 1..Len(log)
    BY <2>1, ConcatIsSeq
  <2>3. LossHaltsAdmission
    BY <2>2, CarriesIsOnBus DEF LogInv, BusInv, LossHaltsAdmission
  <2> QED BY <2>3 DEF LogInv, LogSound
<1> QED BY <1>1, <1>2, <1>3, PTL DEF Spec

-----------------------------------------------------------------------------
(* What a subsequence holds.                                               *)

LEMMA LeastNatural ==
  ASSUME NEW T \in SUBSET Nat, T # {}
  PROVE  \E x \in T : \A y \in T : x <= y
<1>1. IsWellFoundedOn({p \in Nat \X Nat : p[1] < p[2]}, Nat)
  BY NatLessThanWellFounded DEF OpToRel
<1>2. PICK x \in T : \A y \in T : ~(<<y, x>> \in {p \in Nat \X Nat : p[1] < p[2]})
  BY <1>1, WFMin
<1>3. ASSUME NEW y \in T PROVE x <= y
  <2>1. x \in Nat /\ y \in Nat /\ ~(x > y)
    BY <1>2
  <2> QED BY <2>1
<1> QED BY <1>3

\* kept is what Subsequence computes, position by position.
IsKept(kept, seq, keep) ==
  kept = [n \in 0..Len(seq) |->
            IF n = 0 THEN <<>>
            ELSE IF n \in keep THEN Append(kept[n - 1], seq[n]) ELSE kept[n - 1]]

LEMMA SubsequenceExists ==
  ASSUME NEW seq, IsSeq(seq), NEW keep
  PROVE  \E kept : IsKept(kept, seq, keep) /\ Subsequence(seq, keep) = kept[Len(seq)]
<1>1. PICK L \in Nat : L = Len(seq)
  BY ConcatIsSeq
<1> DEFINE Step(p, n) == IF n = 0 THEN <<>>
                         ELSE IF n \in keep THEN Append(p[n - 1], seq[n]) ELSE p[n - 1]
           Upto(m) == \E p : p = [n \in 0..m |-> Step(p, n)]
           Failing == {m \in 0..L : ~Upto(m)}
<1>2. Upto(0)
  <2>1. PICK p : p = [n \in 0..0 |-> <<>>]
    OBVIOUS
  <2>2. p = [n \in 0..0 |-> Step(p, n)]
    BY <2>1
  <2> QED BY <2>2
<1>3. ASSUME NEW m \in Nat, Upto(m) PROVE Upto(m + 1)
  <2>1. PICK p : p = [n \in 0..m |-> Step(p, n)]
    BY <1>3
  <2>2. PICK q : q = [n \in 0..m+1 |-> IF n = m + 1 THEN Step(p, n) ELSE p[n]]
    OBVIOUS
  <2>3. ASSUME NEW n \in 0..m+1 PROVE q[n] = Step(q, n)
    <3>1. n # 0 => n - 1 \in 0..m /\ q[n - 1] = p[n - 1]
      BY <2>2
    <3>2. Step(p, n) = Step(q, n)
      BY <3>1
    <3>3. n # m + 1 => n \in 0..m
      OBVIOUS
    <3>4. n # m + 1 => q[n] = Step(p, n)
      <4> HIDE DEF Step
      <4> QED BY <2>1, <2>2, <3>3
    <3>5. n = m + 1 => q[n] = Step(p, n)
      <4> HIDE DEF Step
      <4> QED BY <2>2
    <3> HIDE DEF Step
    <3> QED BY <3>2, <3>4, <3>5
  <2>4. q = [n \in 0..m+1 |-> Step(q, n)]
    <3> HIDE DEF Step
    <3> QED BY <2>2, <2>3
  <2> QED BY <2>4
<1>4. Failing = {}
  <2> HIDE DEF Upto
  <2> SUFFICES ASSUME Failing # {} PROVE FALSE
    OBVIOUS
  <2>1. PICK m \in Failing : \A y \in Failing : m <= y
    <3>1. Failing \in SUBSET Nat
      OBVIOUS
    <3> HIDE DEF Failing
    <3> QED BY <3>1, LeastNatural
  <2>2. m \in 1..L /\ m - 1 \in Nat /\ m - 1 \in 0..L /\ m - 1 \notin Failing
    BY <1>2, <2>1
  <2>3. Upto(m - 1)
    BY <2>2
  <2>4. Upto((m - 1) + 1)
    BY <1>3, <2>2, <2>3
  <2>5. (m - 1) + 1 = m
    BY <2>2
  <2> QED BY <2>1, <2>4, <2>5
<1>5. Upto(L)
  <2> HIDE DEF Upto
  <2> QED BY <1>4
<1>6. \E p : IsKept(p, seq, keep)
  BY <1>1, <1>5 DEF IsKept
<1>7. PICK p : p = CHOOSE q : IsKept(q, seq, keep)
  OBVIOUS
<1>8. IsKept(p, seq, keep)
  BY <1>6, <1>7
<1>9. Subsequence(seq, keep) = p[Len(seq)]
  BY <1>7 DEF Subsequence, IsKept
<1> QED BY <1>8, <1>9

LEMMA AppendIsSeq ==
  ASSUME NEW s, IsSeq(s), NEW x
  PROVE  /\ IsSeq(Append(s, x)) /\ Len(s) \in Nat /\ Len(Append(s, x)) = Len(s) + 1
         /\ \A i \in 1..Len(s) : Append(s, x)[i] = s[i]
         /\ Append(s, x)[Len(s) + 1] = x
<1>1. PICK A : s \in Seq(A)
  BY DEF IsSeq
<1>2. PICK S : S = A \cup {x}
  OBVIOUS
<1>3. s \in Seq(S) /\ x \in S
  BY <1>1, <1>2, SeqMonotonic
<1>4. Append(s, x) \in Seq(S)
  BY <1>3, AppendProperties
<1> QED BY <1>3, <1>4, AppendProperties, LenProperties DEF IsSeq

\* r holds what s has at the kept positions up to n, and nothing else.
Gathers(r, s, keep, n) ==
  /\ IsSeq(r)
  /\ \A i \in 1..Len(r) : \E j \in 1..n : j \in keep /\ r[i] = s[j]
  /\ \A j \in 1..n : j \in keep => \E i \in 1..Len(r) : r[i] = s[j]

LEMMA SubsequenceFacts ==
  ASSUME NEW s, IsSeq(s), NEW keep
  PROVE  Gathers(Subsequence(s, keep), s, keep, Len(s))
<1>1. PICK L \in Nat : L = Len(s)
  BY ConcatIsSeq
<1>2. PICK p : IsKept(p, s, keep) /\ Subsequence(s, keep) = p[L]
  BY <1>1, SubsequenceExists
<1>3. /\ p[0] = <<>>
      /\ \A n \in 1..L : p[n] = IF n \in keep THEN Append(p[n - 1], s[n]) ELSE p[n - 1]
  <2>1. \A n \in 0..Len(s) :
          p[n] = IF n = 0 THEN <<>> ELSE IF n \in keep THEN Append(p[n - 1], s[n]) ELSE p[n - 1]
    BY <1>2, Zenon DEF IsKept
  <2>2. 0 \in 0..L /\ \A n \in 1..L : n \in 0..L /\ n # 0
    OBVIOUS
  <2> QED BY <1>1, <2>1, <2>2
<1>4. Gathers(p[0], s, keep, 0)
  BY <1>3, TupleIsSeq DEF Gathers
<1>5. ASSUME NEW n \in 1..L, Gathers(p[n - 1], s, keep, n - 1)
      PROVE  Gathers(p[n], s, keep, n)
  <2>1. PICK q : q = p[n - 1]
    OBVIOUS
  <2>2. PICK m \in Nat : m = n - 1
    OBVIOUS
  <2>3. /\ IsSeq(q)
        /\ \A i \in 1..Len(q) : \E j \in 1..m : j \in keep /\ q[i] = s[j]
        /\ \A j \in 1..m : j \in keep => \E i \in 1..Len(q) : q[i] = s[j]
    BY <1>5, <2>1, <2>2 DEF Gathers
  <2>4. n = m + 1
    BY <2>2
  <2>5. CASE n \notin keep
    <3>1. p[n] = q
      BY <1>3, <2>1, <2>5
    <3>2. \A j \in 1..n : j \in keep => j \in 1..m
      BY <2>4, <2>5
    <3>3. \A j \in 1..m : j \in 1..n
      BY <2>4
    <3>4. Gathers(q, s, keep, n)
      BY <2>3, <3>2, <3>3 DEF Gathers
    <3> QED BY <3>1, <3>4
  <2>6. CASE n \in keep
    <3>1. PICK r : r = Append(q, s[n])
      OBVIOUS
    <3>2. p[n] = r
      BY <1>3, <2>1, <2>6, <3>1
    <3>3. /\ IsSeq(r) /\ Len(q) \in Nat /\ Len(r) = Len(q) + 1
          /\ \A i \in 1..Len(q) : r[i] = q[i]
          /\ r[Len(q) + 1] = s[n]
      BY <2>3, <3>1, AppendIsSeq
    <3>4. ASSUME NEW i \in 1..Len(r) PROVE \E j \in 1..n : j \in keep /\ r[i] = s[j]
      <4>1. CASE i = Len(q) + 1
        BY <2>6, <3>3, <4>1
      <4>2. CASE i # Len(q) + 1
        <5>1. i \in 1..Len(q)
          BY <3>3, <4>2
        <5>2. PICK j \in 1..m : j \in keep /\ q[i] = s[j]
          BY <2>3, <5>1
        <5>3. j \in 1..n
          BY <2>4
        <5> QED BY <3>3, <5>1, <5>2, <5>3
      <4> QED BY <4>1, <4>2
    <3>5. ASSUME NEW j \in 1..n, j \in keep PROVE \E i \in 1..Len(r) : r[i] = s[j]
      <4>1. CASE j = n
        <5>1. Len(q) + 1 \in 1..Len(r)
          BY <3>3
        <5> QED BY <3>3, <4>1, <5>1
      <4>2. CASE j # n
        <5>1. j \in 1..m
          BY <2>4, <4>2
        <5>2. PICK i \in 1..Len(q) : q[i] = s[j]
          BY <2>3, <3>5, <5>1
        <5>3. i \in 1..Len(r)
          BY <3>3
        <5> QED BY <3>3, <5>2, <5>3
      <4> QED BY <4>1, <4>2
    <3> QED BY <3>2, <3>3, <3>4, <3>5 DEF Gathers
  <2> QED BY <2>5, <2>6
<1> DEFINE Failing == {n \in 0..L : ~Gathers(p[n], s, keep, n)}
<1>6. Failing = {}
  <2> SUFFICES ASSUME Failing # {} PROVE FALSE
    OBVIOUS
  <2>1. PICK n \in Failing : \A y \in Failing : n <= y
    <3>1. Failing \in SUBSET Nat
      OBVIOUS
    <3> HIDE DEF Failing
    <3> QED BY <3>1, LeastNatural
  <2>2. n \in 1..L /\ n - 1 \in 0..L /\ ~(n <= n - 1)
    BY <1>4, <2>1
  <2>3. Gathers(p[n - 1], s, keep, n - 1)
    BY <2>1, <2>2
  <2> QED BY <1>5, <2>1, <2>2, <2>3
<1>7. Gathers(p[L], s, keep, L)
  BY <1>6
<1> QED BY <1>1, <1>2, <1>7

-----------------------------------------------------------------------------
(* Crash and restart.  A record is covered by a bus that carries all its   *)
(* emissions, or a foreign message under its (request, sequence) pair.     *)

IsEmission(m, rec, k) ==
  /\ m.topic = rec.emitted[k] /\ m.index = k - 1
  /\ m.rid = rec.request_id /\ m.seq = rec.sequence
EmittedOn(b, rec) ==
  \A k \in 1..Len(rec.emitted) : \E j \in 1..Len(b) : IsEmission(b[j], rec, k)
\* OwnPair, of any bus and record.
OwnOn(b, rec) ==
  \A j \in 1..Len(b) :
    b[j].topic # LogTopic /\ b[j].rid = rec.request_id /\ b[j].seq = rec.sequence
      => b[j].index < Len(rec.emitted) /\ b[j].topic = rec.emitted[b[j].index + 1]
Covered(b, rec) == RecordOK(rec) /\ (EmittedOn(b, rec) \/ ~OwnOn(b, rec))

\* The pair of a record whose emissions are all on the bus.
PairOn(b, pair) ==
  \E x : /\ RecordOK(x) /\ x.emitted # <<>> /\ EmittedOn(b, x)
         /\ pair = <<x.request_id, x.sequence>>

\* What the bus showed it shows after more was published.
LEMMA EmittedGrows ==
  ASSUME NEW a, NEW b, IsSeq(a), IsSeq(b), NEW rec,
         EmittedOn(a, rec) \/ EmittedOn(b, rec)
  PROVE  EmittedOn(a \o b, rec)
<1>1. /\ Len(a) \in Nat /\ Len(b) \in Nat /\ Len(a \o b) = Len(a) + Len(b)
      /\ \A i \in 1..Len(a) : (a \o b)[i] = a[i]
      /\ \A i \in 1..Len(b) : (a \o b)[Len(a) + i] = b[i]
  BY ConcatIsSeq
<1>2. ASSUME NEW k \in 1..Len(rec.emitted)
      PROVE  \E j \in 1..Len(a \o b) : IsEmission((a \o b)[j], rec, k)
  <2>1. CASE EmittedOn(a, rec)
    <3>1. PICK j \in 1..Len(a) : IsEmission(a[j], rec, k)
      BY <2>1 DEF EmittedOn
    <3>2. j \in 1..Len(a \o b) /\ (a \o b)[j] = a[j]
      BY <1>1
    <3> QED BY <3>1, <3>2
  <2>2. CASE EmittedOn(b, rec)
    <3>1. PICK j \in 1..Len(b) : IsEmission(b[j], rec, k)
      BY <2>2 DEF EmittedOn
    <3>2. Len(a) + j \in 1..Len(a \o b) /\ (a \o b)[Len(a) + j] = b[j]
      BY <1>1
    <3> QED BY <3>1, <3>2
  <2> QED BY <2>1, <2>2
<1> QED BY <1>2 DEF EmittedOn

LEMMA CoveredGrows ==
  ASSUME NEW a, NEW b, IsSeq(a), IsSeq(b), NEW rec, Covered(a, rec)
  PROVE  Covered(a \o b, rec)
<1>1. CASE EmittedOn(a, rec)
  BY <1>1, EmittedGrows DEF Covered
<1>2. CASE ~OwnOn(a, rec)
  <2>1. /\ Len(a) \in Nat /\ Len(b) \in Nat /\ Len(a \o b) = Len(a) + Len(b)
        /\ \A i \in 1..Len(a) : (a \o b)[i] = a[i]
    BY ConcatIsSeq
  <2>2. \A i \in 1..Len(a) : i \in 1..Len(a \o b)
    BY <2>1
  <2>3. ~OwnOn(a \o b, rec)
    BY <1>2, <2>1, <2>2 DEF OwnOn
  <2> QED BY <2>3 DEF Covered
<1> QED BY <1>1, <1>2 DEF Covered

\* A batch that carries a record carries its emissions.
LEMMA CarriedIsEmitted ==
  ASSUME NEW msgs, IsSeq(msgs), NEW rec, Carries(msgs, rec), rec.emitted \in EmitLists
  PROVE  EmittedOn(msgs, rec)
<1>1. PICK m \in Nat : m = Len(rec.emitted)
  BY EmitListFacts
<1>2. Len(msgs) \in Nat /\ DOMAIN msgs = 1..Len(msgs)
  BY ConcatIsSeq
<1>3. PICK n \in 1..Len(msgs) :
        /\ n + m <= Len(msgs)
        /\ \A k \in 1..m :
             /\ msgs[n + k].topic = rec.emitted[k] /\ msgs[n + k].index = k - 1
             /\ msgs[n + k].rid = rec.request_id /\ msgs[n + k].seq = rec.sequence
  BY <1>1, <1>2 DEF Carries
<1>4. ASSUME NEW k \in 1..m PROVE \E j \in 1..Len(msgs) : IsEmission(msgs[j], rec, k)
  <2>1. n + k \in 1..Len(msgs)
    BY <1>2, <1>3
  <2>2. IsEmission(msgs[n + k], rec, k)
    BY <1>3 DEF IsEmission
  <2> QED BY <2>1, <2>2
<1> QED BY <1>1, <1>4 DEF EmittedOn

\* No emission is refused.
EmissionsPass == down \cap Emissions = {}

\* What the bus accepts of a batch: lawful messages, among them all emissions.
LEMMA AcceptedFacts ==
  ASSUME NEW msgs, MsgsOK(msgs)
  PROVE  /\ MsgsOK(Accepted(msgs))
         /\ EmissionsPass => \A rec : /\ rec.emitted \in EmitLists
                                      /\ EmittedOn(msgs, rec)
                                      => EmittedOn(Accepted(msgs), rec)
<1>1. PICK kept : kept = {i \in DOMAIN msgs : msgs[i].topic \notin down}
  OBVIOUS
<1>2. IsSeq(msgs) /\ DOMAIN msgs = 1..Len(msgs)
  BY ConcatIsSeq DEF MsgsOK
<1>3. PICK acc : acc = Accepted(msgs)
  OBVIOUS
<1>4. Gathers(acc, msgs, kept, Len(msgs))
  <2>1. CASE Refused(msgs)
    BY <1>1, <1>2, <1>3, <2>1, SubsequenceFacts DEF Accepted
  <2>2. CASE ~Refused(msgs)
    <3>1. acc = msgs /\ \A j \in 1..Len(msgs) : j \in kept
      BY <1>1, <1>2, <1>3, <2>2 DEF Accepted, Refused
    <3> QED BY <1>2, <3>1 DEF Gathers
  <2> QED BY <2>1, <2>2
<1>5. MsgsOK(acc)
  <2>1. ASSUME NEW i \in 1..Len(acc), acc[i].topic = LogTopic
        PROVE  RecordOK(acc[i].body)
    <3>1. PICK j \in 1..Len(msgs) : acc[i] = msgs[j]
      BY <1>4 DEF Gathers
    <3> QED BY <2>1, <3>1 DEF MsgsOK
  <2> QED BY <1>4, <2>1 DEF Gathers, MsgsOK
<1>6. ASSUME EmissionsPass, NEW rec, rec.emitted \in EmitLists, EmittedOn(msgs, rec)
      PROVE  EmittedOn(acc, rec)
  <2>1. ASSUME NEW k \in 1..Len(rec.emitted)
        PROVE  \E i \in 1..Len(acc) : IsEmission(acc[i], rec, k)
    <3>1. PICK j \in 1..Len(msgs) : IsEmission(msgs[j], rec, k)
      BY <1>6 DEF EmittedOn
    <3>2. msgs[j].topic \in Emissions
      BY <1>6, <3>1, EmitListFacts DEF IsEmission
    <3>3. j \in kept
      BY <1>1, <1>2, <1>6, <3>2 DEF EmissionsPass
    <3>4. PICK i \in 1..Len(acc) : acc[i] = msgs[j]
      BY <1>4, <3>3 DEF Gathers
    <3> QED BY <3>1, <3>4
  <2> QED BY <2>1 DEF EmittedOn
<1> QED BY <1>3, <1>5, <1>6

\* The bodies of the log messages are lawful records.
LEMMA LogRecordFacts ==
  ASSUME NEW msgs, MsgsOK(msgs)
  PROVE  /\ IsSeq(LogRecords(msgs))
         /\ \A i \in 1..Len(LogRecords(msgs)) : RecordOK(LogRecords(msgs)[i])
<1>1. PICK kept : kept = {i \in DOMAIN msgs : msgs[i].topic = LogTopic}
  OBVIOUS
<1>2. IsSeq(msgs) /\ DOMAIN msgs = 1..Len(msgs)
  BY ConcatIsSeq DEF MsgsOK
<1>3. PICK logged : logged = Subsequence(msgs, kept)
  OBVIOUS
<1>4. Gathers(logged, msgs, kept, Len(msgs))
  BY <1>2, <1>3, SubsequenceFacts
<1>5. PICK n \in Nat : n = Len(logged)
  BY <1>4, ConcatIsSeq DEF Gathers
<1>6. \A i \in 1..n : RecordOK(logged[i].body)
  BY <1>1, <1>4, <1>5 DEF Gathers, MsgsOK
<1>7. PICK recs : recs = LogRecords(msgs)
  OBVIOUS
<1>8. recs = [i \in 1..n |-> recs[i]] /\ \A i \in 1..n : recs[i] = logged[i].body
  BY <1>1, <1>3, <1>5, <1>7 DEF LogRecords
<1>9. IsSeq(recs) /\ Len(recs) = n
  BY <1>8, FunIsSeq
<1> QED BY <1>6, <1>7, <1>8, <1>9

\* Every pair that recover() is told of is the pair of a record on the bus.
LEMMA PublishedFacts ==
  ASSUME NEW msgs, MsgsOK(msgs), NEW pair \in Published(msgs)
  PROVE  PairOn(msgs, pair)
<1>1. PICK recs : recs = LogRecords(msgs)
  OBVIOUS
<1>2. IsSeq(recs) /\ \A i \in 1..Len(recs) : RecordOK(recs[i])
  BY <1>1, LogRecordFacts
<1>3. DOMAIN recs = 1..Len(recs) /\ DOMAIN msgs = 1..Len(msgs)
  BY <1>2, ConcatIsSeq DEF MsgsOK
<1>4. PICK x \in ToSet(recs) :
        /\ pair = <<x.request_id, x.sequence>> /\ x.emitted # <<>>
        /\ \A k \in 1..Len(x.emitted) : \E j \in DOMAIN msgs :
             /\ msgs[j].topic = x.emitted[k]
             /\ msgs[j].rid = x.request_id /\ msgs[j].seq = x.sequence
             /\ msgs[j].index = k - 1
  BY <1>1 DEF Published
<1>5. RecordOK(x)
  BY <1>2, <1>3 DEF ToSet
<1>6. EmittedOn(msgs, x)
  BY <1>3, <1>4 DEF EmittedOn, IsEmission
<1> QED BY <1>4, <1>5, <1>6 DEF PairOn

\* The ledger is a finite table over the request ids.
LedgerFinite == ledger = [r \in Rids |-> ledger[r]] /\ IsFiniteSet(Admitted)

\* The bus holds lawful records and covers the log; while recover() replays, the
\* records to replay are lawful and the published pairs are on the bus.
CoverInv ==
  /\ MsgsOK(bus) /\ IsSeq(log)
  /\ \A i \in 1..Len(log) : Covered(bus, log[i])
ReplayInv ==
  phase = "replaying" =>
    /\ IsSeq(records) /\ \A i \in 1..Len(records) : RecordOK(records[i])
    /\ \A pair \in published : PairOn(bus, pair)
RecoveryInv == EmissionsPass /\ LedgerFinite /\ CoverInv /\ ReplayInv

\* One change of one entry, or evictions, keep the ledger finite.
LEMMA LedgerStaysFinite ==
  ASSUME LedgerFinite,
         \/ ledger' = ledger
         \/ \E rid, e : ledger' = [ledger EXCEPT ![rid] = e]
         \/ \E S : ledger' = [r \in Rids |-> IF r \in S THEN Absent ELSE ledger[r]]
  PROVE  LedgerFinite'
<1>1. CASE ledger' = ledger
  BY <1>1 DEF LedgerFinite, Admitted, InLedger
<1>2. CASE \E rid, e : ledger' = [ledger EXCEPT ![rid] = e]
  <2>1. PICK rid, e : ledger' = [ledger EXCEPT ![rid] = e]
    BY <1>2
  <2>2. ledger' = [r \in Rids |-> ledger'[r]] /\ \A r \in Rids \ {rid} : ledger'[r] = ledger[r]
    BY <2>1 DEF LedgerFinite
  <2>3. Admitted' \subseteq Admitted \cup {rid}
    BY <2>2 DEF Admitted, InLedger
  <2>4. IsFiniteSet(Admitted \cup {rid})
    BY FS_AddElement DEF LedgerFinite
  <2>5. IsFiniteSet(Admitted')
    BY <2>3, <2>4, FS_Subset
  <2> QED BY <2>2, <2>5 DEF LedgerFinite
<1>3. CASE \E S : ledger' = [r \in Rids |-> IF r \in S THEN Absent ELSE ledger[r]]
  <2>1. PICK S : ledger' = [r \in Rids |-> IF r \in S THEN Absent ELSE ledger[r]]
    BY <1>3
  <2>2. ledger' = [r \in Rids |-> ledger'[r]]
        /\ \A r \in Rids : ledger'[r] = Absent \/ ledger'[r] = ledger[r]
    BY <2>1
  <2>3. Admitted' \subseteq Admitted
    BY <2>2 DEF Admitted, InLedger, Absent
  <2>4. IsFiniteSet(Admitted')
    BY <2>3, FS_Subset DEF LedgerFinite
  <2> QED BY <2>2, <2>4 DEF LedgerFinite
<1> QED BY <1>1, <1>2, <1>3

LEMMA HandleFinite ==
  ASSUME LedgerFinite, NEW env, Handle(env)
  PROVE  LedgerFinite'
<1>1. CASE \E steps : Commit(env, steps)
  BY <1>1, LedgerStaysFinite, Zenon DEF Commit
<1>2. CASE ledger' = ledger
  BY <1>2, LedgerStaysFinite
<1>3. CASE HandleSession(env)
  <2>1. \/ ledger' = ledger
        \/ ledger' = [r \in Rids |-> IF r \in TerminalRids THEN Absent ELSE ledger[r]]
    BY <1>3, Zenon DEF HandleSession
  <2> QED BY <2>1, LedgerStaysFinite, Zenon
<1> QED BY <1>1, <1>2, <1>3, Zenon
        DEF Handle, HandleDuplicate, HandleAdmit, HandleApply, HandleUnmatched, HandleConfig,
            Fault

\* Whatever handle() does, it publishes what it logs.
LEMMA HandlePublishes ==
  ASSUME IsFiniteSet(Admitted), NEW env, Handle(env)
  PROVE  \/ \E recs, msgs : Publishes(recs, msgs)
         \/ log' = log /\ bus' = bus
<1>1. CASE HandleDuplicate(env)
  BY <1>1, DuplicatePublishes
<1>2. CASE HandleAdmit(env)
  BY <1>2, AdmitPublishes
<1>3. CASE HandleApply(env)
  <2>1. /\ env.event_name \in RequestEvents /\ Commit(env, Apply(env))
        /\ Rows(ledger[env.request_id].lifecycle_state, env.event_name) # <<>>
    BY <1>3 DEF HandleApply
  <2>2. PICK steps : steps = Apply(env)
    OBVIOUS
  <2>3. Len(steps) = 1 /\ StepOK(steps[1])
    BY <2>1, <2>2, ApplySteps
  <2>4. \A i \in 1..Len(steps) : StepOK(steps[i])
    BY <2>3
  <2> QED BY <2>1, <2>2, <2>3, <2>4, CommitPublishes
<1>4. CASE Fault
  BY <1>4 DEF Fault
<1>5. CASE HandleConfig(env) /\ ~Fault
  BY <1>5, ConfigPublishes
<1>6. CASE HandleSession(env)
  BY <1>6, SessionPublishes
<1> QED BY <1>1, <1>2, <1>3, <1>4, <1>5, <1>6 DEF Handle, HandleUnmatched

\* A batch that is accepted as a whole or in part extends the bus lawfully.
LEMMA BusExtends ==
  ASSUME MsgsOK(bus), NEW msgs, MsgsOK(msgs)
  PROVE  /\ MsgsOK(bus \o Accepted(msgs))
         /\ \A rec : Covered(bus, rec) => Covered(bus \o Accepted(msgs), rec)
         /\ \A pair : PairOn(bus, pair) => PairOn(bus \o Accepted(msgs), pair)
         /\ EmissionsPass => \A rec : /\ rec.emitted \in EmitLists /\ EmittedOn(msgs, rec)
                                      => EmittedOn(bus \o Accepted(msgs), rec)
<1>1. PICK acc : acc = Accepted(msgs)
  OBVIOUS
<1>2. /\ MsgsOK(acc)
      /\ EmissionsPass => \A rec : /\ rec.emitted \in EmitLists /\ EmittedOn(msgs, rec)
                                   => EmittedOn(acc, rec)
  BY <1>1, AcceptedFacts
<1>3. IsSeq(bus) /\ IsSeq(acc)
  BY <1>2 DEF MsgsOK
<1>4. MsgsOK(bus \o acc)
  BY <1>2, MsgsConcat
<1>5. \A rec : Covered(bus, rec) => Covered(bus \o acc, rec)
  BY <1>3, CoveredGrows
<1>6. \A rec : EmittedOn(bus, rec) \/ EmittedOn(acc, rec) => EmittedOn(bus \o acc, rec)
  BY <1>3, EmittedGrows
<1>7. \A pair : PairOn(bus, pair) => PairOn(bus \o acc, pair)
  BY <1>6 DEF PairOn
<1> QED BY <1>1, <1>2, <1>4, <1>5, <1>6, <1>7

LEMMA PublishesCover ==
  ASSUME EmissionsPass, CoverInv, NEW recs, NEW msgs, Publishes(recs, msgs)
  PROVE  CoverInv'
<1>1. /\ IsSeq(recs) /\ MsgsOK(msgs) /\ log' = log \o recs /\ bus' = bus \o Accepted(msgs)
      /\ \A i \in 1..Len(recs) : RecordOK(recs[i]) /\ Carries(msgs, recs[i])
  BY DEF Publishes, SafePublish
<1>2. /\ MsgsOK(bus')
      /\ \A rec : Covered(bus, rec) => Covered(bus', rec)
      /\ \A rec : rec.emitted \in EmitLists /\ EmittedOn(msgs, rec) => EmittedOn(bus', rec)
  BY <1>1, BusExtends DEF CoverInv
<1>3. \A i \in 1..Len(recs) : Covered(bus', recs[i])
  BY <1>1, <1>2, CarriedIsEmitted DEF RecordOK, MsgsOK, Covered
<1>4. /\ IsSeq(log')
      /\ \A i \in 1..Len(log') : \/ i \in 1..Len(log) /\ log'[i] = log[i]
                                 \/ \E k \in 1..Len(recs) : log'[i] = recs[k]
  BY <1>1, ConcatIsSeq, LogGrows DEF CoverInv
<1>5. \A i \in 1..Len(log') : Covered(bus', log'[i])
  BY <1>2, <1>3, <1>4 DEF CoverInv
<1> QED BY <1>2, <1>4, <1>5 DEF CoverInv

\* A new coordinator starts to replay what the bus carries.
LEMMA RestartInv ==
  ASSUME EmissionsPass, NEW msgs, MsgsOK(msgs), NEW mem, Restart(msgs, mem)
  PROVE  RecoveryInv'
<1>1. /\ bus' = msgs /\ records' = LogRecords(msgs) /\ published' = Published(msgs)
      /\ ledger' = [r \in Rids |-> Absent] /\ log' = <<>> /\ down' = down
  BY DEF Restart
<1>2. LedgerFinite'
  <2>1. \A r \in Rids : ~InLedger(r)'
    BY <1>1 DEF InLedger, Absent
  <2>2. Admitted' = {}
    BY <2>1 DEF Admitted
  <2>3. IsFiniteSet(Admitted')
    BY <2>2, FS_EmptySet
  <2> QED BY <1>1, <2>3 DEF LedgerFinite
<1>3. CoverInv'
  BY <1>1, TupleIsSeq DEF CoverInv
<1>4. IsSeq(records') /\ \A i \in 1..Len(records') : RecordOK(records'[i])
  BY <1>1, LogRecordFacts
<1>5. \A pair \in published' : PairOn(bus', pair)
  BY <1>1, PublishedFacts
<1>6. ReplayInv'
  BY <1>4, <1>5 DEF ReplayInv
<1> QED BY <1>1, <1>2, <1>3, <1>6 DEF RecoveryInv, EmissionsPass

\* A beginning of a sequence of lawful messages.
LEMMA SliceOK ==
  ASSUME NEW s, IsSeq(s), NEW k \in 0..Len(s)
  PROVE  /\ IsSeq(SubSeq(s, 1, k)) /\ Len(SubSeq(s, 1, k)) = k
         /\ \A i \in 1..k : i \in 1..Len(s) /\ SubSeq(s, 1, k)[i] = s[i]
<1>1. PICK S : s \in Seq(S)
  BY DEF IsSeq
<1>2. k \in Nat /\ Len(s) \in Nat /\ \A i \in 1..k : s[i] \in S
  BY <1>1, ElementOfSeq, LenProperties
<1>3. /\ SubSeq(s, 1, k) \in Seq(S) /\ Len(SubSeq(s, 1, k)) = k
      /\ \A i \in 1..k : SubSeq(s, 1, k)[i] = s[i]
  BY <1>2, SubSeqProperties
<1> QED BY <1>2, <1>3 DEF IsSeq

\* The messages of an interrupted handler are lawful as far as they went out.
LEMMA StepsFacts ==
  ASSUME NEW env, env.event_name \in RequestEvents, Steps(env) # <<>>
  PROVE  MsgsOK(StepMsgs(Steps(env)))
<1>1. PICK steps : steps = Steps(env)
  OBVIOUS
<1>2. SUFFICES Len(steps) \in {1, 2} /\ \A i \in 1..Len(steps) : StepOK(steps[i])
  BY <1>1, StepMsgsOK
<1>3. CASE steps = Noop(env)
  <2>1. Len(steps) = 1 /\ StepOK(steps[1])
    BY <1>3, NoopSteps
  <2> QED BY <2>1
<1>4. CASE steps = Admit(env)
  BY <1>4, AdmitSteps
<1>5. CASE /\ steps = Apply(env)
           /\ Rows(ledger[env.request_id].lifecycle_state, env.event_name) # <<>>
  <2>1. Len(steps) = 1 /\ StepOK(steps[1])
    BY <1>5, ApplySteps
  <2> QED BY <2>1
<1> QED BY <1>1, <1>3, <1>4, <1>5, Zenon DEF Steps

LEMMA CrashKeeps ==
  ASSUME RecoveryInv, Crash \/ CrashDuringRequest \/ CrashDuringSession \/ CrashWhileReplaying
  PROVE  RecoveryInv'
<1>1. EmissionsPass /\ MsgsOK(bus) /\ IsFiniteSet(Admitted)
  BY DEF RecoveryInv, CoverInv, LedgerFinite
<1>2. ASSUME NEW out, MsgsOK(out), NEW mem, Restart(bus \o Accepted(out), mem)
      PROVE  RecoveryInv'
  BY <1>1, <1>2, BusExtends, RestartInv
<1>3. CASE Crash \/ CrashWhileReplaying
  BY <1>1, <1>3, RestartInv DEF Crash, CrashWhileReplaying
<1>4. CASE CrashDuringRequest
  <2>1. PICK env \in Envelopes(next_eid) :
          /\ env.event_name \in RequestEvents \cap PeerEvents
          /\ Steps(env) # <<>>
          /\ \E k \in 0..Len(StepMsgs(Steps(env))) - 1 : \E mem :
               Restart(bus \o Accepted(SubSeq(StepMsgs(Steps(env)), 1, k)), mem)
    BY <1>4, Zenon DEF CrashDuringRequest
  <2>2. PICK msgs : msgs = StepMsgs(Steps(env))
    OBVIOUS
  <2>3. MsgsOK(msgs)
    BY <2>1, <2>2, StepsFacts
  <2>4. PICK k \in 0..Len(msgs) - 1 : \E mem : Restart(bus \o Accepted(SubSeq(msgs, 1, k)), mem)
    BY <2>1, <2>2
  <2>5. PICK out : out = SubSeq(msgs, 1, k)
    OBVIOUS
  <2>6. MsgsOK(out)
    <3>1. IsSeq(msgs) /\ k \in 0..Len(msgs)
      BY <2>3, ConcatIsSeq DEF MsgsOK
    <3>2. /\ IsSeq(out) /\ Len(out) = k
          /\ \A i \in 1..k : i \in 1..Len(msgs) /\ out[i] = msgs[i]
      BY <2>5, <3>1, SliceOK
    <3> QED BY <2>3, <3>2 DEF MsgsOK
  <2> QED BY <1>2, <2>4, <2>5, <2>6
<1>5. CASE CrashDuringSession
  <2>1. PICK name \in SessionEvents :
          \E k \in 0..Len(SessionRecords(name)) - 1 : \E mem :
            Restart(bus \o Accepted([i \in 1..k |-> LogMsg(SubSeq(SessionRecords(name), 1, k)[i])]),
                    mem)
    BY <1>5, Zenon DEF CrashDuringSession
  <2>2. PICK recs : recs = SessionRecords(name)
    OBVIOUS
  <2>3. IsSeq(recs) /\ \A i \in 1..Len(recs) : recs[i].emitted = <<>>
    BY <1>1, <2>2, SessionRecordFacts
  <2>4. PICK k \in 0..Len(recs) - 1 : \E mem :
          Restart(bus \o Accepted([i \in 1..k |-> LogMsg(SubSeq(recs, 1, k)[i])]), mem)
    BY <2>1, <2>2
  <2>5. PICK done : done = SubSeq(recs, 1, k)
    OBVIOUS
  <2>6. k \in 0..Len(recs) /\ k \in Nat
    BY <2>3, ConcatIsSeq
  <2>7. \A i \in 1..k : done[i].emitted = <<>>
    BY <2>3, <2>5, <2>6, SliceOK
  <2>8. PICK out : out = [i \in 1..k |-> LogMsg(done[i])]
    OBVIOUS
  <2>9. MsgsOK(out)
    BY <2>6, <2>7, <2>8, LogMsgsOK
  <2> QED BY <1>2, <2>4, <2>5, <2>8, <2>9
<1> QED BY <1>3, <1>4, <1>5

\* A record whose pair is published is covered: the record that published under the
\* pair is an earlier one, or emitted the same.
LEMMA PublishedIsCovered ==
  ASSUME NEW b, NEW rec, RecordOK(rec), PairOn(b, <<rec.request_id, rec.sequence>>)
  PROVE  Covered(b, rec)
<1>1. PICK x : /\ RecordOK(x) /\ x.emitted # <<>> /\ EmittedOn(b, x)
               /\ <<rec.request_id, rec.sequence>> = <<x.request_id, x.sequence>>
  BY DEF PairOn
<1>2. rec.request_id = x.request_id /\ rec.sequence = x.sequence
  BY <1>1
<1>3. ASSUME OwnOn(b, rec) PROVE EmittedOn(b, rec)
  <2>1. ASSUME NEW k \in 1..Len(x.emitted)
        PROVE  k <= Len(rec.emitted) /\ x.emitted[k] = rec.emitted[k]
    <3>1. PICK j \in 1..Len(b) : IsEmission(b[j], x, k)
      BY <1>1 DEF EmittedOn
    <3>2. b[j].topic # LogTopic
      <4>1. b[j].topic \in Emissions
        BY <1>1, <3>1, EmitListFacts DEF IsEmission, RecordOK
      <4> QED BY <4>1 DEF Emissions, LogTopic
    <3>3. /\ b[j].topic = x.emitted[k] /\ b[j].index = k - 1
          /\ b[j].rid = rec.request_id /\ b[j].seq = rec.sequence
      BY <1>2, <3>1 DEF IsEmission
    <3>4. b[j].index < Len(rec.emitted) /\ b[j].topic = rec.emitted[b[j].index + 1]
      BY <1>3, <3>2, <3>3 DEF OwnOn
    <3>5. PICK n \in Nat : n = Len(rec.emitted)
      <4>1. rec.emitted \in EmitLists
        BY DEF RecordOK
      <4>2. Len(rec.emitted) \in Nat
        BY <4>1, EmitListFacts
      <4> QED BY <4>2
    <3>6. k \in Nat /\ (k - 1) + 1 = k
      OBVIOUS
    <3> QED BY <3>3, <3>4, <3>5, <3>6
  <2>2. x.emitted = rec.emitted
    BY <1>1, <2>1, EmitPrefix DEF RecordOK
  <2> QED BY <1>1, <1>2, <2>2 DEF EmittedOn, IsEmission
<1> QED BY <1>3 DEF Covered

\* The emissions that recover() publishes again.
LEMMA ReEmittedFacts ==
  ASSUME NEW rec, RecordOK(rec), NEW row, row.emit = rec.emitted, NEW decision
  PROVE  LET msgs == PublishRow(rec.request_id, rec.sequence, row, decision)
         IN  MsgsOK(msgs) /\ EmittedOn(msgs, rec)
<1>1. PICK msgs : msgs = PublishRow(rec.request_id, rec.sequence, row, decision)
  OBVIOUS
<1>2. PICK m \in Nat : m = Len(rec.emitted)
  BY EmitListFacts DEF RecordOK
<1>3. /\ msgs = [i \in 1..m |-> msgs[i]]
      /\ \A i \in 1..m : /\ msgs[i].topic = rec.emitted[i] /\ msgs[i].index = i - 1
                         /\ msgs[i].rid = rec.request_id /\ msgs[i].seq = rec.sequence
  BY <1>1, <1>2 DEF PublishRow, EmitMsg
<1>4. IsSeq(msgs) /\ Len(msgs) = m
  BY <1>3, FunIsSeq
<1>5. \A i \in 1..m : msgs[i].topic # LogTopic
  <2>1. \A i \in 1..m : rec.emitted[i] \in Emissions
    BY <1>2, EmitListFacts DEF RecordOK
  <2>2. LogTopic \notin Emissions
    BY DEF LogTopic, Emissions
  <2> QED BY <1>3, <2>1, <2>2
<1>6. MsgsOK(msgs)
  BY <1>4, <1>5 DEF MsgsOK
<1>7. EmittedOn(msgs, rec)
  BY <1>2, <1>3, <1>4 DEF EmittedOn, IsEmission
<1> QED BY <1>1, <1>6, <1>7

LEMMA ReplayKeeps ==
  ASSUME RecoveryInv, Replay
  PROVE  RecoveryInv'
<1>1. /\ phase = "replaying" /\ Len(log) < Len(records) /\ down' = down
      /\ phase' = phase /\ records' = records /\ published' = published
  BY DEF Replay, envVars, recoveryVars
<1>2. PICK rec : rec = records[Len(log) + 1]
  OBVIOUS
<1>3. /\ \/ ReplayConfig(rec) \/ ReplaySession(rec) \/ ReplayCleanup(rec)
         \/ ReplayNoop(rec) \/ ReplayTransition(rec)
      /\ log' = Append(log, rec)
  BY <1>2 DEF Replay
<1>4. /\ EmissionsPass /\ LedgerFinite /\ MsgsOK(bus) /\ IsSeq(log) /\ IsSeq(records)
      /\ \A i \in 1..Len(log) : Covered(bus, log[i])
      /\ \A i \in 1..Len(records) : RecordOK(records[i])
      /\ \A pair \in published : PairOn(bus, pair)
  BY <1>1 DEF RecoveryInv, CoverInv, ReplayInv
<1>5. RecordOK(rec)
  <2>1. Len(log) \in Nat /\ Len(records) \in Nat
    BY <1>4, ConcatIsSeq
  <2>2. Len(log) + 1 \in 1..Len(records)
    BY <1>1, <2>1
  <2> QED BY <1>2, <1>4, <2>2
<1>6. LedgerFinite'
  <2>1. CASE ledger' = ledger
    BY <1>4, <2>1, LedgerStaysFinite
  <2>2. CASE \E rid, e : ledger' = [ledger EXCEPT ![rid] = e]
    BY <1>4, <2>2, LedgerStaysFinite
  <2> QED BY <1>3, <2>1, <2>2, Zenon
          DEF ReplayConfig, ReplaySession, ReplayCleanup, ReplayNoop, ReplayTransition
<1>7. /\ MsgsOK(bus') /\ Covered(bus', rec)
      /\ \A r : Covered(bus, r) => Covered(bus', r)
      /\ \A pair : PairOn(bus, pair) => PairOn(bus', pair)
  <2>1. CASE ~ReplayTransition(rec)
    <3>1. bus' = bus
      BY <1>3, <2>1 DEF ReplayConfig, ReplaySession, ReplayCleanup, ReplayNoop
    <3>2. ~IsTransition(rec)
      BY <1>3, <2>1
         DEF ReplayConfig, ReplaySession, ReplayCleanup, ReplayNoop, IsTransition
    <3>3. rec.emitted = <<>> /\ Len(rec.emitted) = 0
      BY <1>5, <3>2, TupleIsSeq DEF RecordOK
    <3>4. Covered(bus, rec)
      BY <1>5, <3>3 DEF Covered, EmittedOn
    <3> QED BY <1>4, <3>1, <3>4
  <2>2. CASE ReplayTransition(rec)
    <3>1. PICK msgs : msgs = ReEmissions(rec)
      OBVIOUS
    <3>2. bus' = bus \o Accepted(msgs) /\ ReplayRow(rec).emit = rec.emitted
      BY <2>2, <3>1 DEF ReplayTransition, SafePublish, Conforms
    <3>3. CASE <<rec.request_id, rec.sequence>> \in published
      <4>1. msgs = <<>>
        BY <3>1, <3>3 DEF ReEmissions
      <4>2. MsgsOK(msgs)
        BY <4>1, TupleIsSeq DEF MsgsOK
      <4>3. Covered(bus, rec)
        BY <1>4, <1>5, <3>3, PublishedIsCovered
      <4> QED BY <1>4, <3>2, <4>2, <4>3, BusExtends
    <3>4. CASE <<rec.request_id, rec.sequence>> \notin published
      <4>1. PICK row : row = ReplayRow(rec)
        OBVIOUS
      <4>2. PICK d : d = EmitDecision(row, rec.guard_result)
        OBVIOUS
      <4>3. msgs = PublishRow(rec.request_id, rec.sequence, row, d)
        BY <3>1, <3>4, <4>1, <4>2 DEF ReEmissions
      <4>4. MsgsOK(msgs) /\ EmittedOn(msgs, rec) /\ rec.emitted \in EmitLists
        BY <1>5, <3>2, <4>1, <4>3, ReEmittedFacts DEF RecordOK
      <4>5. Covered(bus', rec)
        BY <1>4, <1>5, <3>2, <4>4, BusExtends DEF Covered
      <4> QED BY <1>4, <3>2, <4>4, <4>5, BusExtends
    <3> QED BY <3>3, <3>4
  <2> QED BY <2>1, <2>2
<1>8. /\ IsSeq(log') /\ Len(log) \in Nat /\ Len(log') = Len(log) + 1
      /\ \A i \in 1..Len(log) : log'[i] = log[i]
      /\ log'[Len(log) + 1] = rec
  BY <1>3, <1>4, AppendIsSeq
<1>9. \A i \in 1..Len(log') : Covered(bus', log'[i])
  <2> SUFFICES ASSUME NEW i \in 1..Len(log') PROVE Covered(bus', log'[i])
    OBVIOUS
  <2>1. CASE i = Len(log) + 1
    BY <1>7, <1>8, <2>1
  <2>2. CASE i # Len(log) + 1
    <3>1. i \in 1..Len(log)
      BY <1>8, <2>2
    <3> QED BY <1>4, <1>7, <1>8, <3>1
  <2> QED BY <2>1, <2>2
<1>10. CoverInv'
  BY <1>7, <1>8, <1>9 DEF CoverInv
<1>11. ReplayInv'
  BY <1>1, <1>4, <1>7 DEF ReplayInv
<1> QED BY <1>1, <1>4, <1>6, <1>10, <1>11 DEF RecoveryInv, EmissionsPass

\* The bus refuses topics of the log and of faults only.
EmissionsAlwaysPass == \A d \in DownChoices : d \cap Emissions = {}

LEMMA InitRecoveryInv == RecoveryInit => RecoveryInv
<1> SUFFICES ASSUME RecoveryInit PROVE RecoveryInv
  OBVIOUS
<1>1. Init /\ phase = "running"
  BY DEF RecoveryInit
<1>2. LedgerFinite
  BY <1>1, InitPolicyInv DEF Init, LedgerFinite
<1>3. CoverInv
  BY <1>1, TupleIsSeq DEF Init, CoverInv, MsgsOK
<1> QED BY <1>1, <1>2, <1>3 DEF Init, RecoveryInv, EmissionsPass, ReplayInv

LEMMA RunningKeeps ==
  ASSUME RecoveryInv, EmissionsAlwaysPass, Running
  PROVE  RecoveryInv'
<1>1. Next /\ phase = "running" /\ phase' = phase
  BY DEF Running, recoveryVars
<1>2. EmissionsPass /\ LedgerFinite /\ CoverInv
  BY DEF RecoveryInv
<1>3. ASSUME NEW env, Handle(env), down' = down PROVE RecoveryInv'
  <2>1. LedgerFinite'
    BY <1>2, <1>3, HandleFinite
  <2>2. CoverInv'
    <3>1. CASE \E recs, msgs : Publishes(recs, msgs)
      BY <1>2, <3>1, PublishesCover
    <3>2. CASE log' = log /\ bus' = bus
      BY <1>2, <3>2 DEF CoverInv
    <3> QED BY <1>2, <1>3, <3>1, <3>2, HandlePublishes DEF LedgerFinite
  <2> QED BY <1>1, <1>2, <1>3, <2>1, <2>2 DEF RecoveryInv, EmissionsPass, ReplayInv
<1>4. CASE Deliver
  BY <1>3, <1>4 DEF Deliver
<1>5. CASE Redeliver
  BY <1>3, <1>5 DEF Redeliver
<1>6. CASE DeliverMalformed \/ BusChanges
  <2>1. ledger' = ledger /\ log' = log /\ bus' = bus /\ (down' = down \/ down' \in DownChoices)
    BY <1>6 DEF DeliverMalformed, BusChanges, Fault, kernelVars
  <2>2. LedgerFinite'
    BY <1>2, <2>1, LedgerStaysFinite
  <2>3. CoverInv'
    BY <1>2, <2>1 DEF CoverInv
  <2>4. EmissionsPass'
    BY <1>2, <2>1 DEF EmissionsPass, EmissionsAlwaysPass
  <2> QED BY <1>1, <2>2, <2>3, <2>4 DEF RecoveryInv, ReplayInv
<1> QED BY <1>1, <1>4, <1>5, <1>6 DEF Next

LEMMA NextRecoveryInv ==
  ASSUME RecoveryInv, EmissionsAlwaysPass, [RecoveryNext]_allVars
  PROVE  RecoveryInv'
<1>1. CASE Running
  BY <1>1, RunningKeeps
<1>2. CASE Crash \/ CrashDuringRequest \/ CrashDuringSession \/ CrashWhileReplaying
  BY <1>2, CrashKeeps
<1>3. CASE Replay
  BY <1>3, ReplayKeeps
<1>4. CASE Deviation
  <2>1. /\ log' = log /\ bus' = bus /\ down' = down /\ phase' = "deviated"
        /\ ledger' = ledger \/ \E rid, e : ledger' = [ledger EXCEPT ![rid] = e]
    BY <1>4, Zenon DEF Deviation, envVars
  <2>2. LedgerFinite'
    BY <2>1, LedgerStaysFinite DEF RecoveryInv
  <2> QED BY <2>1, <2>2 DEF RecoveryInv, CoverInv, ReplayInv, EmissionsPass
<1>5. CASE RecoveryDone \/ UNCHANGED allVars
  <2>1. /\ log' = log /\ bus' = bus /\ down' = down /\ ledger' = ledger
        /\ records' = records /\ published' = published
        /\ phase' = "replaying" => phase = "replaying"
    BY <1>5 DEF RecoveryDone, allVars, vars, recoveryVars
  <2>2. LedgerFinite'
    BY <2>1, LedgerStaysFinite DEF RecoveryInv
  <2> QED BY <2>1, <2>2 DEF RecoveryInv, CoverInv, ReplayInv, EmissionsPass
<1> QED BY <1>1, <1>2, <1>3, <1>4, <1>5 DEF RecoveryNext

\* CR-1, I7: as long as no outage reaches the emissions themselves, whatever crashes
\* cut off between a log record and its emissions, and however often recover() is
\* itself interrupted, every emission of every logged record is on the bus, or a
\* foreign one under its pair.
THEOREM NothingIsLost == EmissionsAlwaysPass => (RecoverySpec => []NoLostEmission)
<1> SUFFICES ASSUME EmissionsAlwaysPass PROVE RecoverySpec => []NoLostEmission
  OBVIOUS
<1>1. RecoveryInv /\ [RecoveryNext]_allVars => RecoveryInv'
  BY NextRecoveryInv
<1>2. RecoveryInv => NoLostEmission
  <2> SUFFICES ASSUME RecoveryInv, NEW i \in DOMAIN log, NEW k \in 1..Len(log[i].emitted),
                      OwnPair(i)
               PROVE  \E j \in DOMAIN bus : /\ bus[j].topic = log[i].emitted[k]
                                            /\ bus[j].rid = log[i].request_id
                                            /\ bus[j].seq = log[i].sequence
                                            /\ bus[j].index = k - 1
    BY DEF NoLostEmission
  <2>1. DOMAIN log = 1..Len(log) /\ DOMAIN bus = 1..Len(bus)
    BY ConcatIsSeq DEF RecoveryInv, CoverInv, MsgsOK
  <2>2. Covered(bus, log[i])
    BY <2>1 DEF RecoveryInv, CoverInv
  <2>3. OwnOn(bus, log[i])
    BY <2>1 DEF OwnPair, OwnOn
  <2>4. EmittedOn(bus, log[i])
    BY <2>2, <2>3 DEF Covered
  <2> QED BY <2>1, <2>4 DEF EmittedOn, IsEmission
<1> QED BY <1>1, <1>2, InitRecoveryInv, PTL DEF RecoverySpec

-----------------------------------------------------------------------------
(* Recovery: replaying the log gives back what it stands for.  Goes(a, rec, b) *)
(* is the replay of one record, from the state a of the coordinator to b.      *)

\* What ReplayEntry, ReplayRow, Conforms and Replayed say over the ledger led.
EntryAt(led, rec) ==
  IF led[rec.request_id].lifecycle_state # "absent" THEN led[rec.request_id]
                                       ELSE NewEntry(rec.declared_type, rec.config_version)

RowAt(led, rec) ==
  LET rows == Rows(EntryAt(led, rec).lifecycle_state, rec.event)
  IN IF rec.guard_result THEN rows[1] ELSE rows[Len(rows)]

FitsAt(led, snaps, rec) ==
  /\ snaps[rec.config_version] # NoSnapshot
  /\ led[rec.request_id].lifecycle_state # "absent" \/ rec.event = "request.received"
  /\ Rows(EntryAt(led, rec).lifecycle_state, rec.event) # <<>>
  /\ EntryAt(led, rec).lifecycle_state = rec.prior_state
  /\ rec.sequence = EntryAt(led, rec).transition_sequence + 1
  /\ RowAt(led, rec).next = rec.next_state
  /\ RowAt(led, rec).emit = rec.emitted

ReplayedAt(led, rec) ==
  [Advance(EntryAt(led, rec), rec.event, rec.event_id, RowAt(led, rec), rec.routing_target)
     EXCEPT !.transition_sequence = rec.sequence]

State(led, cfg, snaps) == [ledger |-> led, config |-> cfg, configs |-> snaps]

\* The five kinds of records, with their fields.
OfConfig(rec) ==
  rec.event = "config.changed" /\ rec.verdict = "applied" /\ rec.snapshot \in Snapshots
OfSession(rec) == rec.event \in SessionEvents /\ rec.verdict = "applied"
OfCleanup(rec) ==
  rec.event = "__cleanup__" /\ rec.verdict = "applied" /\ rec.request_id \in Rids
OfDuplicate(rec) == rec.verdict = "duplicate" /\ rec.event \in RequestEvents
OfTransition(rec) ==
  /\ IsTransition(rec) /\ rec.request_id \in Rids /\ rec.config_version \in Versions
  /\ rec.declared_type \in Types \cup {NoType} /\ rec.event_id \in Nat
  /\ rec.routing_target \in Targets \cup {NoTarget} /\ rec.guard_result \in BOOLEAN

Goes(a, rec, b) ==
  \/ /\ OfConfig(rec)
     /\ b = State(a.ledger, rec.snapshot,
                  [a.configs EXCEPT ![rec.snapshot.version] = rec.snapshot])
  \/ OfSession(rec) /\ b = a
  \/ /\ OfCleanup(rec)
     /\ b = State([a.ledger EXCEPT ![rec.request_id] = Absent], a.config, a.configs)
  \/ OfDuplicate(rec) /\ b = a
  \/ /\ OfTransition(rec) /\ FitsAt(a.ledger, a.configs, rec)
     /\ b = State([a.ledger EXCEPT ![rec.request_id] = ReplayedAt(a.ledger, rec)],
                  a.config, a.configs)

\* A ledger of entries, finitely many of them admitted, and the snapshots they name.
EntryTyped(e) == e \in Entry /\ (e.lifecycle_state = "absent" => e = Absent)
Present(led) == {r \in Rids : led[r].lifecycle_state # "absent"}
LedgerTyped(led) ==
  /\ led = [r \in Rids |-> led[r]] /\ \A r \in Rids : EntryTyped(led[r])
  /\ IsFiniteSet(Present(led))
PolicyTyped(cfg, snaps) ==
  /\ cfg \in Snapshots /\ snaps \in [Versions -> Snapshots \cup {NoSnapshot}]
  /\ snaps[cfg.version] # NoSnapshot
  /\ \A v \in Versions : snaps[v] # NoSnapshot => snaps[v].version = v
Typed(a) == LedgerTyped(a.ledger) /\ PolicyTyped(a.config, a.configs)

-----------------------------------------------------------------------------
LEMMA Ascend ==
  ASSUME NEW L \in Nat, NEW Good, 0 \in Good,
         \A n \in 1..L : n - 1 \in Good => n \in Good
  PROVE  \A n \in 0..L : n \in Good
<1> SUFFICES ASSUME NEW k \in 0..L, k \notin Good PROVE FALSE
  OBVIOUS
<1>1. PICK T : T = {n \in 0..L : n \notin Good}
  OBVIOUS
<1>2. T \in SUBSET Nat /\ T # {}
  BY <1>1
<1>3. PICK m \in T : \A y \in T : m <= y
  BY <1>2, LeastNatural
<1>4. m \in 1..L /\ m - 1 \in 0..L /\ ~(m <= m - 1)
  BY <1>1, <1>3
<1>5. m - 1 \in Good
  BY <1>1, <1>3, <1>4
<1> QED BY <1>1, <1>3, <1>4, <1>5

\* No row leads out of the ledger.
LEMMA RowStates ==
  ASSUME NEW state, NEW event, NEW i \in 1..Len(Rows(state, event))
  PROVE  Rows(state, event)[i].next \in States \ {"absent"}
<1> USE DEF NonTerminal, Terminal, Row, States
<1>1. CASE event = "request.cancelled"
  <2>1. Rows(state, event) = CancelRows(state)
    BY <1>1, Zenon DEF Rows
  <2> QED BY <2>1 DEF CancelRows, CancelRow
<1>2. CASE state = "created" /\ event # "request.cancelled"
  BY <1>2 DEF Rows
<1>3. CASE state = "initialized" /\ event # "request.cancelled"
  BY <1>3 DEF Rows
<1>4. CASE state = "scheduled" /\ event # "request.cancelled"
  BY <1>4 DEF Rows
<1>5. CASE state = "executing" /\ event # "request.cancelled"
  BY <1>5 DEF Rows
<1>6. CASE state = "verifying" /\ event # "request.cancelled"
  BY <1>6 DEF Rows
<1>7. CASE /\ state \notin {"created", "initialized", "scheduled", "executing", "verifying"}
           /\ event # "request.cancelled"
  BY <1>7 DEF Rows
<1> QED BY <1>1, <1>2, <1>3, <1>4, <1>5, <1>6, <1>7

\* The entry a transition record is replayed against is an entry.
LEMMA EntryAtFacts ==
  ASSUME NEW led, LedgerTyped(led), NEW rec, OfTransition(rec)
  PROVE  /\ EntryAt(led, rec) \in Entry
         /\ EntryAt(led, rec).transition_sequence = led[rec.request_id].transition_sequence
         /\ led[rec.request_id] \in Entry
<1>1. EntryTyped(led[rec.request_id]) /\ led[rec.request_id] \in Entry
  BY DEF LedgerTyped, OfTransition, EntryTyped
<1>2. CASE led[rec.request_id].lifecycle_state # "absent"
  BY <1>1, <1>2 DEF EntryAt
<1>3. CASE led[rec.request_id].lifecycle_state = "absent"
  <2>1. led[rec.request_id] = Absent /\ EntryAt(led, rec) = NewEntry(rec.declared_type, rec.config_version)
    BY <1>1, <1>3 DEF EntryAt, EntryTyped
  <2>2. NewEntry(rec.declared_type, rec.config_version) \in Entry
    BY NewEntryFields DEF OfTransition
  <2>3. /\ Absent.transition_sequence = 0
        /\ NewEntry(rec.declared_type, rec.config_version).transition_sequence = 0
    BY DEF Absent, NewEntry
  <2> QED BY <1>1, <2>1, <2>2, <2>3
<1> QED BY <1>2, <1>3

LEMMA RowAtFacts ==
  ASSUME NEW led, NEW rec, Rows(EntryAt(led, rec).lifecycle_state, rec.event) # <<>>
  PROVE  RowAt(led, rec).next \in States \ {"absent"}
<1>1. PICK s : s = EntryAt(led, rec).lifecycle_state
  OBVIOUS
<1>2. PICK rows : rows = Rows(s, rec.event)
  OBVIOUS
<1>3. Len(rows) \in {1, 2}
  BY <1>1, <1>2, RowsShape
<1>4. PICK i \in 1..Len(rows) : RowAt(led, rec) = rows[i]
  BY <1>1, <1>2, <1>3 DEF RowAt
<1> QED BY <1>2, <1>4, RowStates

\* A replayed transition leaves an entry that is one step further.
LEMMA ReplayedFacts ==
  ASSUME NEW led, LedgerTyped(led), NEW rec, OfTransition(rec), NEW snaps, FitsAt(led, snaps, rec)
  PROVE  /\ EntryTyped(ReplayedAt(led, rec))
         /\ ReplayedAt(led, rec).transition_sequence = rec.sequence
         /\ rec.sequence = led[rec.request_id].transition_sequence + 1
<1>1. PICK e \in Entry : e = EntryAt(led, rec)
  BY EntryAtFacts
<1>2. PICK row : row = RowAt(led, rec)
  OBVIOUS
<1>3. row.next \in States \ {"absent"}
  BY <1>2, RowAtFacts DEF FitsAt
<1>4. PICK d : d = Advance(e, rec.event, rec.event_id, row, rec.routing_target)
  OBVIOUS
<1>5. d \in Entry /\ d.lifecycle_state = row.next
  BY <1>3, <1>4, AdvanceFields DEF OfTransition
<1>6. /\ rec.sequence = e.transition_sequence + 1
      /\ e.transition_sequence = led[rec.request_id].transition_sequence
  BY <1>1, EntryAtFacts DEF FitsAt
<1>7. rec.sequence \in Nat
  BY <1>6 DEF Entry
<1>8. PICK f : f = [d EXCEPT !.transition_sequence = rec.sequence]
  OBVIOUS
<1>9. f \in Entry /\ f.lifecycle_state = row.next /\ f.transition_sequence = rec.sequence
  BY <1>5, <1>7, <1>8 DEF Entry
<1>10. f = ReplayedAt(led, rec)
  BY <1>1, <1>2, <1>4, <1>8 DEF ReplayedAt
<1> QED BY <1>3, <1>6, <1>9, <1>10 DEF EntryTyped

LEMMA AbsentTyped == EntryTyped(Absent) /\ Absent.transition_sequence = 0
BY SnapshotAssumption DEF EntryTyped, Absent, Entry, States, NonTerminal, Terminal, Versions

LEMMA LedgerPut ==
  ASSUME NEW led, LedgerTyped(led), NEW rid \in Rids, NEW e, EntryTyped(e)
  PROVE  LedgerTyped([led EXCEPT ![rid] = e])
<1>1. PICK new : new = [led EXCEPT ![rid] = e]
  OBVIOUS
<1>2. led = [r \in Rids |-> led[r]] /\ (\A r \in Rids : EntryTyped(led[r]))
      /\ IsFiniteSet(Present(led))
  BY DEF LedgerTyped
<1>3. new = [r \in Rids |-> new[r]] /\ \A r \in Rids : new[r] = IF r = rid THEN e ELSE led[r]
  BY <1>1, <1>2
<1>4. Present(new) \subseteq Present(led) \cup {rid}
  BY <1>3 DEF Present
<1>5. IsFiniteSet(Present(led) \cup {rid})
  BY <1>2, FS_AddElement
<1>6. IsFiniteSet(Present(new))
  BY <1>4, <1>5, FS_Subset
<1>7. \A r \in Rids : EntryTyped(new[r])
  BY <1>2, <1>3
<1>8. LedgerTyped(new)
  BY <1>3, <1>6, <1>7 DEF LedgerTyped
<1> QED BY <1>1, <1>8

LEMMA PolicyPut ==
  ASSUME NEW cfg, NEW snaps, PolicyTyped(cfg, snaps), NEW s \in Snapshots
  PROVE  PolicyTyped(s, [snaps EXCEPT ![s.version] = s])
<1>1. s.version \in Versions /\ s # NoSnapshot
  BY SnapshotAssumption DEF Versions
<1>2. PICK new : new = [snaps EXCEPT ![s.version] = s]
  OBVIOUS
<1>3. snaps \in [Versions -> Snapshots \cup {NoSnapshot}]
  BY DEF PolicyTyped
<1>4. /\ new \in [Versions -> Snapshots \cup {NoSnapshot}]
      /\ \A v \in Versions : new[v] = IF v = s.version THEN s ELSE snaps[v]
  BY <1>2, <1>3
<1>5. PolicyTyped(s, new)
  BY <1>1, <1>4 DEF PolicyTyped
<1> QED BY <1>2, <1>5

LEMMA GoesTyped ==
  ASSUME NEW a, Typed(a), NEW rec, NEW b, Goes(a, rec, b)
  PROVE  Typed(b)
<1>1. PICK led, cfg, snaps : led = a.ledger /\ cfg = a.config /\ snaps = a.configs
  OBVIOUS
<1>2. LedgerTyped(led) /\ PolicyTyped(cfg, snaps)
  BY <1>1 DEF Typed
<1>3. CASE b = a
  BY <1>3
<1>4. CASE /\ OfConfig(rec)
           /\ b = State(led, rec.snapshot, [snaps EXCEPT ![rec.snapshot.version] = rec.snapshot])
  <2>1. rec.snapshot \in Snapshots
    BY <1>4 DEF OfConfig
  <2>2. PolicyTyped(rec.snapshot, [snaps EXCEPT ![rec.snapshot.version] = rec.snapshot])
    BY <1>2, <2>1, PolicyPut
  <2> QED BY <1>2, <1>4, <2>2, Zenon DEF State, Typed
<1>5. ASSUME NEW rid \in Rids, NEW e, EntryTyped(e), b = State([led EXCEPT ![rid] = e], cfg, snaps)
      PROVE  Typed(b)
  <2>1. LedgerTyped([led EXCEPT ![rid] = e])
    BY <1>2, <1>5, LedgerPut
  <2> QED BY <1>2, <1>5, <2>1, Zenon DEF State, Typed
<1>6. CASE /\ OfCleanup(rec) /\ b = State([led EXCEPT ![rec.request_id] = Absent], cfg, snaps)
  BY <1>5, <1>6, AbsentTyped DEF OfCleanup
<1>7. CASE /\ OfTransition(rec) /\ FitsAt(led, snaps, rec)
           /\ b = State([led EXCEPT ![rec.request_id] = ReplayedAt(led, rec)], cfg, snaps)
  <2>1. EntryTyped(ReplayedAt(led, rec)) /\ rec.request_id \in Rids
    BY <1>2, <1>7, ReplayedFacts DEF OfTransition
  <2> QED BY <1>5, <1>7, <2>1
<1> QED BY <1>1, <1>3, <1>4, <1>6, <1>7, Zenon DEF Goes

\* h is what the replay of recs goes through, state by state.
IsChain(h, recs) == \A i \in 1..Len(recs) : Goes(h[i - 1], recs[i], h[i])
Leads(a, recs, b) ==
  IsSeq(recs) /\ \E h : h[0] = a /\ h[Len(recs)] = b /\ IsChain(h, recs)

LEMMA LeadsNone == \A a : Leads(a, <<>>, a)
<1> SUFFICES ASSUME NEW a PROVE Leads(a, <<>>, a)
  OBVIOUS
<1>1. PICK recs : recs = <<>>
  OBVIOUS
<1>2. IsSeq(recs) /\ Len(recs) = 0
  BY <1>1, TupleIsSeq
<1>3. PICK h : h = [i \in {0} |-> a]
  OBVIOUS
<1>4. h[0] = a /\ h[Len(recs)] = a /\ IsChain(h, recs)
  BY <1>2, <1>3 DEF IsChain
<1>5. Leads(a, recs, a)
  BY <1>2, <1>4 DEF Leads
<1> QED BY <1>1, <1>5

LEMMA LeadsOn ==
  ASSUME NEW a, NEW b, NEW c, NEW recs, NEW more, Leads(a, recs, b), Leads(b, more, c)
  PROVE  Leads(a, recs \o more, c)
<1>1. PICK s : s = recs \o more
  OBVIOUS
<1>2. IsSeq(recs) /\ IsSeq(more)
  BY DEF Leads
<1>3. PICK m \in Nat, n \in Nat : m = Len(recs) /\ n = Len(more)
  BY <1>2, ConcatIsSeq
<1>4. /\ IsSeq(s) /\ Len(s) = m + n
      /\ \A i \in 1..m : s[i] = recs[i]
      /\ \A i \in 1..n : s[m + i] = more[i]
  BY <1>1, <1>2, <1>3, ConcatIsSeq
<1>5. PICK h : h[0] = a /\ h[m] = b /\ \A i \in 1..m : Goes(h[i - 1], recs[i], h[i])
  BY <1>3 DEF Leads, IsChain
<1>6. PICK g : g[0] = b /\ g[n] = c /\ \A i \in 1..n : Goes(g[i - 1], more[i], g[i])
  BY <1>3 DEF Leads, IsChain
<1>7. PICK f : f = [i \in 0..(m + n) |-> IF i <= m THEN h[i] ELSE g[i - m]]
  OBVIOUS
<1>8. /\ \A i \in 0..m : f[i] = h[i]
      /\ \A i \in 0..n : f[m + i] = g[i]
  <2>1. \A i \in 0..m : f[i] = h[i]
    BY <1>7
  <2>2. ASSUME NEW i \in 0..n PROVE f[m + i] = g[i]
    <3>1. CASE i = 0
      BY <1>5, <1>6, <1>7, <3>1
    <3>2. CASE i # 0
      <4>1. m + i \in 0..(m + n) /\ ~(m + i <= m) /\ (m + i) - m = i
        BY <3>2
      <4> QED BY <1>7, <4>1
    <3> QED BY <3>1, <3>2
  <2> QED BY <2>1, <2>2
<1>9. ASSUME NEW i \in 1..(m + n) PROVE Goes(f[i - 1], s[i], f[i])
  <2>1. CASE i <= m
    <3>1. i \in 1..m /\ i - 1 \in 0..m /\ i \in 0..m
      BY <2>1
    <3>2. Goes(h[i - 1], recs[i], h[i])
      BY <1>5, <3>1
    <3> QED BY <1>4, <1>8, <3>1, <3>2
  <2>2. CASE ~(i <= m)
    <3>1. PICK k \in 1..n : i = m + k
      <4>1. i - m \in 1..n /\ i = m + (i - m)
        BY <2>2
      <4> QED BY <4>1
    <3>2. k \in 0..n /\ k - 1 \in 0..n /\ i - 1 = m + (k - 1)
      BY <3>1
    <3>3. Goes(g[k - 1], more[k], g[k])
      BY <1>6
    <3> QED BY <1>4, <1>8, <3>1, <3>2, <3>3
  <2> QED BY <2>1, <2>2
<1>10. f[0] = a /\ f[m + n] = c
  <2>1. 0 \in 0..m /\ n \in 0..n
    OBVIOUS
  <2> QED BY <1>5, <1>6, <1>8, <2>1
<1>11. Leads(a, s, c)
  BY <1>4, <1>9, <1>10 DEF Leads, IsChain
<1> QED BY <1>1, <1>11

LEMMA LeadsOne ==
  ASSUME NEW a, NEW rec, NEW b, Goes(a, rec, b)
  PROVE  Leads(a, <<rec>>, b)
<1>1. PICK recs : recs = <<rec>>
  OBVIOUS
<1>2. IsSeq(recs) /\ Len(recs) = 1 /\ recs[1] = rec
  BY <1>1, TupleIsSeq
<1>3. PICK h : h = [i \in {0, 1} |-> IF i = 0 THEN a ELSE b]
  OBVIOUS
<1>4. h[0] = a /\ h[1] = b
  BY <1>3
<1>5. IsChain(h, recs)
  BY <1>2, <1>4 DEF IsChain
<1>6. Leads(a, recs, b)
  BY <1>2, <1>4, <1>5 DEF Leads
<1> QED BY <1>1, <1>6

\* All states of a replay that starts typed are typed.
LEMMA ChainTyped ==
  ASSUME NEW recs, IsSeq(recs), NEW h, IsChain(h, recs), Typed(h[0])
  PROVE  \A i \in 0..Len(recs) : Typed(h[i])
<1>1. PICK L \in Nat : L = Len(recs)
  BY ConcatIsSeq
<1>2. PICK Good : Good = {i \in 0..L : Typed(h[i])}
  OBVIOUS
<1>3. ASSUME NEW n \in 1..L, n - 1 \in Good PROVE n \in Good
  <2>1. Typed(h[n - 1]) /\ Goes(h[n - 1], recs[n], h[n])
    BY <1>1, <1>2, <1>3 DEF IsChain
  <2>2. Typed(h[n])
    BY <2>1, GoesTyped
  <2> QED BY <1>2, <2>2
<1>4. 0 \in Good
  BY <1>2
<1>5. \A n \in 0..L : n \in Good
  BY <1>3, <1>4, Ascend
<1> QED BY <1>1, <1>2, <1>5

\* The replay of a record is determined by the record.
LEMMA GoesOnce ==
  ASSUME NEW a, NEW rec, NEW b, NEW c, Goes(a, rec, b), Goes(a, rec, c)
  PROVE  b = c
<1> USE DEF IsTransition, SessionEvents, RequestEvents
<1>1. CASE OfConfig(rec)
  <2>1. ~OfSession(rec) /\ ~OfCleanup(rec) /\ ~OfDuplicate(rec) /\ ~OfTransition(rec)
    BY <1>1 DEF OfConfig, OfSession, OfCleanup, OfDuplicate, OfTransition
  <2> QED BY <2>1, Zenon DEF Goes
<1>2. CASE OfSession(rec)
  <2>1. ~OfConfig(rec) /\ ~OfCleanup(rec) /\ ~OfDuplicate(rec) /\ ~OfTransition(rec)
    BY <1>2 DEF OfConfig, OfSession, OfCleanup, OfDuplicate, OfTransition
  <2> QED BY <2>1, Zenon DEF Goes
<1>3. CASE OfCleanup(rec)
  <2>1. ~OfConfig(rec) /\ ~OfSession(rec) /\ ~OfDuplicate(rec) /\ ~OfTransition(rec)
    BY <1>3 DEF OfConfig, OfSession, OfCleanup, OfDuplicate, OfTransition
  <2> QED BY <2>1, Zenon DEF Goes
<1>4. CASE OfDuplicate(rec)
  <2>1. ~OfConfig(rec) /\ ~OfSession(rec) /\ ~OfCleanup(rec) /\ ~OfTransition(rec)
    BY <1>4 DEF OfConfig, OfSession, OfCleanup, OfDuplicate, OfTransition
  <2> QED BY <2>1, Zenon DEF Goes
<1>5. CASE OfTransition(rec)
  <2>1. ~OfConfig(rec) /\ ~OfSession(rec) /\ ~OfCleanup(rec) /\ ~OfDuplicate(rec)
    BY <1>5 DEF OfConfig, OfSession, OfCleanup, OfDuplicate, OfTransition
  <2> QED BY <2>1, Zenon DEF Goes
<1> QED BY <1>1, <1>2, <1>3, <1>4, <1>5, Zenon DEF Goes

\* Two replays of the same records from the same state go through the same states.
LEMMA ChainsAgree ==
  ASSUME NEW recs, NEW full, NEW L \in Nat, NEW g, NEW h, g[0] = h[0],
         \A i \in 1..L : Goes(g[i - 1], recs[i], g[i]) /\ Goes(h[i - 1], full[i], h[i])
                         /\ recs[i] = full[i]
  PROVE  \A i \in 0..L : g[i] = h[i]
<1>2. PICK Good : Good = {i \in 0..L : g[i] = h[i]}
  OBVIOUS
<1>3. ASSUME NEW n \in 1..L, n - 1 \in Good PROVE n \in Good
  <2>1. /\ g[n - 1] = h[n - 1] /\ Goes(g[n - 1], recs[n], g[n])
        /\ Goes(h[n - 1], full[n], h[n]) /\ recs[n] = full[n]
    BY <1>2, <1>3
  <2>2. Goes(g[n - 1], recs[n], h[n])
    BY <2>1
  <2>3. g[n] = h[n]
    BY <2>1, <2>2, GoesOnce
  <2> QED BY <1>2, <2>3
<1>4. 0 \in Good
  BY <1>2
<1>5. \A n \in 0..L : n \in Good
  BY <1>3, <1>4, Ascend
<1> QED BY <1>2, <1>5

\* What a record that does not evict request r does to the entry of r.
LEMMA GoesEntry ==
  ASSUME NEW a, Typed(a), NEW rec, NEW b, Goes(a, rec, b), NEW r \in Rids,
         ~(rec.event = "__cleanup__" /\ rec.request_id = r)
  PROVE  \/ b.ledger[r] = a.ledger[r]
         \/ /\ OfTransition(rec) /\ rec.request_id = r
            /\ b.ledger[r] = ReplayedAt(a.ledger, rec)
            /\ b.ledger[r].transition_sequence = rec.sequence
            /\ rec.sequence = a.ledger[r].transition_sequence + 1
<1>1. PICK led, cfg, snaps : led = a.ledger /\ cfg = a.config /\ snaps = a.configs
  OBVIOUS
<1>2. LedgerTyped(led) /\ led = [q \in Rids |-> led[q]]
  BY <1>1 DEF Typed, LedgerTyped
<1>3. CASE b.ledger = led
  BY <1>1, <1>3
<1>4. CASE /\ OfCleanup(rec)
           /\ b = State([led EXCEPT ![rec.request_id] = Absent], cfg, snaps)
  <2>1. rec.request_id # r
    BY <1>4 DEF OfCleanup
  <2>2. b.ledger = [led EXCEPT ![rec.request_id] = Absent]
    BY <1>4 DEF State
  <2> QED BY <1>1, <1>2, <2>1, <2>2
<1>5. CASE /\ OfTransition(rec) /\ FitsAt(led, snaps, rec)
           /\ b = State([led EXCEPT ![rec.request_id] = ReplayedAt(led, rec)], cfg, snaps)
  <2>1. PICK e : e = ReplayedAt(led, rec)
    OBVIOUS
  <2>2. b.ledger = [led EXCEPT ![rec.request_id] = e]
    BY <1>5, <2>1 DEF State
  <2>3. CASE rec.request_id # r
    BY <1>1, <1>2, <2>2, <2>3
  <2>4. CASE rec.request_id = r
    <3>1. b.ledger[r] = e
      BY <1>2, <2>2, <2>4
    <3>2. e.transition_sequence = rec.sequence
          /\ rec.sequence = led[r].transition_sequence + 1
      BY <1>2, <1>5, <2>1, <2>4, ReplayedFacts
    <3> QED BY <1>1, <1>5, <2>1, <2>4, <3>1, <3>2
  <2> QED BY <2>3, <2>4
<1>6. \/ b = a \/ b = State(led, rec.snapshot, [snaps EXCEPT ![rec.snapshot.version] = rec.snapshot])
      => b.ledger = led
  BY <1>1 DEF State
<1> QED BY <1>1, <1>3, <1>4, <1>5, <1>6, Zenon DEF Goes

\* While a request is not evicted its sequence number rises with every transition, so
\* that it tells the entry.
LEMMA ChainRises ==
  ASSUME NEW full, IsSeq(full), NEW h, IsChain(h, full), Typed(h[0]), NEW r \in Rids,
         \A i \in 1..Len(full) : ~(full[i].event = "__cleanup__" /\ full[i].request_id = r)
  PROVE  \A j \in 0..Len(full) : \A i \in 0..j :
           /\ h[i].ledger[r].transition_sequence <= h[j].ledger[r].transition_sequence
           /\ h[i].ledger[r].transition_sequence = h[j].ledger[r].transition_sequence
                => h[i].ledger[r] = h[j].ledger[r]
<1>1. PICK L \in Nat : L = Len(full)
  BY ConcatIsSeq
<1>2. PICK c : c = [i \in 0..L |-> h[i].ledger[r]]
  OBVIOUS
<1>3. \A i \in 0..L : c[i] = h[i].ledger[r] /\ c[i].transition_sequence \in Nat
  <2>1. \A i \in 0..L : Typed(h[i])
    BY <1>1, ChainTyped
  <2>2. \A i \in 0..L : h[i].ledger[r] \in Entry
    BY <2>1 DEF Typed, LedgerTyped, EntryTyped
  <2> QED BY <1>2, <2>2 DEF Entry
<1>4. ASSUME NEW n \in 1..L
      PROVE  \/ c[n] = c[n - 1]
             \/ c[n].transition_sequence = c[n - 1].transition_sequence + 1
  <2>1. Typed(h[n - 1]) /\ Goes(h[n - 1], full[n], h[n])
        /\ ~(full[n].event = "__cleanup__" /\ full[n].request_id = r)
    <3>1. n - 1 \in 0..Len(full) /\ n \in 1..Len(full)
      BY <1>1
    <3> QED BY <3>1, ChainTyped DEF IsChain
  <2>2. \/ h[n].ledger[r] = h[n - 1].ledger[r]
        \/ h[n].ledger[r].transition_sequence = h[n - 1].ledger[r].transition_sequence + 1
    BY <2>1, GoesEntry
  <2>3. n - 1 \in 0..L /\ n \in 0..L
    OBVIOUS
  <2> QED BY <1>3, <2>2, <2>3
<1> DEFINE Rises(j) == \A i \in 0..j :
             /\ c[i].transition_sequence <= c[j].transition_sequence
             /\ c[i].transition_sequence = c[j].transition_sequence => c[i] = c[j]
<1>5. PICK Good : Good = {j \in 0..L : Rises(j)}
  OBVIOUS
<1>6. 0 \in Good
  BY <1>3, <1>5
<1>7. ASSUME NEW n \in 1..L, n - 1 \in Good PROVE n \in Good
  <2>1. Rises(n - 1)
    BY <1>5, <1>7
  <2>2. ASSUME NEW i \in 0..n
        PROVE  /\ c[i].transition_sequence <= c[n].transition_sequence
               /\ c[i].transition_sequence = c[n].transition_sequence => c[i] = c[n]
    <3>1. CASE i = n
      BY <1>3, <3>1
    <3>2. CASE i # n
      <4>1. i \in 0..(n - 1) /\ i \in 0..L /\ n - 1 \in 0..L /\ n \in 0..L
        BY <3>2
      <4>2. /\ c[i].transition_sequence <= c[n - 1].transition_sequence
            /\ c[i].transition_sequence = c[n - 1].transition_sequence => c[i] = c[n - 1]
        BY <2>1, <4>1
      <4>3. c[i].transition_sequence \in Nat /\ c[n - 1].transition_sequence \in Nat
        BY <1>3, <4>1
      <4> HIDE DEF Rises
      <4>4. CASE c[n] = c[n - 1]
        BY <4>2, <4>4
      <4>5. CASE c[n].transition_sequence = c[n - 1].transition_sequence + 1
        BY <4>2, <4>3, <4>5
      <4> QED BY <1>4, <4>4, <4>5
    <3> QED BY <3>1, <3>2
  <2>3. Rises(n)
    BY <2>2
  <2> QED BY <1>5, <2>3
<1>8. \A n \in 0..L : n \in Good
  <2> HIDE DEF Rises
  <2> QED BY <1>6, <1>7, Ascend
<1>9. \A j \in 0..L : Rises(j)
  <2> HIDE DEF Rises
  <2> QED BY <1>5, <1>8
<1>10. ASSUME NEW j \in 0..L, NEW i \in 0..j
       PROVE  /\ h[i].ledger[r].transition_sequence <= h[j].ledger[r].transition_sequence
              /\ h[i].ledger[r].transition_sequence = h[j].ledger[r].transition_sequence
                   => h[i].ledger[r] = h[j].ledger[r]
  <2>1. i \in 0..L
    OBVIOUS
  <2>2. /\ c[i].transition_sequence <= c[j].transition_sequence
        /\ c[i].transition_sequence = c[j].transition_sequence => c[i] = c[j]
    BY <1>9
  <2>3. c[i] = h[i].ledger[r] /\ c[j] = h[j].ledger[r]
    BY <1>3, <2>1
  <2> HIDE DEF Rises
  <2> QED BY <2>2, <2>3
<1> QED BY <1>1, <1>10

Spares(recs, r) == \A i \in 1..Len(recs) : ~(recs[i].event = "__cleanup__" /\ recs[i].request_id = r)
Among(recs, full) == \A i \in 1..Len(recs) : \E j \in 1..Len(full) : recs[i] = full[j]

\* Replaying some of the records, in an order that fits, only goes through entries that
\* the request has had.
LEMMA ChainFollows ==
  ASSUME NEW full, IsSeq(full), NEW h, IsChain(h, full), Typed(h[0]), NEW r \in Rids,
         Spares(full, r),
         NEW recs, IsSeq(recs), NEW g, IsChain(g, recs), g[0] = h[0], Among(recs, full),
         NEW k \in 0..Len(recs)
  PROVE  \E i \in 0..Len(full) : g[k].ledger[r] = h[i].ledger[r]
<1>1. /\ \A i \in 1..Len(full) : ~(full[i].event = "__cleanup__" /\ full[i].request_id = r)
      /\ \A i \in 1..Len(recs) : \E j \in 1..Len(full) : recs[i] = full[j]
  BY DEF Spares, Among
<1>2. PICK L \in Nat : L = Len(recs)
  BY ConcatIsSeq
<1>3. PICK M \in Nat : M = Len(full)
  BY ConcatIsSeq
<1>4. PICK Good : Good = {n \in 0..L : \E i \in 0..M : g[n].ledger[r] = h[i].ledger[r]}
  OBVIOUS
<1>5. 0 \in Good
  BY <1>4
<1>6. ASSUME NEW n \in 1..L, n - 1 \in Good PROVE n \in Good
  <2>1. PICK i \in 0..M : g[n - 1].ledger[r] = h[i].ledger[r]
    BY <1>4, <1>6
  <2>2. PICK j \in 1..M : recs[n] = full[j]
    BY <1>2, <1>3, <1>1
  <2>3. Typed(g[n - 1])
    <3>1. n - 1 \in 0..Len(recs) /\ Typed(g[0])
      BY <1>2
    <3> QED BY <3>1, ChainTyped
  <2>4. Typed(h[j - 1]) /\ Typed(h[i])
    <3>1. j - 1 \in 0..Len(full) /\ i \in 0..Len(full)
      BY <1>3
    <3> QED BY <3>1, ChainTyped
  <2>5. PICK rec : rec = recs[n] /\ rec = full[j]
    BY <2>2
  <2>6. Goes(g[n - 1], rec, g[n]) /\ Goes(h[j - 1], rec, h[j])
        /\ ~(rec.event = "__cleanup__" /\ rec.request_id = r)
    BY <1>2, <1>3, <1>1, <2>5 DEF IsChain
  <2>7. CASE g[n].ledger[r] = g[n - 1].ledger[r]
    BY <1>4, <2>1, <2>7
  <2>8. CASE /\ OfTransition(rec) /\ rec.request_id = r
             /\ g[n].ledger[r] = ReplayedAt(g[n - 1].ledger, rec)
             /\ rec.sequence = g[n - 1].ledger[r].transition_sequence + 1
    <3>1. \/ h[j].ledger[r] = h[j - 1].ledger[r]
          \/ /\ h[j].ledger[r] = ReplayedAt(h[j - 1].ledger, rec)
             /\ rec.sequence = h[j - 1].ledger[r].transition_sequence + 1
      BY <2>4, <2>6, GoesEntry
    <3>2. /\ h[j].ledger[r] = ReplayedAt(h[j - 1].ledger, rec)
          /\ rec.sequence = h[j - 1].ledger[r].transition_sequence + 1
      <4>1. FitsAt(h[j - 1].ledger, h[j - 1].configs, rec)
            /\ h[j] = State([h[j - 1].ledger EXCEPT ![rec.request_id] = ReplayedAt(h[j - 1].ledger, rec)],
                            h[j - 1].config, h[j - 1].configs)
        <5>1. ~OfConfig(rec) /\ ~OfSession(rec) /\ ~OfCleanup(rec) /\ ~OfDuplicate(rec)
          BY <2>8 DEF OfConfig, OfSession, OfCleanup, OfDuplicate, OfTransition, IsTransition
        <5> QED BY <2>6, <5>1, Zenon DEF Goes
      <4>2. LedgerTyped(h[j - 1].ledger)
        BY <2>4 DEF Typed
      <4>3. rec.sequence = h[j - 1].ledger[r].transition_sequence + 1
        BY <2>8, <4>1, <4>2, ReplayedFacts
      <4>4. h[j].ledger = [h[j - 1].ledger EXCEPT ![r] = ReplayedAt(h[j - 1].ledger, rec)]
        BY <2>8, <4>1 DEF State
      <4>5. h[j - 1].ledger = [q \in Rids |-> h[j - 1].ledger[q]]
        BY <4>2 DEF LedgerTyped
      <4>6. h[j].ledger[r] = ReplayedAt(h[j - 1].ledger, rec)
        BY <4>4, <4>5
      <4> QED BY <4>3, <4>6
    <3>3. h[i].ledger[r].transition_sequence = h[j - 1].ledger[r].transition_sequence
      <4>1. /\ h[i].ledger[r].transition_sequence \in Nat
            /\ h[j - 1].ledger[r].transition_sequence \in Nat
        BY <2>4 DEF Typed, LedgerTyped, EntryTyped, Entry
      <4>2. PICK x \in Nat : x = h[i].ledger[r].transition_sequence
        BY <4>1
      <4>3. PICK y \in Nat : y = h[j - 1].ledger[r].transition_sequence
        BY <4>1
      <4>4. rec.sequence = x + 1
        BY <2>1, <2>8, <4>2
      <4>5. rec.sequence = y + 1
        BY <3>2, <4>3
      <4>6. x = y
        BY <4>4, <4>5
      <4> QED BY <4>2, <4>3, <4>6
    <3>4. h[i].ledger[r] = h[j - 1].ledger[r]
      <4>1. i \in 0..(j - 1) \/ j - 1 \in 0..i
        OBVIOUS
      <4>2. j - 1 \in 0..Len(full) /\ i \in 0..Len(full)
        BY <1>3
      <4> QED BY <1>1, <3>3, <4>1, <4>2, ChainRises
    <3>5. ReplayedAt(g[n - 1].ledger, rec) = ReplayedAt(h[j - 1].ledger, rec)
      <4>1. g[n - 1].ledger[rec.request_id] = h[j - 1].ledger[rec.request_id]
        BY <2>1, <2>8, <3>4
      <4>2. EntryAt(g[n - 1].ledger, rec) = EntryAt(h[j - 1].ledger, rec)
        BY <4>1 DEF EntryAt
      <4>3. RowAt(g[n - 1].ledger, rec) = RowAt(h[j - 1].ledger, rec)
        BY <4>2 DEF RowAt
      <4> QED BY <4>2, <4>3 DEF ReplayedAt
    <3>6. j \in 0..M
      OBVIOUS
    <3> QED BY <1>4, <2>8, <3>2, <3>5, <3>6
  <2> QED BY <2>3, <2>6, <2>7, <2>8, GoesEntry
<1>7. \A n \in 0..L : n \in Good
  BY <1>5, <1>6, Ascend
<1> QED BY <1>2, <1>3, <1>4, <1>7

LEMMA SameSeq ==
  ASSUME NEW s, NEW t, IsSeq(s), IsSeq(t), Len(s) = Len(t), \A i \in 1..Len(s) : s[i] = t[i]
  PROVE  s = t
<1>1. PICK A, B : s \in Seq(A) /\ t \in Seq(B)
  BY DEF IsSeq
<1>2. PICK S : S = A \cup B
  OBVIOUS
<1>3. s \in Seq(S) /\ t \in Seq(S)
  BY <1>1, <1>2, SeqMonotonic
<1>4. PICK n \in Nat : n = Len(s) /\ n = Len(t)
  BY <1>3
<1>5. s \in [1..n -> S] /\ t \in [1..n -> S]
  BY <1>3, <1>4
<1> QED BY <1>4, <1>5

LEMMA AppendConcat ==
  ASSUME NEW s, NEW t, IsSeq(s), IsSeq(t), NEW x
  PROVE  Append(s \o t, x) = s \o Append(t, x)
<1>1. PICK A, B : s \in Seq(A) /\ t \in Seq(B)
  BY DEF IsSeq
<1>2. PICK S : S = A \cup B \cup {x}
  OBVIOUS
<1>3. s \in Seq(S) /\ t \in Seq(S) /\ x \in S
  BY <1>1, <1>2, SeqMonotonic
<1>4. PICK u : u = <<x>>
  OBVIOUS
<1>5. u \in Seq(S) /\ s \o t \in Seq(S)
  BY <1>3, <1>4, ConcatProperties
<1>6. Append(t, x) = t \o u /\ Append(s \o t, x) = (s \o t) \o u
  BY <1>3, <1>4, <1>5, AppendIsConcat
<1>7. (s \o t) \o u = s \o (t \o u)
  BY <1>3, <1>5, ConcatAssociative
<1> QED BY <1>6, <1>7

Logged(msgs) == {i \in DOMAIN msgs : msgs[i].topic = LogTopic}
Bodies(s) == [i \in 1..Len(s) |-> s[i].body]

LEMMA LogRecordsAre ==
  ASSUME NEW msgs PROVE LogRecords(msgs) = Bodies(Subsequence(msgs, Logged(msgs)))
BY DEF LogRecords, Logged, Bodies

LEMMA BodiesFacts ==
  ASSUME NEW s, IsSeq(s)
  PROVE  IsSeq(Bodies(s)) /\ Len(Bodies(s)) = Len(s) /\ \A i \in 1..Len(s) : Bodies(s)[i] = s[i].body
<1>1. PICK n \in Nat : n = Len(s)
  BY ConcatIsSeq
<1>2. PICK b : b = Bodies(s)
  OBVIOUS
<1>3. b = [i \in 1..n |-> b[i]] /\ \A i \in 1..n : b[i] = s[i].body
  BY <1>1, <1>2 DEF Bodies
<1>4. IsSeq(b) /\ Len(b) = n
  BY <1>3, FunIsSeq
<1> QED BY <1>1, <1>2, <1>3, <1>4

LEMMA BodiesConcat ==
  ASSUME NEW s, NEW t, IsSeq(s), IsSeq(t)
  PROVE  Bodies(s \o t) = Bodies(s) \o Bodies(t)
<1>1. PICK m \in Nat, n \in Nat : m = Len(s) /\ n = Len(t)
  BY ConcatIsSeq
<1>2. PICK v : v = s \o t
  OBVIOUS
<1>3. /\ IsSeq(v) /\ Len(v) = m + n /\ (\A i \in 1..m : v[i] = s[i])
      /\ \A i \in 1..n : v[m + i] = t[i]
  BY <1>1, <1>2, ConcatIsSeq
<1>4. PICK bs, bt, bv : bs = Bodies(s) /\ bt = Bodies(t) /\ bv = Bodies(v)
  OBVIOUS
<1>5. /\ IsSeq(bs) /\ Len(bs) = m /\ \A i \in 1..m : bs[i] = s[i].body
      /\ IsSeq(bt) /\ Len(bt) = n /\ \A i \in 1..n : bt[i] = t[i].body
      /\ IsSeq(bv) /\ Len(bv) = m + n /\ \A i \in 1..(m + n) : bv[i] = v[i].body
  <2>1. IsSeq(bs) /\ Len(bs) = m /\ \A i \in 1..m : bs[i] = s[i].body
    BY <1>1, <1>4, BodiesFacts
  <2>2. IsSeq(bt) /\ Len(bt) = n /\ \A i \in 1..n : bt[i] = t[i].body
    BY <1>1, <1>4, BodiesFacts
  <2>3. IsSeq(v) /\ Len(v) = m + n /\ bv = Bodies(v)
    BY <1>3, <1>4
  <2>4. IsSeq(bv) /\ Len(bv) = m + n /\ \A i \in 1..(m + n) : bv[i] = v[i].body
    BY ONLY <2>3, BodiesFacts
  <2> QED BY <2>1, <2>2, <2>4
<1>6. PICK c : c = bs \o bt
  OBVIOUS
<1>7. /\ IsSeq(c) /\ Len(c) = m + n /\ (\A i \in 1..m : c[i] = bs[i])
      /\ \A i \in 1..n : c[m + i] = bt[i]
  <2>1. IsSeq(bs) /\ IsSeq(bt) /\ Len(bs) = m /\ Len(bt) = n
    BY <1>5
  <2> QED BY <1>6, <2>1, ConcatIsSeq
<1>8. ASSUME NEW i \in 1..(m + n) PROVE bv[i] = c[i]
  <2>1. CASE i <= m
    <3>1. i \in 1..m
      BY <2>1
    <3> QED BY <1>3, <1>5, <1>7, <3>1
  <2>2. CASE i > m
    <3>1. PICK k \in 1..n : i = m + k
      <4>1. i - m \in 1..n /\ i = m + (i - m)
        BY <2>2
      <4> QED BY <4>1
    <3>2. bv[m + k] = v[m + k].body
      BY <1>5, <3>1
    <3>3. c[m + k] = bt[k] /\ bt[k] = t[k].body /\ v[m + k] = t[k]
      BY <1>3, <1>5, <1>7
    <3> QED BY <3>1, <3>2, <3>3
  <2> QED BY <2>1, <2>2
<1>9. bv = c
  <2>1. IsSeq(bv) /\ IsSeq(c) /\ Len(bv) = m + n /\ Len(c) = m + n
    BY <1>5, <1>7
  <2> QED BY ONLY <1>8, <2>1, SameSeq
<1> QED BY <1>2, <1>4, <1>6, <1>9

\* The values of kept, one by one.
LEMMA KeptSteps ==
  ASSUME NEW s, NEW keep, NEW L \in Nat, L = Len(s), NEW p, IsKept(p, s, keep)
  PROVE  /\ p[0] = <<>>
         /\ \A n \in 1..L : p[n] = IF n \in keep THEN Append(p[n - 1], s[n]) ELSE p[n - 1]
<1>1. \A n \in 0..Len(s) :
        p[n] = IF n = 0 THEN <<>> ELSE IF n \in keep THEN Append(p[n - 1], s[n]) ELSE p[n - 1]
  BY Zenon DEF IsKept
<1>2. 0 \in 0..L /\ \A n \in 1..L : n \in 0..L /\ n # 0
  OBVIOUS
<1> QED BY <1>1, <1>2

\* The log messages of two batches are those of the one, then those of the other.
LEMMA LogRecordsConcat ==
  ASSUME NEW a, NEW b, IsSeq(a), IsSeq(b)
  PROVE  LogRecords(a \o b) = LogRecords(a) \o LogRecords(b)
<1>1. PICK m \in Nat, n \in Nat : m = Len(a) /\ n = Len(b)
  BY ConcatIsSeq
<1>2. PICK c : c = a \o b
  OBVIOUS
<1>3. /\ IsSeq(c) /\ Len(c) = m + n /\ DOMAIN c = 1..(m + n)
      /\ (\A i \in 1..m : c[i] = a[i]) /\ \A i \in 1..n : c[m + i] = b[i]
      /\ DOMAIN a = 1..m /\ DOMAIN b = 1..n
  BY <1>1, <1>2, ConcatIsSeq
<1>4. PICK ka, kb, kc : ka = Logged(a) /\ kb = Logged(b) /\ kc = Logged(c)
  OBVIOUS
<1>5. /\ \A i \in 1..m : i \in kc <=> i \in ka
      /\ \A i \in 1..n : m + i \in kc <=> i \in kb
  <2>1. \A i \in 1..n : m + i \in 1..(m + n)
    OBVIOUS
  <2>2. \A i \in 1..m : i \in 1..(m + n)
    OBVIOUS
  <2> QED BY <1>3, <1>4, <2>1, <2>2 DEF Logged
<1>6. PICK p : IsKept(p, a, ka) /\ Subsequence(a, ka) = p[m]
  BY <1>1, SubsequenceExists
<1>7. PICK q : IsKept(q, b, kb) /\ Subsequence(b, kb) = q[n]
  BY <1>1, SubsequenceExists
<1>8. PICK f : IsKept(f, c, kc) /\ Subsequence(c, kc) = f[m + n]
  BY <1>3, SubsequenceExists
<1>9. /\ p[0] = <<>>
      /\ \A i \in 1..m : p[i] = IF i \in ka THEN Append(p[i - 1], a[i]) ELSE p[i - 1]
  BY <1>1, <1>6, KeptSteps
<1>10. /\ q[0] = <<>>
       /\ \A i \in 1..n : q[i] = IF i \in kb THEN Append(q[i - 1], b[i]) ELSE q[i - 1]
  BY <1>1, <1>7, KeptSteps
<1>11. /\ f[0] = <<>>
       /\ \A i \in 1..(m + n) : f[i] = IF i \in kc THEN Append(f[i - 1], c[i]) ELSE f[i - 1]
  <2>1. PICK L \in Nat : L = m + n
    OBVIOUS
  <2>2. L = Len(c) /\ IsKept(f, c, kc)
    BY <1>3, <1>8, <2>1
  <2>3. /\ f[0] = <<>>
        /\ \A i \in 1..L : f[i] = IF i \in kc THEN Append(f[i - 1], c[i]) ELSE f[i - 1]
    BY ONLY <2>2, L \in Nat, KeptSteps
  <2> QED BY <2>1, <2>3
<1>12. \A i \in 0..m : f[i] = p[i]
  <2>1. PICK Good : Good = {i \in 0..m : f[i] = p[i]}
    OBVIOUS
  <2>2. 0 \in Good
    BY <1>9, <1>11, <2>1
  <2>3. ASSUME NEW i \in 1..m, i - 1 \in Good PROVE i \in Good
    <3>1. f[i - 1] = p[i - 1] /\ i \in 1..(m + n)
      BY <2>1, <2>3
    <3>2. f[i] = p[i]
      BY <1>3, <1>5, <1>9, <1>11, <3>1
    <3> QED BY <2>1, <3>2
  <2>4. \A i \in 0..m : i \in Good
    BY <2>2, <2>3, Ascend
  <2> QED BY <2>1, <2>4
<1>13. IsSeq(p[m])
  BY <1>6, SubsequenceFacts DEF Gathers
<1>14. PICK u : u = p[m]
  OBVIOUS
<1> DEFINE Joined(i) == IsSeq(q[i]) /\ f[m + i] = u \o q[i]
<1>15. PICK Good : Good = {i \in 0..n : Joined(i)}
  OBVIOUS
<1>16. Joined(0)
  <2>1. IsSeq(q[0]) /\ q[0] = <<>>
    BY <1>10, TupleIsSeq
  <2>2. PICK S : u \in Seq(S)
    BY <1>13, <1>14 DEF IsSeq
  <2>3. u \o <<>> = u
    BY <2>2, ConcatEmptySeq
  <2>4. f[m + 0] = u
    BY <1>12, <1>14
  <2> QED BY <2>1, <2>3, <2>4
<1>17. ASSUME NEW i \in 1..n, Joined(i - 1) PROVE Joined(i)
  <2>1. PICK r : r = q[i - 1]
    OBVIOUS
  <2>2. IsSeq(r) /\ f[m + (i - 1)] = u \o r
    BY <1>17, <2>1
  <2>3. m + i \in 1..(m + n) /\ (m + i) - 1 = m + (i - 1)
    OBVIOUS
  <2>4. f[m + i] = IF m + i \in kc THEN Append(f[m + (i - 1)], c[m + i]) ELSE f[m + (i - 1)]
    BY <1>11, <2>3
  <2>5. CASE i \in kb
    <3>1. q[i] = Append(r, b[i]) /\ f[m + i] = Append(f[m + (i - 1)], b[i])
      BY <1>3, <1>5, <1>10, <2>1, <2>4, <2>5
    <3>2. f[m + i] = Append(u \o r, b[i])
      BY <2>2, <3>1
    <3>3. Append(u \o r, b[i]) = u \o Append(r, b[i])
      <4>1. IsSeq(u) /\ IsSeq(r)
        BY <1>13, <1>14, <2>2
      <4> QED BY ONLY <4>1, AppendConcat
    <3>4. IsSeq(Append(r, b[i]))
      BY <2>2, AppendIsSeq
    <3>5. f[m + i] = u \o q[i]
      BY <3>1, <3>2, <3>3
    <3> QED BY <3>1, <3>4, <3>5
  <2>6. CASE i \notin kb
    <3>1. q[i] = r /\ f[m + i] = f[m + (i - 1)]
      BY <1>5, <1>10, <2>1, <2>4, <2>6
    <3> QED BY <2>2, <3>1
  <2> QED BY <2>5, <2>6
<1>18. \A i \in 0..n : i \in Good
  <2> HIDE DEF Joined
  <2>1. \A i \in 1..n : i - 1 \in Good => i \in Good
    BY <1>15, <1>17
  <2>2. 0 \in Good
    BY <1>15, <1>16
  <2> QED BY <2>1, <2>2, Ascend
<1>19. Joined(n)
  <2> HIDE DEF Joined
  <2> QED BY <1>15, <1>18
<1> HIDE DEF Joined
<1>20. f[m + n] = u \o q[n] /\ IsSeq(q[n]) /\ IsSeq(u)
  BY <1>13, <1>19, <1>14 DEF Joined
<1>21. Bodies(u \o q[n]) = Bodies(u) \o Bodies(q[n])
  BY <1>20, BodiesConcat
<1>22. LogRecords(a) = Bodies(u) /\ LogRecords(b) = Bodies(q[n]) /\ LogRecords(c) = Bodies(f[m + n])
  BY <1>4, <1>6, <1>7, <1>8, <1>14, LogRecordsAre
<1> QED BY <1>2, <1>20, <1>21, <1>22

\* The records of the log messages are their bodies.
LEMMA LogRecordsHold ==
  ASSUME NEW msgs, IsSeq(msgs)
  PROVE  /\ IsSeq(LogRecords(msgs))
         /\ \A i \in 1..Len(LogRecords(msgs)) : \E j \in 1..Len(msgs) :
              msgs[j].topic = LogTopic /\ LogRecords(msgs)[i] = msgs[j].body
         /\ \A j \in 1..Len(msgs) : msgs[j].topic = LogTopic =>
              \E i \in 1..Len(LogRecords(msgs)) : LogRecords(msgs)[i] = msgs[j].body
<1>1. PICK n \in Nat : n = Len(msgs)
  BY ConcatIsSeq
<1>2. DOMAIN msgs = 1..n
  BY <1>1, ConcatIsSeq
<1>3. PICK s : s = Subsequence(msgs, Logged(msgs))
  OBVIOUS
<1>4. Gathers(s, msgs, Logged(msgs), n)
  BY <1>1, <1>3, SubsequenceFacts
<1>5. PICK b : b = LogRecords(msgs)
  OBVIOUS
<1>6. IsSeq(b) /\ Len(b) = Len(s) /\ \A i \in 1..Len(s) : b[i] = s[i].body
  BY <1>3, <1>4, <1>5, LogRecordsAre, BodiesFacts DEF Gathers
<1>7. \A j \in 1..n : j \in Logged(msgs) <=> msgs[j].topic = LogTopic
  BY <1>2 DEF Logged
<1>8. ASSUME NEW i \in 1..Len(b)
      PROVE  \E j \in 1..n : msgs[j].topic = LogTopic /\ b[i] = msgs[j].body
  <2>1. i \in 1..Len(s)
    BY <1>6
  <2>2. PICK j \in 1..n : j \in Logged(msgs) /\ s[i] = msgs[j]
    BY <1>4, <2>1 DEF Gathers
  <2> QED BY <1>6, <1>7, <2>1, <2>2
<1>9. ASSUME NEW j \in 1..n, msgs[j].topic = LogTopic
      PROVE  \E i \in 1..Len(b) : b[i] = msgs[j].body
  <2>1. PICK i \in 1..Len(s) : s[i] = msgs[j]
    BY <1>4, <1>7, <1>9 DEF Gathers
  <2>2. i \in 1..Len(b) /\ b[i] = msgs[j].body
    BY <1>6, <2>1
  <2> QED BY <2>2
<1> QED BY <1>1, <1>5, <1>6, <1>8, <1>9

LEMMA EmptyLen ==
  ASSUME NEW s, IsSeq(s), Len(s) = 0 PROVE s = <<>>
BY SameSeq, TupleIsSeq

\* No log message, no record.
LEMMA NoLogRecords ==
  ASSUME NEW msgs, IsSeq(msgs), \A j \in 1..Len(msgs) : msgs[j].topic # LogTopic
  PROVE  LogRecords(msgs) = <<>>
<1>1. PICK b : b = LogRecords(msgs)
  OBVIOUS
<1>2. IsSeq(b) /\ \A i \in 1..Len(b) : FALSE
  BY <1>1, LogRecordsHold
<1>3. PICK n \in Nat : n = Len(b)
  BY <1>2, ConcatIsSeq
<1>4. n = 0
  <2>1. n > 0 => 1 \in 1..n
    OBVIOUS
  <2> QED BY <1>2, <1>3, <2>1
<1> QED BY <1>1, <1>2, <1>3, <1>4, EmptyLen

\* Nothing but log messages: their records, in order.
LEMMA AllLogRecords ==
  ASSUME NEW recs, NEW n \in Nat, NEW msgs, msgs = [i \in 1..n |-> LogMsg(recs[i])]
  PROVE  /\ IsSeq(msgs) /\ Len(msgs) = n
         /\ Len(LogRecords(msgs)) = n /\ \A i \in 1..n : LogRecords(msgs)[i] = recs[i]
<1>1. /\ IsSeq(msgs) /\ Len(msgs) = n /\ DOMAIN msgs = 1..n
      /\ \A i \in 1..n : msgs[i] = LogMsg(recs[i])
  <2>1. msgs = [i \in 1..n |-> msgs[i]] /\ \A i \in 1..n : msgs[i] = LogMsg(recs[i])
    OBVIOUS
  <2> QED BY <2>1, FunIsSeq
<1>2. \A i \in 1..n : i \in Logged(msgs)
  BY <1>1 DEF Logged, LogMsg
<1>3. PICK p : IsKept(p, msgs, Logged(msgs)) /\ Subsequence(msgs, Logged(msgs)) = p[n]
  BY <1>1, SubsequenceExists
<1>4. p[0] = <<>> /\ \A i \in 1..n : p[i] = Append(p[i - 1], msgs[i])
  <2>1. PICK keep : keep = Logged(msgs)
    OBVIOUS
  <2>2. n = Len(msgs) /\ IsKept(p, msgs, keep)
    BY <1>1, <1>3, <2>1
  <2>3. /\ p[0] = <<>>
        /\ \A i \in 1..n : p[i] = IF i \in keep THEN Append(p[i - 1], msgs[i]) ELSE p[i - 1]
    <3>1. PICK L \in Nat : L = n
      OBVIOUS
    <3>2. L = Len(msgs) /\ IsKept(p, msgs, keep)
      BY <2>2, <3>1
    <3>3. /\ p[0] = <<>>
          /\ \A i \in 1..L : p[i] = IF i \in keep THEN Append(p[i - 1], msgs[i]) ELSE p[i - 1]
      BY ONLY <3>2, L \in Nat, KeptSteps
    <3> QED BY <3>1, <3>3
  <2> QED BY <1>2, <2>1, <2>3
<1> DEFINE Whole(i) == IsSeq(p[i]) /\ Len(p[i]) = i /\ \A k \in 1..i : p[i][k] = msgs[k]
<1>5. PICK Good : Good = {i \in 0..n : Whole(i)}
  OBVIOUS
<1>6. 0 \in Good
  BY <1>4, <1>5, TupleIsSeq
<1>7. ASSUME NEW i \in 1..n, i - 1 \in Good PROVE i \in Good
  <2>1. PICK q : q = p[i - 1]
    OBVIOUS
  <2>2. IsSeq(q) /\ Len(q) = i - 1 /\ \A k \in 1..(i - 1) : q[k] = msgs[k]
    BY <1>5, <1>7, <2>1
  <2>3. PICK r : r = Append(q, msgs[i])
    OBVIOUS
  <2>4. /\ IsSeq(r) /\ Len(r) = (i - 1) + 1 /\ (\A k \in 1..(i - 1) : r[k] = q[k])
        /\ r[(i - 1) + 1] = msgs[i]
    BY <2>2, <2>3, AppendIsSeq
  <2>5. (i - 1) + 1 = i
    OBVIOUS
  <2>6. ASSUME NEW k \in 1..i PROVE r[k] = msgs[k]
    <3>1. k = i \/ k \in 1..(i - 1)
      OBVIOUS
    <3> QED BY <2>2, <2>4, <2>5, <3>1
  <2>7. p[i] = r
    BY <1>4, <2>1, <2>3
  <2>8. Whole(i)
    BY <2>4, <2>5, <2>6, <2>7
  <2> HIDE DEF Whole
  <2> QED BY <1>5, <2>8
<1>8. Whole(n)
  <2> HIDE DEF Whole
  <2>1. \A i \in 0..n : i \in Good
    BY <1>6, <1>7, Ascend
  <2> QED BY <1>5, <2>1
<1>9. /\ Len(Bodies(p[n])) = n /\ \A i \in 1..n : Bodies(p[n])[i] = p[n][i].body
  BY <1>8, BodiesFacts
<1>10. LogRecords(msgs) = Bodies(p[n])
  BY <1>3, LogRecordsAre
<1>11. \A i \in 1..n : p[n][i].body = recs[i]
  BY <1>1, <1>8 DEF LogMsg
<1> QED BY <1>1, <1>9, <1>10, <1>11

LEMMA OneLogRecord == \A rec : LogRecords(<<LogMsg(rec)>>) = <<rec>>
<1> SUFFICES ASSUME NEW rec PROVE LogRecords(<<LogMsg(rec)>>) = <<rec>>
  OBVIOUS
<1>1. PICK recs : recs = <<rec>>
  OBVIOUS
<1>2. PICK msgs : msgs = <<LogMsg(rec)>>
  OBVIOUS
<1>3. msgs = [i \in 1..1 |-> LogMsg(recs[i])]
  BY <1>1, <1>2
<1>4. /\ IsSeq(msgs)
      /\ Len(LogRecords(msgs)) = 1 /\ LogRecords(msgs)[1] = recs[1]
  <2>1. PICK n \in Nat : n = 1
    OBVIOUS
  <2>2. msgs = [i \in 1..n |-> LogMsg(recs[i])]
    BY <1>3, <2>1
  <2>3. IsSeq(msgs) /\ Len(LogRecords(msgs)) = n
    BY <2>2, AllLogRecords
  <2>4. \A i \in 1..n : LogRecords(msgs)[i] = recs[i]
    BY <2>2, AllLogRecords
  <2> QED BY <2>1, <2>3, <2>4
<1>5. IsSeq(recs) /\ Len(recs) = 1 /\ IsSeq(LogRecords(msgs))
  BY <1>1, <1>4, TupleIsSeq, LogRecordsHold
<1>6. LogRecords(msgs) = recs
  BY <1>4, <1>5, SameSeq
<1> QED BY <1>1, <1>2, <1>6

\* The messages of one step: its record, then emissions.
StepLog(t) ==
  /\ IsSeq(t.msgs) /\ Len(t.msgs) >= 1 /\ t.msgs[1] = LogMsg(t.rec)
  /\ \A i \in 2..Len(t.msgs) : t.msgs[i].topic # LogTopic

\* A list of messages of which only the first one is a log message.
LEMMA FirstLogRecord ==
  ASSUME NEW msgs, IsSeq(msgs), NEW n \in Nat, n = Len(msgs), n >= 1, NEW rec, msgs[1] = LogMsg(rec),
         \A i \in 2..n : msgs[i].topic # LogTopic
  PROVE  LogRecords(msgs) = <<rec>>
<1>1. PICK rest : rest = [i \in 1..(n - 1) |-> msgs[i + 1]]
  OBVIOUS
<1>2. n - 1 \in Nat /\ rest = [i \in 1..(n - 1) |-> rest[i]]
      /\ \A i \in 1..(n - 1) : rest[i] = msgs[i + 1]
  BY <1>1
<1>3. IsSeq(rest) /\ Len(rest) = n - 1
  BY <1>2, FunIsSeq
<1>4. PICK first : first = <<LogMsg(rec)>>
  OBVIOUS
<1>5. IsSeq(first) /\ Len(first) = 1 /\ first[1] = LogMsg(rec)
  BY <1>4, TupleIsSeq
<1>6. PICK both : both = first \o rest
  OBVIOUS
<1>7. /\ IsSeq(both) /\ Len(both) = n /\ both[1] = LogMsg(rec)
      /\ \A i \in 1..(n - 1) : both[1 + i] = rest[i]
  <2>1. both = <<LogMsg(rec)>> \o rest
    BY <1>4, <1>6
  <2>2. IsSeq(rest)
    BY <1>3
  <2>3. IsSeq(both) /\ Len(both) = 1 + Len(rest) /\ both[1] = LogMsg(rec)
    BY ONLY <2>1, <2>2, Prepended
  <2>4. \A i \in 1..Len(rest) : both[1 + i] = rest[i]
    BY ONLY <2>1, <2>2, Prepended
  <2> QED BY <1>3, <2>3, <2>4
<1>8. ASSUME NEW i \in 1..n PROVE msgs[i] = both[i]
  <2>1. CASE i = 1
    BY <1>7, <2>1
  <2>2. CASE i # 1
    <3>1. PICK k \in 1..(n - 1) : i = 1 + k
      <4>1. i - 1 \in 1..(n - 1) /\ i = 1 + (i - 1)
        BY <2>2
      <4> QED BY <4>1
    <3>2. k + 1 = 1 + k
      OBVIOUS
    <3> QED BY <1>2, <1>7, <3>1, <3>2
  <2> QED BY <2>1, <2>2
<1>9. msgs = both
  BY <1>7, <1>8, SameSeq
<1>10. LogRecords(first) = <<rec>>
  BY <1>4, OneLogRecord
<1>11. LogRecords(rest) = <<>>
  <2>1. \A i \in 1..(n - 1) : i + 1 \in 2..n
    OBVIOUS
  <2>2. \A i \in 1..Len(rest) : rest[i].topic # LogTopic
    BY <1>2, <1>3, <2>1
  <2> QED BY <1>3, <2>2, NoLogRecords
<1>12. LogRecords(both) = LogRecords(first) \o LogRecords(rest)
  BY <1>3, <1>5, <1>6, LogRecordsConcat
<1>13. PICK one : one = <<rec>>
  OBVIOUS
<1>14. one \o <<>> = one
  <2>1. IsSeq(one)
    BY <1>13, TupleIsSeq
  <2>2. PICK S : one \in Seq(S)
    BY <2>1 DEF IsSeq
  <2> QED BY <2>2, ConcatEmptySeq
<1> QED BY <1>9, <1>10, <1>11, <1>12, <1>13, <1>14

\* The record of a step is logged as soon as its first message is out.
LEMMA StepLogPart ==
  ASSUME NEW t, StepLog(t), NEW k \in 0..Len(t.msgs)
  PROVE  LogRecords(SubSeq(t.msgs, 1, k)) = IF k = 0 THEN <<>> ELSE <<t.rec>>
<1>1. PICK msgs : msgs = t.msgs
  OBVIOUS
<1>2. IsSeq(msgs) /\ msgs[1] = LogMsg(t.rec) /\ \A i \in 2..Len(msgs) : msgs[i].topic # LogTopic
  BY <1>1 DEF StepLog
<1>3. k \in Nat
  BY <1>1, <1>2, ConcatIsSeq
<1>4. PICK out : out = SubSeq(msgs, 1, k)
  OBVIOUS
<1>5. IsSeq(out) /\ Len(out) = k /\ \A i \in 1..k : i \in 1..Len(msgs) /\ out[i] = msgs[i]
  BY <1>1, <1>2, <1>4, SliceOK
<1>6. CASE k = 0
  <2>1. out = <<>> /\ Len(<<>>) = 0
    BY <1>5, <1>6, EmptyLen
  <2>2. LogRecords(out) = <<>>
    BY <1>5, <1>6, NoLogRecords
  <2> QED BY <1>1, <1>4, <1>6, <2>2
<1>7. CASE k # 0
  <2>1. k >= 1 /\ 1 \in 1..k
    BY <1>3, <1>7
  <2>2. \A i \in 2..k : i \in 1..k /\ i \in 2..Len(msgs)
    <3>1. \A i \in 2..k : i \in 1..k
      OBVIOUS
    <3>2. Len(msgs) \in Nat
      BY <1>2, ConcatIsSeq
    <3> QED BY <1>5, <3>1, <3>2
  <2>3. out[1] = LogMsg(t.rec) /\ \A i \in 2..k : out[i].topic # LogTopic
    BY <1>2, <1>5, <2>1, <2>2
  <2>4. LogRecords(out) = <<t.rec>>
    BY <1>3, <1>5, <2>1, <2>3, FirstLogRecord
  <2> QED BY <1>1, <1>4, <1>7, <2>4
<1> QED BY <1>6, <1>7

LEMMA PairConcat == \A x, y : <<x>> \o <<y>> = <<x, y>>
<1> SUFFICES ASSUME NEW x, NEW y PROVE <<x>> \o <<y>> = <<x, y>>
  OBVIOUS
<1>1. PICK a, b, c : a = <<x>> /\ b = <<y>> /\ c = <<x, y>>
  OBVIOUS
<1>2. /\ IsSeq(a) /\ Len(a) = 1 /\ a[1] = x /\ IsSeq(b) /\ Len(b) = 1 /\ b[1] = y
      /\ IsSeq(c) /\ Len(c) = 2
  BY <1>1, TupleIsSeq
<1>3. c[1] = x /\ c[2] = y
  BY <1>1
<1>4. PICK d : d = a \o b
  OBVIOUS
<1>5. PICK m \in Nat, n \in Nat : m = 1 /\ n = 1
  OBVIOUS
<1>6. /\ IsSeq(d) /\ Len(d) = m + n /\ (\A i \in 1..m : d[i] = a[i])
      /\ \A i \in 1..n : d[m + i] = b[i]
  <2>1. IsSeq(a) /\ IsSeq(b) /\ Len(a) = m /\ Len(b) = n
    BY <1>2, <1>5
  <2> QED BY ONLY <1>4, <2>1, ConcatIsSeq
<1>7. d[1] = x /\ d[2] = y
  <2>1. 1 \in 1..m /\ 1 \in 1..n /\ m + 1 = 2
    BY <1>5
  <2> QED BY <1>2, <1>6, <2>1
<1>8. \A i \in 1..2 : d[i] = c[i]
  BY <1>3, <1>7
<1>9. d = c
  BY <1>2, <1>5, <1>6, <1>8, SameSeq
<1> QED BY <1>1, <1>4, <1>9

\* The records of the first n steps.
FirstOf(steps, n) == [i \in 1..n |-> steps[i].rec]

\* A part of the messages of a handler logs the records of its first steps.
LEMMA StepsLogPart ==
  ASSUME NEW steps, Len(steps) \in {1, 2}, \A i \in 1..Len(steps) : StepLog(steps[i]),
         NEW k \in 0..Len(StepMsgs(steps))
  PROVE  \E n \in 0..Len(steps) : LogRecords(SubSeq(StepMsgs(steps), 1, k)) = FirstOf(steps, n)
<1>0. /\ FirstOf(steps, 0) = <<>> /\ FirstOf(steps, 1) = <<steps[1].rec>>
      /\ FirstOf(steps, 2) = <<steps[1].rec, steps[2].rec>>
  BY DEF FirstOf
<1>1. StepLog(steps[1])
  <2>1. 1 \in 1..Len(steps)
    OBVIOUS
  <2> QED BY <2>1
<1>2. PICK first : first = steps[1].msgs
  OBVIOUS
<1>3. IsSeq(first)
  BY <1>1, <1>2 DEF StepLog
<1>4. PICK m \in Nat : m = Len(first)
  BY <1>3, ConcatIsSeq
<1>5. \A j \in 0..m : LogRecords(SubSeq(first, 1, j)) = IF j = 0 THEN <<>> ELSE <<steps[1].rec>>
  <2> SUFFICES ASSUME NEW j \in 0..m
               PROVE  LogRecords(SubSeq(first, 1, j)) = IF j = 0 THEN <<>> ELSE <<steps[1].rec>>
    OBVIOUS
  <2>1. PICK t : t = steps[1]
    OBVIOUS
  <2>2. StepLog(t) /\ j \in 0..Len(t.msgs) /\ first = t.msgs
    BY <1>1, <1>2, <1>4, <2>1
  <2>3. LogRecords(SubSeq(t.msgs, 1, j)) = IF j = 0 THEN <<>> ELSE <<t.rec>>
    BY ONLY <2>2, StepLogPart
  <2> QED BY <2>1, <2>2, <2>3
<1>6. CASE Len(steps) = 1
  <2>1. StepMsgs(steps) = first
    BY <1>2, <1>6 DEF StepMsgs
  <2>2. k \in 0..m
    BY <1>4, <2>1
  <2>3. LogRecords(SubSeq(first, 1, k)) = IF k = 0 THEN <<>> ELSE <<steps[1].rec>>
    BY <1>5, <2>2
  <2> QED BY <1>0, <1>6, <2>1, <2>3
<1>7. CASE Len(steps) = 2
  <2>0. StepLog(steps[2])
    <3>1. 2 \in 1..Len(steps)
      BY <1>7
    <3> QED BY <3>1
  <2>1. PICK t : t = steps[2]
    OBVIOUS
  <2>2. PICK second : second = t.msgs
    OBVIOUS
  <2>3. IsSeq(second) /\ StepLog(t)
    BY <2>0, <2>1, <2>2 DEF StepLog
  <2>4. PICK p \in Nat : p = Len(second)
    BY <2>3, ConcatIsSeq
  <2>5. PICK msgs : msgs = first \o second
    OBVIOUS
  <2>6. StepMsgs(steps) = msgs
    BY <1>2, <1>7, <2>1, <2>2, <2>5 DEF StepMsgs
  <2>7. /\ IsSeq(msgs) /\ Len(msgs) = m + p /\ (\A i \in 1..m : msgs[i] = first[i])
        /\ \A i \in 1..p : msgs[m + i] = second[i]
    BY <1>3, <1>4, <2>3, <2>4, <2>5, ConcatIsSeq
  <2>8. PICK out : out = SubSeq(msgs, 1, k)
    OBVIOUS
  <2>9. IsSeq(out) /\ Len(out) = k /\ \A i \in 1..k : out[i] = msgs[i]
    BY <2>6, <2>7, <2>8, SliceOK
  <2>10. k \in 0..(m + p)
    BY <2>6, <2>7
  <2>11. CASE k <= m
    <3>1. PICK part : part = SubSeq(first, 1, k)
      OBVIOUS
    <3>2. k \in 0..m /\ k \in 0..Len(first)
      BY <1>4, <2>10, <2>11
    <3>3. IsSeq(part) /\ Len(part) = k /\ \A i \in 1..k : part[i] = first[i]
      BY <1>3, <3>1, <3>2, SliceOK
    <3>4. \A i \in 1..k : i \in 1..m
      BY <3>2
    <3>5. out = part
      BY <2>7, <2>9, <3>3, <3>4, SameSeq
    <3>6. LogRecords(part) = IF k = 0 THEN <<>> ELSE <<steps[1].rec>>
      BY <1>5, <3>1, <3>2
    <3>7. \E n \in 0..2 : LogRecords(part) = FirstOf(steps, n)
      <4>1. CASE k = 0
        BY <1>0, <3>6, <4>1
      <4>2. CASE k # 0
        BY <1>0, <3>6, <4>2
      <4> QED BY <4>1, <4>2
    <3> QED BY <1>7, <2>6, <2>8, <3>5, <3>7
  <2>12. CASE k > m
    <3>1. PICK j \in 1..p : k = m + j
      <4>1. k - m \in 1..p /\ k = m + (k - m)
        BY <2>10, <2>12
      <4> QED BY <4>1
    <3>2. PICK part : part = SubSeq(second, 1, j)
      OBVIOUS
    <3>3. j \in 0..Len(second) /\ j \in Nat
      BY <2>4
    <3>4. IsSeq(part) /\ Len(part) = j /\ \A i \in 1..j : i \in 1..p /\ part[i] = second[i]
      BY <2>3, <2>4, <3>2, <3>3, SliceOK
    <3>5. PICK cat : cat = first \o part
      OBVIOUS
    <3>6. /\ IsSeq(cat) /\ Len(cat) = m + j /\ (\A i \in 1..m : cat[i] = first[i])
          /\ \A i \in 1..j : cat[m + i] = part[i]
      <4>1. IsSeq(first) /\ Len(first) = m /\ IsSeq(part) /\ Len(part) = j
        BY <1>3, <1>4, <3>4
      <4>2. /\ IsSeq(cat) /\ Len(cat) = Len(first) + Len(part)
            /\ \A i \in 1..Len(first) : cat[i] = first[i]
            /\ \A i \in 1..Len(part) : cat[Len(first) + i] = part[i]
        <5>1. IsSeq(first) /\ IsSeq(part)
          BY <4>1
        <5> QED BY ONLY <3>5, <5>1, ConcatIsSeq
      <4> QED BY <4>1, <4>2
    <3>7. ASSUME NEW i \in 1..k PROVE out[i] = cat[i]
      <4>1. CASE i <= m
        <5>1. i \in 1..m
          BY <4>1
        <5> QED BY <2>7, <2>9, <3>6, <5>1
      <4>2. CASE i > m
        <5>1. PICK l \in 1..j : i = m + l
          <6>1. i - m \in 1..j /\ i = m + (i - m)
            BY <3>1, <4>2
          <6> QED BY <6>1
        <5>2. l \in 1..p /\ part[l] = second[l]
          BY <3>4
        <5>3. out[m + l] = msgs[m + l]
          BY <2>9, <5>1
        <5>4. msgs[m + l] = second[l]
          BY <2>7, <5>2
        <5>5. cat[m + l] = part[l]
          BY <3>6
        <5> QED BY <5>1, <5>2, <5>3, <5>4, <5>5
      <4> QED BY <4>1, <4>2
    <3>8. out = cat
      BY <2>9, <3>1, <3>6, <3>7, SameSeq
    <3>9. LogRecords(part) = <<t.rec>>
      <4>1. StepLog(t) /\ j \in 0..Len(t.msgs) /\ j # 0
        BY <2>2, <2>3, <3>3
      <4>2. LogRecords(SubSeq(t.msgs, 1, j)) = IF j = 0 THEN <<>> ELSE <<t.rec>>
        BY <4>1, StepLogPart
      <4> QED BY <2>2, <3>2, <4>1, <4>2
    <3>10. LogRecords(first) = <<steps[1].rec>>
      <4>1. m >= 1 /\ \A i \in 2..m : first[i].topic # LogTopic
        BY <1>1, <1>2, <1>4 DEF StepLog
      <4>2. first[1] = LogMsg(steps[1].rec)
        BY <1>1, <1>2 DEF StepLog
      <4>3. PICK r : r = steps[1].rec
        OBVIOUS
      <4>4. first[1] = LogMsg(r)
        BY <4>2, <4>3
      <4>5. LogRecords(first) = <<r>>
        BY ONLY <1>3, <1>4, <4>1, <4>4, m \in Nat, FirstLogRecord
      <4> QED BY <4>3, <4>5
    <3>11. LogRecords(cat) = LogRecords(first) \o LogRecords(part)
      BY <1>3, <3>4, <3>5, LogRecordsConcat
    <3>12. <<steps[1].rec>> \o <<t.rec>> = <<steps[1].rec, t.rec>>
      BY PairConcat
    <3>13. LogRecords(out) = FirstOf(steps, 2)
      BY <1>0, <2>1, <3>8, <3>9, <3>10, <3>11, <3>12
    <3>14. 2 \in 0..Len(steps)
      BY <1>7
    <3> QED BY <2>6, <2>8, <3>13, <3>14
  <2> QED BY <2>10, <2>11, <2>12
<1> QED BY <1>6, <1>7

\* Which of the rows replay picks from the guard result.
LEMMA RowDecisions ==
  ASSUME NEW state, NEW event, NEW i \in 1..Len(Rows(state, event))
  PROVE  /\ Rows(state, event)[i].decision \in {"default", "block"}
         /\ i = 1 /\ Rows(state, event)[i].decision = "block" => Len(Rows(state, event)) = 1
<1> USE DEF NonTerminal, Terminal, Row
<1>1. CASE event = "request.cancelled"
  <2>1. Rows(state, event) = CancelRows(state)
    BY <1>1, Zenon DEF Rows
  <2> QED BY <2>1 DEF CancelRows, CancelRow
<1>2. CASE state = "created" /\ event # "request.cancelled"
  BY <1>2 DEF Rows
<1>3. CASE state = "initialized" /\ event # "request.cancelled"
  BY <1>3 DEF Rows
<1>4. CASE state = "scheduled" /\ event # "request.cancelled"
  BY <1>4 DEF Rows
<1>5. CASE state = "executing" /\ event # "request.cancelled"
  BY <1>5 DEF Rows
<1>6. CASE state = "verifying" /\ event # "request.cancelled"
  BY <1>6 DEF Rows
<1>7. CASE /\ state \notin {"created", "initialized", "scheduled", "executing", "verifying"}
           /\ event # "request.cancelled"
  <2>1. Rows(state, event) = <<>>
    BY <1>7 DEF Rows
  <2> QED BY <2>1
<1> QED BY <1>1, <1>2, <1>3, <1>4, <1>5, <1>6, <1>7

\* A request that is not in the ledger has no rows but those of its admission.
LEMMA AbsentRows ==
  ASSUME NEW event PROVE Rows("absent", event) = <<>>
<1> USE DEF NonTerminal, Terminal, Row
<1>1. CASE event = "request.cancelled"
  <2>1. Rows("absent", event) = CancelRows("absent")
    BY <1>1, Zenon DEF Rows
  <2> QED BY <2>1 DEF CancelRows
<1>2. CASE event # "request.cancelled"
  BY <1>2 DEF Rows
<1> QED BY <1>1, <1>2

LEMMA GuardResultFacts ==
  ASSUME NEW state, NEW event, Rows(state, event) # <<>>, NEW entry, NEW cfg
  PROVE  LET rows == Rows(state, event)
             i == PickRow(rows, entry, cfg)
             ok == GuardResult(rows[i], i)
         IN  ok \in BOOLEAN /\ i = IF ok THEN 1 ELSE Len(rows)
<1>1. PICK rows : rows = Rows(state, event)
  OBVIOUS
<1>2. PICK i : i = PickRow(rows, entry, cfg)
  OBVIOUS
<1>3. i \in 1..Len(rows) /\ Len(rows) \in {1, 2}
  BY <1>1, <1>2, PickRowFacts, RowsShape
<1>4. /\ rows[i].decision \in {"default", "block"}
      /\ i = 1 /\ rows[i].decision = "block" => Len(rows) = 1
  BY <1>1, <1>3, RowDecisions
<1>5. PICK d : d = rows[i].decision
  OBVIOUS
<1>6. GuardResult(rows[i], i) = IF d # "default" THEN d = "permit" ELSE i = 1
  BY <1>5 DEF GuardResult
<1>7. PICK n \in {1, 2} : n = Len(rows)
  BY <1>3
<1>8. i \in 1..n
  BY <1>3, <1>7
<1>9. PICK ok : ok = GuardResult(rows[i], i)
  OBVIOUS
<1>10. CASE d = "default"
  <2>1. ok = (i = 1)
    BY <1>6, <1>10, <1>9
  <2>2. CASE i = 1
    BY <1>1, <1>2, <1>7, <1>9, <2>1, <2>2
  <2>3. CASE i # 1
    <3>1. i = n
      BY <1>8, <2>3
    <3> QED BY <1>1, <1>2, <1>7, <1>9, <2>1, <2>3, <3>1
  <2> QED BY <2>2, <2>3
<1>11. CASE d = "block"
  <2>1. ok = FALSE
    BY <1>6, <1>11, <1>9
  <2>2. i = 1 => n = 1
    BY <1>4, <1>5, <1>11, <1>7
  <2>3. i = n
    BY <1>8, <2>2
  <2> QED BY <1>1, <1>2, <1>7, <1>9, <2>1, <2>3
<1> QED BY <1>4, <1>5, <1>10, <1>11

\* The state of the coordinator.
Now == State(ledger, config, configs)

\* The messages of a transition of which every emission is a name of a row.
LEMMA TransitionLog ==
  ASSUME NEW rec, NEW row, row.emit \in EmitLists, NEW decision, NEW t, t.rec = rec,
         t.msgs = TransitionMsgs(rec, row, decision)
  PROVE  StepLog(t)
<1>1. IsSeq(row.emit) /\ \A k \in 1..Len(row.emit) : row.emit[k] # LogTopic
  <2>1. LogTopic \notin Emissions
    BY DEF LogTopic, Emissions
  <2> QED BY <2>1, EmitListFacts
<1>2. PICK m \in Nat : m = Len(row.emit)
  BY <1>1, ConcatIsSeq
<1>3. PICK e : e = PublishRow(rec.request_id, rec.sequence, row, decision)
  OBVIOUS
<1>4. e = [i \in 1..m |-> e[i]] /\ \A i \in 1..m : e[i].topic = row.emit[i]
  BY <1>2, <1>3 DEF PublishRow, EmitMsg
<1>5. IsSeq(e) /\ Len(e) = m
  BY <1>4, FunIsSeq
<1>6. PICK c : c = <<LogMsg(rec)>> \o e
  OBVIOUS
<1>7. IsSeq(c) /\ Len(c) = 1 + m /\ c[1] = LogMsg(rec)
  <2>1. IsSeq(c) /\ Len(c) = 1 + Len(e) /\ c[1] = LogMsg(rec)
    BY ONLY <1>5, <1>6, Prepended
  <2> QED BY <1>5, <2>1
<1>8. \A i \in 1..m : c[1 + i] = e[i]
  <2>1. \A i \in 1..Len(e) : c[1 + i] = e[i]
    BY ONLY <1>5, <1>6, Prepended
  <2> QED BY <1>5, <2>1
<1>9. ASSUME NEW i \in 2..Len(c) PROVE c[i].topic # LogTopic
  <2>1. PICK k \in 1..m : i = 1 + k
    <3>1. i - 1 \in 1..m /\ i = 1 + (i - 1)
      BY <1>7
    <3> QED BY <3>1
  <2>2. c[i] = e[k]
    BY <1>8, <2>1
  <2> QED BY <1>1, <1>2, <1>4, <2>2
<1>10. t.msgs = c
  BY <1>3, <1>6 DEF TransitionMsgs
<1>11. Len(c) >= 1
  BY <1>7
<1> QED BY <1>7, <1>9, <1>10, <1>11 DEF StepLog

\* Replay recomputes the transition of the handler.
LEMMA TransitionGoes ==
  ASSUME NEW led, LedgerTyped(led), NEW cfg, NEW snaps, NEW rid \in Rids, NEW event,
         NEW eid \in Nat, NEW ok \in BOOLEAN, NEW version \in Versions,
         snaps[version] # NoSnapshot, NEW target \in Targets \cup {NoTarget},
         event \notin SessionEvents \cup {"config.changed", "__cleanup__"},
         event # "__routing__" => target = NoTarget,
         NEW entry \in Entry,
         \/ led[rid].lifecycle_state # "absent" /\ entry = led[rid]
         \/ /\ led[rid].lifecycle_state = "absent" /\ event = "request.received"
            /\ entry = NewEntry(entry.declared_type, version),
         NEW rows, rows = Rows(entry.lifecycle_state, event), rows # <<>>,
         NEW row, row = rows[IF ok THEN 1 ELSE Len(rows)],
         NEW t, t = Transition(rid, entry, event, eid, row, ok, version, target)
  PROVE  /\ StepLog(t)
         /\ Goes(State(led, cfg, snaps), t.rec, State([led EXCEPT ![rid] = t.entry], cfg, snaps))
<1>1. row.emit \in EmitLists
  <2>1. Len(rows) \in {1, 2}
    BY RowsShape
  <2>2. PICK i \in 1..Len(rows) : row = rows[i]
    BY <2>1
  <2> QED BY <2>2, RowEmits
<1>2. PICK rec : rec = Record(rid, entry, event, eid, row, ok, version, target)
  OBVIOUS
<1>3. /\ t.rec = rec /\ t.msgs = TransitionMsgs(rec, row, EmitDecision(row, ok))
      /\ t.entry = Advance(entry, event, eid, row, target)
  BY <1>2 DEF Transition
<1>4. StepLog(t)
  BY <1>1, <1>3, TransitionLog
<1>5. /\ rec.request_id = rid /\ rec.event_id = eid /\ rec.event = event
      /\ rec.sequence = entry.transition_sequence + 1
      /\ rec.prior_state = entry.lifecycle_state /\ rec.guard_result = ok
      /\ rec.next_state = row.next /\ rec.config_version = version /\ rec.emitted = row.emit
      /\ rec.verdict = "applied"
      /\ rec.declared_type = IF event = "request.received" THEN entry.declared_type ELSE NoType
      /\ rec.routing_target = IF event = "__routing__" THEN target ELSE NoTarget
  BY <1>2 DEF Record
<1>6. rec.routing_target = target
  BY <1>5
<1>7. OfTransition(rec)
  <2>1. rec.declared_type \in Types \cup {NoType}
    BY <1>5 DEF Entry
  <2> QED BY <1>5, <1>6, <2>1 DEF OfTransition, IsTransition
<1>8. EntryAt(led, rec) = entry
  <2>1. CASE led[rid].lifecycle_state # "absent" /\ entry = led[rid]
    BY <1>5, <2>1 DEF EntryAt
  <2>2. CASE /\ led[rid].lifecycle_state = "absent" /\ event = "request.received"
             /\ entry = NewEntry(entry.declared_type, version)
    <3>1. rec.declared_type = entry.declared_type
      BY <1>5, <2>2
    <3> QED BY <1>5, <2>2, <3>1 DEF EntryAt
  <2> QED BY <2>1, <2>2
<1>9. RowAt(led, rec) = row
  BY <1>5, <1>8 DEF RowAt
<1>10. FitsAt(led, snaps, rec)
  BY <1>5, <1>8, <1>9 DEF FitsAt
<1>11. ReplayedAt(led, rec) = t.entry
  <2>1. PICK d : d = Advance(entry, event, eid, row, target)
    OBVIOUS
  <2>2. d.transition_sequence = rec.sequence
    BY <1>5, <2>1 DEF Advance, DoAction, Entry
  <2>3. d \in Entry
    <3>1. row.next \in States
      BY <1>8, <1>9, RowAtFacts, <1>5
    <3> QED BY <2>1, <3>1, AdvanceFields
  <2>4. [d EXCEPT !.transition_sequence = rec.sequence] = d
    BY <2>2, <2>3 DEF Entry
  <2>5. ReplayedAt(led, rec) = [d EXCEPT !.transition_sequence = rec.sequence]
    BY <1>5, <1>6, <1>8, <1>9, <2>1 DEF ReplayedAt
  <2> QED BY <1>3, <2>1, <2>4, <2>5
<1>12. PICK a : a = State(led, cfg, snaps)
  OBVIOUS
<1>13. a.ledger = led /\ a.config = cfg /\ a.configs = snaps
  BY <1>12 DEF State
<1>14. Goes(a, rec, State([led EXCEPT ![rid] = t.entry], cfg, snaps))
  BY <1>5, <1>7, <1>10, <1>11, <1>13 DEF Goes
<1> QED BY <1>3, <1>4, <1>12, <1>14

\* What the log stands for when n of the steps are in it.
StateAfter(rid, steps, n) == State(LedgerAfter(rid, steps, n), config, configs)
StepsGo(rid, steps) ==
  /\ Len(steps) \in {1, 2}
  /\ \A i \in 1..Len(steps) :
       /\ StepLog(steps[i]) /\ steps[i].rec.event # "__cleanup__"
       /\ Goes(StateAfter(rid, steps, i - 1), steps[i].rec, StateAfter(rid, steps, i))

LEMMA NowTyped == Typed(Now) <=> LedgerTyped(ledger) /\ PolicyTyped(config, configs)
BY DEF Typed, Now, State

\* A duplicate delivery logs a record that replays as a no-op.
LEMMA NoopGoes ==
  ASSUME Typed(Now), NEW env, env.request_id \in Rids, env.event_name \in RequestEvents
  PROVE  StepsGo(env.request_id, Noop(env))
<1>1. PICK steps : steps = Noop(env)
  OBVIOUS
<1>2. PICK t : t = steps[1]
  OBVIOUS
<1>3. /\ Len(steps) = 1 /\ t.entry = ledger[env.request_id] /\ t.msgs = <<LogMsg(t.rec)>>
      /\ t.rec.verdict = "duplicate" /\ t.rec.event = env.event_name
  BY <1>1, <1>2 DEF Noop
<1>4. StepLog(t)
  <2>1. IsSeq(t.msgs) /\ Len(t.msgs) = 1 /\ t.msgs[1] = LogMsg(t.rec)
    BY <1>3, TupleIsSeq
  <2> QED BY <2>1 DEF StepLog
<1>5. ledger = [r \in Rids |-> ledger[r]]
  BY NowTyped DEF LedgerTyped
<1>6. LedgerAfter(env.request_id, steps, 0) = ledger
  BY DEF LedgerAfter
<1>7. LedgerAfter(env.request_id, steps, 1) = ledger
  <2>1. [ledger EXCEPT ![env.request_id] = ledger[env.request_id]] = ledger
    BY <1>5
  <2> QED BY <1>2, <1>3, <2>1 DEF LedgerAfter
<1>8. Goes(Now, t.rec, Now)
  BY <1>3 DEF Goes, OfDuplicate
<1>9. Goes(StateAfter(env.request_id, steps, 0), t.rec, StateAfter(env.request_id, steps, 1))
  BY <1>6, <1>7, <1>8 DEF StateAfter, Now
<1>10. t.rec.event # "__cleanup__"
  BY <1>3 DEF RequestEvents
<1>11. StepsGo(env.request_id, steps)
  BY <1>2, <1>3, <1>4, <1>9, <1>10 DEF StepsGo
<1> QED BY <1>1, <1>11

\* The snapshot a request is judged by is installed under the version its record names.
LEMMA PinnedFacts ==
  ASSUME Typed(Now), NEW entry \in Entry
  PROVE  /\ PinnedConfig(entry).version \in Versions
         /\ configs[PinnedConfig(entry).version] # NoSnapshot
<1>1. PolicyTyped(config, configs) /\ entry.config_version \in Versions
  BY NowTyped DEF Entry
<1>2. CASE configs[entry.config_version] # NoSnapshot
  BY <1>1, <1>2 DEF PinnedConfig, PolicyTyped
<1>3. CASE configs[entry.config_version] = NoSnapshot
  <2>1. PinnedConfig(entry) = config
    BY <1>3 DEF PinnedConfig
  <2> QED BY <1>1, <2>1 DEF PolicyTyped, Versions
<1> QED BY <1>2, <1>3

LEMMA TransitionEvent ==
  ASSUME NEW rid, NEW entry, NEW event, NEW eid, NEW row, NEW ok, NEW version, NEW target,
         NEW t, t = Transition(rid, entry, event, eid, row, ok, version, target)
  PROVE  t.rec.event = event
BY DEF Transition, Record

LEMMA ApplyGoes ==
  ASSUME Typed(Now), NEW eid \in Nat, NEW env \in Envelopes(eid),
         env.event_name \in RequestEvents \ {"request.received"},
         Rows(ledger[env.request_id].lifecycle_state, env.event_name) # <<>>
  PROVE  StepsGo(env.request_id, Apply(env))
<1>1. PICK rid \in Rids : rid = env.request_id
  BY EnvelopeFacts
<1>2. PICK entry \in Entry : entry = ledger[rid]
  BY NowTyped DEF LedgerTyped, EntryTyped
<1>3. PICK cfg : cfg = PinnedConfig(entry)
  OBVIOUS
<1>4. PICK rows : rows = Rows(entry.lifecycle_state, env.event_name)
  OBVIOUS
<1>5. PICK i : i = PickRow(rows, entry, cfg)
  OBVIOUS
<1>6. PICK ok : ok = GuardResult(rows[i], i)
  OBVIOUS
<1>7. rows # <<>> /\ ok \in BOOLEAN /\ i = IF ok THEN 1 ELSE Len(rows)
  <2>1. rows # <<>>
    BY <1>1, <1>2, <1>4
  <2>2. ok \in BOOLEAN /\ i = IF ok THEN 1 ELSE Len(rows)
    BY <1>4, <1>5, <1>6, <2>1, GuardResultFacts
  <2> QED BY <2>1, <2>2
<1>8. PICK row : row = rows[i]
  OBVIOUS
<1>9. PICK t : t = Transition(rid, entry, env.event_name, env.event_id, row, ok, cfg.version, NoTarget)
  OBVIOUS
<1>10. PICK steps : steps = Apply(env)
  OBVIOUS
<1>11. Len(steps) = 1 /\ steps[1] = t
  BY <1>1, <1>2, <1>3, <1>4, <1>5, <1>6, <1>8, <1>9, <1>10 DEF Apply
<1>12. cfg.version \in Versions /\ configs[cfg.version] # NoSnapshot
  BY <1>3, PinnedFacts
<1>13. entry.lifecycle_state # "absent"
  BY <1>4, <1>7, AbsentRows
<1>14. env.event_name \notin SessionEvents \cup {"config.changed", "__cleanup__"}
       /\ env.event_name # "__routing__" /\ env.event_id \in Nat
  BY EnvelopeFacts DEF RequestEvents, SessionEvents
<1>15. LedgerTyped(ledger)
  BY NowTyped
<1>16. row = rows[IF ok THEN 1 ELSE Len(rows)]
  BY <1>7, <1>8
<1>17. /\ StepLog(t)
       /\ Goes(State(ledger, config, configs), t.rec,
               State([ledger EXCEPT ![rid] = t.entry], config, configs))
  <2>1. PICK version \in Versions : version = cfg.version
    BY <1>12
  <2>2. PICK e \in Nat : e = env.event_id
    BY <1>14
  <2>3. PICK event : event = env.event_name
    OBVIOUS
  <2>4. /\ configs[version] # NoSnapshot
        /\ event \notin SessionEvents \cup {"config.changed", "__cleanup__"}
    BY <1>12, <1>14, <2>1, <2>3
  <2>5. ledger[rid].lifecycle_state # "absent" /\ entry = ledger[rid]
    BY <1>2, <1>13
  <2>6. rows = Rows(entry.lifecycle_state, event) /\ rows # <<>> /\ ok \in BOOLEAN
    BY <1>4, <1>7, <2>3
  <2>7. t = Transition(rid, entry, event, e, row, ok, version, NoTarget)
    BY <1>9, <2>1, <2>2, <2>3
  <2> QED BY ONLY <1>15, <1>16, <2>4, <2>5, <2>6, <2>7, TransitionGoes
<1>18. t.rec.event # "__cleanup__"
  <2>1. t.rec.event = env.event_name
    BY <1>9, TransitionEvent
  <2> QED BY <2>1 DEF RequestEvents
<1>19. /\ LedgerAfter(rid, steps, 0) = ledger
       /\ LedgerAfter(rid, steps, 1) = [ledger EXCEPT ![rid] = t.entry]
  BY <1>11 DEF LedgerAfter
<1>20. Goes(StateAfter(rid, steps, 0), t.rec, StateAfter(rid, steps, 1))
  BY <1>17, <1>19 DEF StateAfter
<1>21. StepsGo(rid, steps)
  BY <1>11, <1>17, <1>20, <1>18 DEF StepsGo
<1> QED BY <1>1, <1>10, <1>21

LEMMA AdmitGoes ==
  ASSUME Typed(Now), NEW eid \in Nat, NEW env \in Envelopes(eid),
         env.event_name = "request.received", ~InLedger(env.request_id)
  PROVE  StepsGo(env.request_id, Admit(env))
<1>1. PICK rid \in Rids : rid = env.request_id
  BY EnvelopeFacts DEF RequestEvents
<1>2. PICK type \in Types \cup {NoType} : type = env.declared_type
  BY EnvelopeFacts
<1>3. PICK version \in Versions : version = config.version /\ configs[version] # NoSnapshot
  BY NowTyped DEF PolicyTyped, Versions
<1>4. PICK entry : entry = NewEntry(type, version)
  OBVIOUS
<1>5. entry \in Entry /\ entry.declared_type = type /\ entry.lifecycle_state = "created"
  BY <1>4, NewEntryFields DEF NewEntry, Absent
<1>6. PICK rows : rows = Rows("created", "request.received")
  OBVIOUS
<1>7. Len(rows) = 2 /\ rows # <<>>
  BY <1>6, AdmissionRows
<1>8. PICK ok : ok = AdmissionOk(env)
  OBVIOUS
<1>9. ok \in BOOLEAN
  BY <1>8 DEF AdmissionOk
<1>10. PICK row : row = rows[IF ok THEN 1 ELSE 2]
  OBVIOUS
<1>11. PICK t : t = Transition(rid, entry, "request.received", env.event_id, row, ok, version, NoTarget)
  OBVIOUS
<1>12. AdmissionTransition(env) = t
  BY <1>1, <1>2, <1>3, <1>4, <1>6, <1>8, <1>10, <1>11 DEF AdmissionTransition
<1>13. LedgerTyped(ledger) /\ ledger[rid].lifecycle_state = "absent" /\ env.event_id \in Nat
  BY <1>1, NowTyped, EnvelopeFacts DEF InLedger
<1>14. "request.received" \notin SessionEvents \cup {"config.changed", "__cleanup__"}
       /\ "__routing__" \notin SessionEvents \cup {"config.changed", "__cleanup__"}
  BY DEF SessionEvents
<1>15. entry = NewEntry(entry.declared_type, version)
  BY <1>4, <1>5
<1>16. rows = Rows(entry.lifecycle_state, "request.received")
       /\ row = rows[IF ok THEN 1 ELSE Len(rows)]
  BY <1>5, <1>6, <1>7, <1>10
<1>17. PICK led2 : led2 = [ledger EXCEPT ![rid] = t.entry]
  OBVIOUS
<1>18. /\ StepLog(t) /\ t.rec.event # "__cleanup__"
       /\ Goes(State(ledger, config, configs), t.rec, State(led2, config, configs))
  <2>1. t.rec.event = "request.received"
    BY <1>11, TransitionEvent
  <2>2. /\ StepLog(t)
        /\ Goes(State(ledger, config, configs), t.rec,
                State([ledger EXCEPT ![rid] = t.entry], config, configs))
    <3>1. PICK e \in Nat : e = env.event_id
      BY <1>13
    <3>2. PICK event : event = "request.received"
      OBVIOUS
    <3>3. /\ LedgerTyped(ledger) /\ configs[version] # NoSnapshot /\ entry \in Entry
          /\ event \notin SessionEvents \cup {"config.changed", "__cleanup__"}
      BY <1>3, <1>5, <1>13, <1>14, <3>2
    <3>4. /\ ledger[rid].lifecycle_state = "absent" /\ event = "request.received"
          /\ entry = NewEntry(entry.declared_type, version)
      BY <1>13, <1>15, <3>2
    <3>5. /\ rows = Rows(entry.lifecycle_state, event) /\ rows # <<>> /\ ok \in BOOLEAN
          /\ row = rows[IF ok THEN 1 ELSE Len(rows)]
      BY <1>7, <1>9, <1>16, <3>2
    <3>6. t = Transition(rid, entry, event, e, row, ok, version, NoTarget)
      BY <1>11, <3>1, <3>2
    <3> QED BY ONLY <3>3, <3>4, <3>5, <3>6, TransitionGoes
  <2> QED BY <1>17, <2>2, <2>1
<1>19. PICK steps : steps = Admit(env)
  OBVIOUS
<1>20. CASE ~ok
  <2>1. Len(steps) = 1 /\ steps[1] = t
    BY <1>8, <1>12, <1>19, <1>20 DEF Admit
  <2>2. LedgerAfter(rid, steps, 0) = ledger /\ LedgerAfter(rid, steps, 1) = led2
    BY <1>17, <2>1 DEF LedgerAfter
  <2>3. StepsGo(rid, steps)
    BY <1>18, <2>1, <2>2 DEF StepsGo, StateAfter
  <2> QED BY <1>1, <1>19, <2>3
<1>21. CASE ok
  <2>1. PICK u : u = RoutingTransition(env, t.entry)
    OBVIOUS
  <2>2. Len(steps) = 2 /\ steps[1] = t /\ steps[2] = u
    BY <1>8, <1>12, <1>19, <1>21, <2>1 DEF Admit
  <2>3. PICK target : target = RouteOf(type, config)
    OBVIOUS
  <2>4. target \in Targets \cup {NoTarget}
    BY <2>3, NowTyped, SnapshotAssumption DEF RouteOf, PolicyTyped
  <2>5. PICK found \in BOOLEAN : found = (target # NoTarget)
    OBVIOUS
  <2>6. PICK rows2 : rows2 = Rows("initialized", "__routing__")
    OBVIOUS
  <2>7. Len(rows2) = 2 /\ rows2 # <<>>
    BY <2>6 DEF Rows
  <2>8. PICK row2 : row2 = rows2[IF found THEN 1 ELSE 2]
    OBVIOUS
  <2>9. u = Transition(rid, t.entry, "__routing__", env.event_id, row2, found, version, target)
    BY <1>1, <1>2, <1>3, <2>1, <2>3, <2>5, <2>6, <2>8 DEF RoutingTransition
  <2>10. Typed(State(led2, config, configs))
    BY <1>18, GoesTyped DEF Now
  <2>11. LedgerTyped(led2)
    BY <2>10 DEF Typed, State
  <2>12. led2[rid] = t.entry /\ [led2 EXCEPT ![rid] = u.entry] = [ledger EXCEPT ![rid] = u.entry]
    <3>1. ledger = [r \in Rids |-> ledger[r]]
      BY <1>13 DEF LedgerTyped
    <3> QED BY <1>17, <3>1
  <2>13. PICK entry2 \in Entry : entry2 = t.entry /\ entry2 = led2[rid]
    BY <2>11, <2>12 DEF LedgerTyped, EntryTyped
  <2>14. entry2.lifecycle_state = "initialized"
    <3>1. row.next = "initialized"
      BY <1>6, <1>10, <1>21, AdmissionRows DEF Row
    <3>2. row.next \in States
      BY <3>1 DEF States, NonTerminal
    <3>3. t.entry = Advance(entry, "request.received", env.event_id, row, NoTarget)
      BY <1>11 DEF Transition
    <3>4. PICK e \in Nat : e = env.event_id
      BY <1>13
    <3>5. Advance(entry, "request.received", e, row, NoTarget).lifecycle_state = row.next
      BY <1>5, <3>2, AdvanceFields
    <3> QED BY <2>13, <3>1, <3>3, <3>4, <3>5
  <2>15. rows2 = Rows(entry2.lifecycle_state, "__routing__")
         /\ row2 = rows2[IF found THEN 1 ELSE Len(rows2)]
         /\ led2[rid].lifecycle_state # "absent"
         /\ u = Transition(rid, entry2, "__routing__", env.event_id, row2, found, version, target)
    BY <2>6, <2>7, <2>8, <2>9, <2>13, <2>14
  <2>16. u.rec.event = "__routing__"
    BY <2>15, TransitionEvent
  <2>17. /\ StepLog(u)
         /\ Goes(State(led2, config, configs), u.rec,
                 State([led2 EXCEPT ![rid] = u.entry], config, configs))
    <3>1. PICK e \in Nat : e = env.event_id
      BY <1>13
    <3>2. PICK event : event = "__routing__"
      OBVIOUS
    <3>3. /\ LedgerTyped(led2) /\ configs[version] # NoSnapshot /\ rows2 # <<>>
          /\ event \notin SessionEvents \cup {"config.changed", "__cleanup__"}
          /\ event # "__routing__" => target = NoTarget
          /\ target \in Targets \cup {NoTarget}
      BY <1>3, <1>14, <2>4, <2>7, <2>11, <3>2
    <3>4. /\ led2[rid].lifecycle_state # "absent" /\ entry2 = led2[rid]
          /\ rows2 = Rows(entry2.lifecycle_state, event)
          /\ row2 = rows2[IF found THEN 1 ELSE Len(rows2)]
      BY <2>13, <2>15, <3>2
    <3>5. u = Transition(rid, entry2, event, e, row2, found, version, target)
      BY <2>15, <3>1, <3>2
    <3> QED BY ONLY <3>3, <3>4, <3>5, TransitionGoes
  <2>18. /\ LedgerAfter(rid, steps, 0) = ledger /\ LedgerAfter(rid, steps, 1) = led2
         /\ LedgerAfter(rid, steps, 2) = [led2 EXCEPT ![rid] = u.entry]
    BY <1>17, <2>2, <2>12 DEF LedgerAfter
  <2>19. /\ Goes(StateAfter(rid, steps, 0), t.rec, StateAfter(rid, steps, 1))
         /\ Goes(StateAfter(rid, steps, 1), u.rec, StateAfter(rid, steps, 2))
    BY <1>18, <2>17, <2>18 DEF StateAfter
  <2>20. \A i \in 1..Len(steps) :
           /\ StepLog(steps[i]) /\ steps[i].rec.event # "__cleanup__"
           /\ Goes(StateAfter(rid, steps, i - 1), steps[i].rec, StateAfter(rid, steps, i))
    <3> SUFFICES ASSUME NEW i \in 1..2
                 PROVE  /\ StepLog(steps[i]) /\ steps[i].rec.event # "__cleanup__"
                        /\ Goes(StateAfter(rid, steps, i - 1), steps[i].rec, StateAfter(rid, steps, i))
      BY <2>2
    <3>1. CASE i = 1
      <4>1. i - 1 = 0
        BY <3>1
      <4> QED BY <1>18, <2>2, <2>19, <3>1, <4>1
    <3>2. CASE i = 2
      <4>1. i - 1 = 1
        BY <3>2
      <4> QED BY <2>2, <2>17, <2>19, <2>16, <3>2, <4>1
    <3> QED BY <3>1, <3>2
  <2>21. StepsGo(rid, steps)
    BY <2>2, <2>20 DEF StepsGo
  <2> QED BY <1>1, <1>19, <2>21
<1> QED BY <1>9, <1>20, <1>21

LEMMA StepsGoFacts ==
  ASSUME Typed(Now), NEW eid \in Nat, NEW env \in Envelopes(eid),
         env.event_name \in RequestEvents, Steps(env) # <<>>
  PROVE  StepsGo(env.request_id, Steps(env))
<1>1. env.request_id \in Rids
  BY EnvelopeFacts
<1>2. CASE Steps(env) = Noop(env)
  BY <1>1, <1>2, NoopGoes
<1>3. CASE /\ Steps(env) = Admit(env) /\ env.event_name = "request.received"
           /\ ~InLedger(env.request_id)
  BY <1>3, AdmitGoes
<1>4. CASE /\ Steps(env) = Apply(env) /\ env.event_name # "request.received"
           /\ Rows(ledger[env.request_id].lifecycle_state, env.event_name) # <<>>
  BY <1>4, ApplyGoes
<1> QED BY <1>2, <1>3, <1>4, Zenon DEF Steps

\* The records of the first n steps lead to what these steps leave.
LEMMA StepsGoLead ==
  ASSUME NEW rid, NEW steps, StepsGo(rid, steps), NEW n \in 0..Len(steps)
  PROVE  Leads(Now, FirstOf(steps, n), StateAfter(rid, steps, n))
<1>1. StateAfter(rid, steps, 0) = Now
  BY DEF StateAfter, LedgerAfter, Now
<1>2. /\ FirstOf(steps, 0) = <<>> /\ FirstOf(steps, 1) = <<steps[1].rec>>
      /\ FirstOf(steps, 2) = <<steps[1].rec, steps[2].rec>>
  BY DEF FirstOf
<1>3. Goes(StateAfter(rid, steps, 0), steps[1].rec, StateAfter(rid, steps, 1))
  <2>1. 1 \in 1..Len(steps) /\ 1 - 1 = 0
    BY DEF StepsGo
  <2> QED BY <2>1 DEF StepsGo
<1>4. Leads(Now, <<steps[1].rec>>, StateAfter(rid, steps, 1))
  BY <1>1, <1>3, LeadsOne
<1>5. CASE n = 0
  BY <1>1, <1>2, <1>5, LeadsNone
<1>6. CASE n = 1
  BY <1>2, <1>4, <1>6
<1>7. CASE n = 2
  <2>1. 2 \in 1..Len(steps) /\ 2 - 1 = 1
    BY <1>7 DEF StepsGo
  <2>2. Goes(StateAfter(rid, steps, 1), steps[2].rec, StateAfter(rid, steps, 2))
    BY <2>1 DEF StepsGo
  <2>3. Leads(StateAfter(rid, steps, 1), <<steps[2].rec>>, StateAfter(rid, steps, 2))
    BY <2>2, LeadsOne
  <2>4. Leads(Now, <<steps[1].rec>> \o <<steps[2].rec>>, StateAfter(rid, steps, 2))
    BY <1>4, <2>3, LeadsOn
  <2>5. <<steps[1].rec>> \o <<steps[2].rec>> = <<steps[1].rec, steps[2].rec>>
    BY PairConcat
  <2> QED BY <1>2, <1>7, <2>4, <2>5
<1>8. n \in {0, 1, 2}
  BY DEF StepsGo
<1> QED BY <1>5, <1>6, <1>7, <1>8

\* The chosen sequence of a set has every element of it.
LEMMA SetToSeqHasAll ==
  ASSUME NEW S, IsFiniteSet(S), NEW s, s = SetToSeq(S)
  PROVE  \E n \in Nat : /\ n = Len(s) /\ s \in [1..n -> S]
                        /\ \A x \in S : \E i \in 1..n : s[i] = x
<1>1. PICK n \in Nat : n = Cardinality(S)
  BY FS_CardinalityType
<1>2. Bijection(1..n, S) # {}
  BY <1>1, FS_CardinalityType DEF ExistsBijection
<1>3. PICK f : f \in Bijection(1..n, S)
  BY <1>2
<1>4. f \in [1..n -> S] /\ IsInjective(f)
  BY <1>3 DEF Bijection, Injection
<1>5. s \in [1..n -> S] /\ IsInjective(s)
  BY <1>1, <1>4 DEF SetToSeq
<1>6. s \in Injection(1..n, S)
  BY <1>5 DEF Injection
<1>7. Cardinality(1..n) = n
  BY FS_Interval
<1>8. s \in Surjection(1..n, S)
  BY <1>1, <1>6, <1>7, FS_Injection
<1>9. \A x \in S : \E i \in 1..n : s[i] = x
  BY <1>8 DEF Surjection
<1>10. Len(s) = n
  BY <1>5
<1> QED BY <1>5, <1>9, <1>10

\* The records of a session: its own, then an eviction for every finished request.
LEMMA SessionShape ==
  ASSUME Typed(Now), NEW name \in SessionEvents, NEW recs, recs = SessionRecords(name)
  PROVE  /\ IsSeq(recs) /\ Len(recs) \in Nat /\ Len(recs) >= 1
         /\ recs[1].event = name /\ recs[1].verdict = "applied"
         /\ \A i \in 2..Len(recs) : /\ recs[i].event = "__cleanup__" /\ recs[i].verdict = "applied"
                                    /\ recs[i].request_id \in TerminalRids
         /\ name = "session.sleep" =>
              \A r \in TerminalRids : \E i \in 2..Len(recs) : recs[i].request_id = r
         /\ name # "session.sleep" => Len(recs) = 1
<1>1. PICK first : first = SystemRecord(name, config.version, NoSnapshot)
  OBVIOUS
<1>2. first.event = name /\ first.verdict = "applied"
  BY <1>1 DEF SystemRecord
<1>3. PICK rids : rids = SetToSeq(TerminalRids)
  OBVIOUS
<1>4. IsFiniteSet(TerminalRids)
  <2>1. IsFiniteSet(Present(ledger))
    BY NowTyped DEF LedgerTyped
  <2>2. TerminalRids \in SUBSET Present(ledger)
    BY DEF TerminalRids, Present, Terminal
  <2> QED BY <2>1, <2>2, FS_Subset
<1>5. PICK n \in Nat : /\ n = Len(rids) /\ rids \in [1..n -> TerminalRids]
                       /\ \A x \in TerminalRids : \E i \in 1..n : rids[i] = x
  BY <1>3, <1>4, SetToSeqHasAll
<1>6. \A rid : /\ CleanupRecord(rid).event = "__cleanup__" /\ CleanupRecord(rid).verdict = "applied"
               /\ CleanupRecord(rid).request_id = rid
  BY DEF CleanupRecord, SystemRecord
<1>7. CASE name = "session.sleep"
  <2>1. PICK rest : rest = [i \in 1..n |-> CleanupRecord(rids[i])]
    OBVIOUS
  <2>2. rest = [i \in 1..n |-> rest[i]] /\ \A i \in 1..n : rest[i] = CleanupRecord(rids[i])
    BY <2>1
  <2>3. IsSeq(rest) /\ Len(rest) = n
    BY <2>2, FunIsSeq
  <2>4. recs = <<first>> \o rest
    BY <1>1, <1>3, <1>5, <1>7, <2>1 DEF SessionRecords
  <2>5. IsSeq(recs) /\ Len(recs) = 1 + n /\ recs[1] = first
    <3>1. IsSeq(recs) /\ Len(recs) = 1 + Len(rest) /\ recs[1] = first
      BY ONLY <2>3, <2>4, Prepended
    <3> QED BY <2>3, <3>1
  <2>6. \A i \in 1..n : recs[1 + i] = rest[i]
    <3>1. \A i \in 1..Len(rest) : recs[1 + i] = rest[i]
      BY ONLY <2>3, <2>4, Prepended
    <3> QED BY <2>3, <3>1
  <2>7. ASSUME NEW i \in 2..Len(recs)
        PROVE  /\ recs[i].event = "__cleanup__" /\ recs[i].verdict = "applied"
               /\ recs[i].request_id \in TerminalRids
    <3>1. PICK k \in 1..n : i = 1 + k
      <4>1. i - 1 \in 1..n /\ i = 1 + (i - 1)
        BY <2>5
      <4> QED BY <4>1
    <3>2. recs[i] = CleanupRecord(rids[k])
      BY <2>2, <2>6, <3>1
    <3> QED BY <1>5, <1>6, <3>2
  <2>8. ASSUME NEW r \in TerminalRids PROVE \E i \in 2..Len(recs) : recs[i].request_id = r
    <3>1. PICK k \in 1..n : rids[k] = r
      BY <1>5
    <3>2. recs[1 + k].request_id = r
      BY <1>6, <2>2, <2>6, <3>1
    <3>3. 1 + k \in 2..Len(recs)
      BY <2>5
    <3> QED BY <3>2, <3>3
  <2>9. Len(recs) \in Nat /\ Len(recs) >= 1
    BY <2>5
  <2> QED BY <1>2, <1>7, <2>5, <2>7, <2>8, <2>9
<1>8. CASE name # "session.sleep"
  <2>1. PICK rest : rest = <<>>
    OBVIOUS
  <2>2. recs = <<first>> \o rest
    BY <1>1, <1>8, <2>1 DEF SessionRecords
  <2>3. IsSeq(rest) /\ Len(rest) = 0
    BY <2>1, TupleIsSeq
  <2>4. IsSeq(recs) /\ Len(recs) = 1 /\ recs[1] = first
    <3>1. PICK one : one = <<first>>
      OBVIOUS
    <3>2. IsSeq(one) /\ Len(one) = 1 /\ one[1] = first
      BY <3>1, TupleIsSeq
    <3>3. recs = one \o rest
      BY <2>2, <3>1
    <3>4. IsSeq(recs) /\ Len(recs) = 1 /\ \A i \in 1..1 : recs[i] = one[i]
      BY ONLY <2>3, <3>2, <3>3, ConcatIsSeq
    <3> QED BY <3>2, <3>4
  <2> QED BY <1>2, <1>8, <2>4
<1> QED BY <1>7, <1>8

\* The ledger when the requests of the first n records of a session are evicted.
Gone(recs, n) == {recs[i].request_id : i \in 2..n}
Without(gone) == [r \in Rids |-> IF r \in gone THEN Absent ELSE ledger[r]]

LEMMA SessionLead ==
  ASSUME Typed(Now), NEW name \in SessionEvents, NEW recs, recs = SessionRecords(name),
         NEW k \in 0..Len(recs)
  PROVE  Leads(Now, SubSeq(recs, 1, k), State(Without(Gone(recs, k)), config, configs))
<1>1. /\ IsSeq(recs) /\ Len(recs) \in Nat
      /\ recs[1].event = name /\ recs[1].verdict = "applied"
      /\ \A i \in 2..Len(recs) : /\ recs[i].event = "__cleanup__" /\ recs[i].verdict = "applied"
                                 /\ recs[i].request_id \in TerminalRids
  BY SessionShape
<1>2. PICK part : part = SubSeq(recs, 1, k)
  OBVIOUS
<1>3. IsSeq(part) /\ Len(part) = k /\ \A i \in 1..k : i \in 1..Len(recs) /\ part[i] = recs[i]
  BY <1>1, <1>2, SliceOK
<1>4. PICK h : h = [i \in 0..k |-> State(Without(Gone(recs, i)), config, configs)]
  OBVIOUS
<1>5. \A i \in 0..k : h[i] = State(Without(Gone(recs, i)), config, configs)
  BY <1>4
<1>6. /\ Without(Gone(recs, 0)) = ledger /\ Without(Gone(recs, 1)) = ledger
  <2>1. Gone(recs, 0) = {} /\ Gone(recs, 1) = {}
    BY DEF Gone
  <2>2. ledger = [r \in Rids |-> ledger[r]]
    BY NowTyped DEF LedgerTyped
  <2>3. Without({}) = [r \in Rids |-> ledger[r]]
    BY DEF Without
  <2> QED BY <2>1, <2>2, <2>3
<1>7. ASSUME NEW i \in 1..k PROVE Goes(h[i - 1], part[i], h[i])
  <2>1. CASE i = 1
    <3>1. h[i - 1] = Now /\ h[i] = Now
      <4>1. i - 1 = 0 /\ 0 \in 0..k /\ 1 \in 0..k
        BY <2>1
      <4> QED BY <1>5, <1>6, <2>1, <4>1 DEF Now
    <3>2. OfSession(part[i])
      BY <1>1, <1>3, <2>1 DEF OfSession
    <3> QED BY <3>1, <3>2 DEF Goes
  <2>2. CASE i # 1
    <3>1. PICK rec : rec = part[i] /\ rec = recs[i]
      BY <1>3
    <3>2. i \in 2..Len(recs) /\ i - 1 \in 0..k /\ i \in 0..k
      BY <1>1, <2>2
    <3>3. rec.event = "__cleanup__" /\ rec.verdict = "applied" /\ rec.request_id \in Rids
      BY <1>1, <3>1, <3>2 DEF TerminalRids
    <3>4. OfCleanup(rec)
      BY <3>3 DEF OfCleanup
    <3>5. PICK old, new : old = Gone(recs, i - 1) /\ new = Gone(recs, i)
      OBVIOUS
    <3>6. new = old \cup {rec.request_id}
      <4>1. 2..i = 2..(i - 1) \cup {i}
        BY <3>2
      <4> QED BY <3>1, <3>5, <4>1 DEF Gone
    <3>7. Without(new) = [Without(old) EXCEPT ![rec.request_id] = Absent]
      <4>1. PICK a, b : a = Without(old) /\ b = Without(new)
        OBVIOUS
      <4>2. a = [r \in Rids |-> a[r]] /\ b = [r \in Rids |-> b[r]]
            /\ \A r \in Rids : /\ a[r] = IF r \in old THEN Absent ELSE ledger[r]
                               /\ b[r] = IF r \in new THEN Absent ELSE ledger[r]
        BY <4>1 DEF Without
      <4>3. PICK c : c = [a EXCEPT ![rec.request_id] = Absent]
        OBVIOUS
      <4>4. c = [r \in Rids |-> c[r]]
            /\ \A r \in Rids : c[r] = IF r = rec.request_id THEN Absent ELSE a[r]
        BY <4>2, <4>3
      <4>5. \A r \in Rids : b[r] = c[r]
        BY <3>6, <4>2, <4>4
      <4>6. b = c
        BY <4>2, <4>4, <4>5
      <4> QED BY <4>1, <4>3, <4>6
    <3>8. PICK x, y : x = h[i - 1] /\ y = h[i]
      OBVIOUS
    <3>9. x = State(Without(old), config, configs) /\ y = State(Without(new), config, configs)
      BY <1>5, <3>2, <3>5, <3>8
    <3>10. x.ledger = Without(old) /\ x.config = config /\ x.configs = configs
      BY <3>9 DEF State
    <3>11. y = State([x.ledger EXCEPT ![rec.request_id] = Absent], x.config, x.configs)
      BY <3>7, <3>9, <3>10
    <3>12. Goes(x, rec, y)
      BY <3>4, <3>11 DEF Goes
    <3> QED BY <3>1, <3>8, <3>12
  <2> QED BY <2>1, <2>2
<1>8. h[0] = Now /\ h[k] = State(Without(Gone(recs, k)), config, configs)
  <2>1. k \in Nat
    BY <1>1
  <2>2. 0 \in 0..k /\ k \in 0..k
    BY <2>1
  <2> QED BY <1>5, <1>6, <2>2 DEF Now
<1>9. IsChain(h, part)
  BY <1>3, <1>7 DEF IsChain
<1>10. Leads(Now, part, State(Without(Gone(recs, k)), config, configs))
  BY <1>3, <1>8, <1>9 DEF Leads
<1> QED BY <1>2, <1>10

\* At the end of session.sleep every finished request is evicted.
LEMMA SessionEnds ==
  ASSUME Typed(Now), NEW env, HandleSession(env)
  PROVE  \E recs : /\ recs = SessionRecords(env.event_name) /\ env.event_name \in SessionEvents
                   /\ log' = log \o recs
                   /\ SafePublish([i \in 1..Len(recs) |-> LogMsg(recs[i])])
                   /\ ledger' = Without(Gone(recs, Len(recs))) /\ config' = config /\ configs' = configs
<1>1. PICK recs : recs = SessionRecords(env.event_name)
  OBVIOUS
<1>2. /\ env.event_name \in SessionEvents
      /\ log' = log \o recs /\ SafePublish([i \in 1..Len(recs) |-> LogMsg(recs[i])])
      /\ config' = config /\ configs' = configs
      /\ ledger' = IF env.event_name = "session.sleep"
                     THEN [r \in Rids |-> IF r \in TerminalRids THEN Absent ELSE ledger[r]]
                     ELSE ledger
  BY <1>1 DEF HandleSession
<1>3. /\ Len(recs) \in Nat
      /\ \A i \in 2..Len(recs) : recs[i].request_id \in TerminalRids
      /\ env.event_name = "session.sleep" =>
           \A r \in TerminalRids : \E i \in 2..Len(recs) : recs[i].request_id = r
      /\ env.event_name # "session.sleep" => Len(recs) = 1
  <2>1. PICK name \in SessionEvents : name = env.event_name
    BY <1>2
  <2>2. recs = SessionRecords(name)
    BY <1>1, <2>1
  <2>3. Len(recs) \in Nat /\ \A i \in 2..Len(recs) : recs[i].request_id \in TerminalRids
    BY <2>2, SessionShape
  <2>4. name = "session.sleep" =>
          \A r \in TerminalRids : \E i \in 2..Len(recs) : recs[i].request_id = r
    BY <2>2, SessionShape
  <2>5. name # "session.sleep" => Len(recs) = 1
    BY <2>2, SessionShape
  <2> QED BY <2>1, <2>3, <2>4, <2>5
<1>4. CASE env.event_name = "session.sleep"
  <2>1. Gone(recs, Len(recs)) = TerminalRids
    BY <1>3, <1>4 DEF Gone
  <2> QED BY <1>1, <1>2, <1>4, <2>1 DEF Without
<1>5. CASE env.event_name # "session.sleep"
  <2>1. Gone(recs, Len(recs)) = {}
    BY <1>3, <1>5 DEF Gone
  <2>2. ledger = [r \in Rids |-> ledger[r]]
    BY NowTyped DEF LedgerTyped
  <2>3. Without({}) = [r \in Rids |-> ledger[r]]
    BY DEF Without
  <2> QED BY <1>1, <1>2, <1>5, <2>1, <2>2, <2>3
<1> QED BY <1>4, <1>5

-----------------------------------------------------------------------------
(* Recovered, inductive.                                                   *)

\* The state a coordinator is built with.
Start ==
  State([r \in Rids |-> Absent], InitialSnapshot,
        [v \in Versions |-> IF v = InitialSnapshot.version THEN InitialSnapshot
                                                           ELSE NoSnapshot])

\* There is a log of which recs are records and that leads to what mem remembers.
Remembers(full, s, recs, mem) ==
  /\ Leads(Start, full, s) /\ s.ledger = mem.ledger /\ s.config = mem.config
  /\ Among(recs, full)
  /\ mem.complete => recs = full
  /\ \A j \in 1..Len(full) : full[j].event = "__cleanup__" => full[j].request_id \in mem.evicted
Remembered(recs, mem) == \E full, s : Remembers(full, s, recs, mem)

\* The ledger led is not ahead of the remembered one.
Behind(led, mem) ==
  \A r \in Rids \ mem.evicted :
    /\ led[r].transition_sequence <= mem.ledger[r].transition_sequence
    /\ led[r].transition_sequence = mem.ledger[r].transition_sequence
         => led[r] = mem.ledger[r]

\* The records on the bus are among recs.
BodiesIn(msgs, recs) ==
  \A j \in 1..Len(msgs) : msgs[j].topic = LogTopic =>
    \E i \in 1..Len(recs) : msgs[j].body = recs[i]

\* The envelopes waiting or still to come are envelopes.
EnvironmentTyped ==
  /\ next_eid \in Nat
  /\ pending # NoEvent => \E eid \in Nat : pending \in Envelopes(eid)

\* The log leads to the coordinator of now; recovery replays a beginning of the records on
\* the bus, which are those of a log that leads to what the crash took, and stops only
\* behind it, over a log with gaps.
ExactInv ==
  /\ EnvironmentTyped
  /\ IsSeq(bus) /\ IsSeq(log)
  /\ phase \in {"running", "replaying", "deviated"}
  /\ phase # "deviated" => Leads(Start, log, Now)
  /\ phase = "running" => BodiesIn(bus, log)
  /\ phase = "replaying" =>
       /\ records = LogRecords(bus) /\ Len(log) <= Len(records)
       /\ \A i \in 1..Len(log) : log[i] = records[i]
       /\ Remembered(records, memory)
  /\ phase = "deviated" => ~memory.complete /\ Behind(ledger, memory)

LEMMA StartTyped == Typed(Start)
<1>1. PICK led, snaps : /\ led = [r \in Rids |-> Absent]
                        /\ snaps = [v \in Versions |-> IF v = InitialSnapshot.version
                                                         THEN InitialSnapshot ELSE NoSnapshot]
  OBVIOUS
<1>2. LedgerTyped(led)
  <2>1. led = [r \in Rids |-> led[r]] /\ \A r \in Rids : led[r] = Absent
    BY <1>1
  <2>2. \A r \in Rids : EntryTyped(led[r])
    BY <2>1, AbsentTyped
  <2>3. Present(led) = {}
    BY <2>1 DEF Present, Absent
  <2>4. IsFiniteSet(Present(led))
    BY <2>3, FS_EmptySet
  <2> QED BY <2>1, <2>2, <2>4 DEF LedgerTyped
<1>3. PolicyTyped(InitialSnapshot, snaps)
  <2>1. InitialSnapshot \in Snapshots /\ InitialSnapshot # NoSnapshot
        /\ InitialSnapshot.version \in Versions
    BY SnapshotAssumption DEF Versions
  <2>2. /\ snaps \in [Versions -> Snapshots \cup {NoSnapshot}]
        /\ \A v \in Versions : snaps[v] = IF v = InitialSnapshot.version
                                            THEN InitialSnapshot ELSE NoSnapshot
    BY <1>1, <2>1
  <2> QED BY <2>1, <2>2 DEF PolicyTyped
<1> QED BY <1>1, <1>2, <1>3 DEF Typed, Start, State

LEMMA LeadsTyped ==
  ASSUME NEW a, Typed(a), NEW recs, NEW b, Leads(a, recs, b)
  PROVE  Typed(b)
<1>1. IsSeq(recs)
  BY DEF Leads
<1>2. PICK h : h[0] = a /\ h[Len(recs)] = b /\ IsChain(h, recs)
  BY DEF Leads
<1>3. Len(recs) \in 0..Len(recs)
  <2>1. Len(recs) \in Nat
    BY <1>1, ConcatIsSeq
  <2> QED BY <2>1
<1>4. \A i \in 0..Len(recs) : Typed(h[i])
  BY <1>1, <1>2, ChainTyped
<1> QED BY <1>2, <1>3, <1>4

\* What a record that can be replayed looks like.
Shaped(rec) ==
  OfConfig(rec) \/ OfSession(rec) \/ OfCleanup(rec) \/ OfDuplicate(rec) \/ OfTransition(rec)

LEMMA ShapeFacts ==
  ASSUME NEW rec, Shaped(rec)
  PROVE  /\ rec.event = "config.changed" => OfConfig(rec)
         /\ rec.event \in SessionEvents => OfSession(rec)
         /\ rec.event = "__cleanup__" => OfCleanup(rec)
         /\ rec.verdict = "duplicate" => OfDuplicate(rec)
         /\ IsTransition(rec) => OfTransition(rec) /\ ~OfConfig(rec) /\ ~OfSession(rec)
                                 /\ ~OfCleanup(rec) /\ ~OfDuplicate(rec)
BY DEF Shaped, OfConfig, OfSession, OfCleanup, OfDuplicate, OfTransition, IsTransition,
       SessionEvents, RequestEvents

LEMMA GoesShaped ==
  ASSUME NEW a, NEW rec, NEW b, Goes(a, rec, b)
  PROVE  Shaped(rec) /\ (IsTransition(rec) => FitsAt(a.ledger, a.configs, rec))
<1>1. Shaped(rec)
  BY Zenon DEF Goes, Shaped
<1>2. ASSUME IsTransition(rec) PROVE FitsAt(a.ledger, a.configs, rec)
  <2>1. ~OfConfig(rec) /\ ~OfSession(rec) /\ ~OfCleanup(rec) /\ ~OfDuplicate(rec)
    BY <1>1, <1>2, ShapeFacts
  <2> QED BY <2>1, Zenon DEF Goes
<1> QED BY <1>1, <1>2

LEMMA LeadsShaped ==
  ASSUME NEW a, NEW recs, NEW b, Leads(a, recs, b), NEW i \in 1..Len(recs)
  PROVE  Shaped(recs[i])
<1>1. PICK h : IsChain(h, recs)
  BY DEF Leads
<1>2. Goes(h[i - 1], recs[i], h[i])
  BY <1>1 DEF IsChain
<1> QED BY <1>2, GoesShaped

\* What is replayed of the remembered log is not ahead of what it leads to.
LEMMA ReplayBehind ==
  ASSUME NEW full, NEW s, NEW recs, NEW mem, Remembers(full, s, recs, mem),
         NEW done, IsSeq(done), Len(done) <= Len(recs), IsSeq(recs),
         \A i \in 1..Len(done) : done[i] = recs[i],
         NEW b, Leads(Start, done, b)
  PROVE  Behind(b.ledger, mem)
<1>1. IsSeq(full)
  BY DEF Remembers, Leads
<1>2. PICK h : h[0] = Start /\ h[Len(full)] = s /\ IsChain(h, full)
  BY DEF Remembers, Leads
<1>3. PICK g : g[0] = Start /\ g[Len(done)] = b /\ IsChain(g, done)
  BY DEF Leads
<1>4. PICK L \in Nat, M \in Nat, K \in Nat : L = Len(done) /\ M = Len(full) /\ K = Len(recs)
  BY <1>1, ConcatIsSeq
<1>5. ASSUME NEW i \in 1..Len(done) PROVE \E j \in 1..Len(full) : done[i] = full[j]
  <2>1. i \in 1..Len(recs)
    BY <1>4
  <2>2. \E j \in 1..Len(full) : recs[i] = full[j]
    BY <2>1 DEF Remembers, Among
  <2> QED BY <2>2
<1>6. ASSUME NEW r \in Rids \ mem.evicted
      PROVE  /\ b.ledger[r].transition_sequence <= mem.ledger[r].transition_sequence
             /\ b.ledger[r].transition_sequence = mem.ledger[r].transition_sequence
                  => b.ledger[r] = mem.ledger[r]
  <2>1. \A i \in 1..Len(full) : ~(full[i].event = "__cleanup__" /\ full[i].request_id = r)
    BY <1>6 DEF Remembers
  <2>2. Typed(h[0]) /\ g[0] = h[0] /\ r \in Rids
    BY <1>2, <1>3, StartTyped
  <2>3. \A n \in 0..Len(done) : \E i \in 0..Len(full) : g[n].ledger[r] = h[i].ledger[r]
    <3>1. Among(done, full) /\ Spares(full, r)
      BY <1>5, <2>1 DEF Among, Spares
    <3>2. IsChain(h, full) /\ IsChain(g, done)
      BY <1>2, <1>3
    <3> QED BY ONLY <1>1, <2>2, <3>1, <3>2, IsSeq(done), ChainFollows
  <2>4. PICK i \in 0..M : g[L].ledger[r] = h[i].ledger[r]
    <3>1. L \in 0..Len(done)
      BY <1>4
    <3> QED BY <1>4, <2>3, <3>1
  <2>5. \A j \in 0..Len(full) : \A k \in 0..j :
           /\ h[k].ledger[r].transition_sequence <= h[j].ledger[r].transition_sequence
           /\ h[k].ledger[r].transition_sequence = h[j].ledger[r].transition_sequence
                => h[k].ledger[r] = h[j].ledger[r]
    BY ONLY <1>1, <1>2, <2>1, <2>2, ChainRises
  <2>6. M \in 0..Len(full) /\ i \in 0..M
    BY <1>4
  <2>7. /\ h[i].ledger[r].transition_sequence <= h[M].ledger[r].transition_sequence
        /\ h[i].ledger[r].transition_sequence = h[M].ledger[r].transition_sequence
             => h[i].ledger[r] = h[M].ledger[r]
    BY <2>5, <2>6
  <2>8. h[M].ledger = mem.ledger /\ g[L].ledger = b.ledger
    BY <1>2, <1>3, <1>4 DEF Remembers
  <2> QED BY <2>4, <2>7, <2>8
<1> QED BY <1>6 DEF Behind

\* Replaying the whole of a complete log gives what is remembered; a part of it, a state
\* the handlers went through.
LEMMA ReplayAgrees ==
  ASSUME NEW full, NEW h, IsSeq(full), h[0] = Start, IsChain(h, full),
         NEW done, IsSeq(done), Len(done) <= Len(full),
         \A i \in 1..Len(done) : done[i] = full[i],
         NEW b, Leads(Start, done, b)
  PROVE  b = h[Len(done)]
<1>1. PICK g : g[0] = Start /\ g[Len(done)] = b /\ IsChain(g, done)
  BY DEF Leads
<1>2. PICK L \in Nat : L = Len(done)
  BY ConcatIsSeq
<1>3. PICK M \in Nat : M = Len(full)
  BY ConcatIsSeq
<1>4. ASSUME NEW i \in 1..L
      PROVE  /\ Goes(g[i - 1], done[i], g[i]) /\ Goes(h[i - 1], full[i], h[i])
             /\ done[i] = full[i]
  <2>1. i \in 1..Len(done) /\ i \in 1..Len(full)
    BY <1>2, <1>3
  <2> QED BY <1>1, <2>1 DEF IsChain
<1>5. \A i \in 0..L : g[i] = h[i]
  <2>1. g[0] = h[0]
    BY <1>1
  <2> QED BY ONLY <1>4, <2>1, L \in Nat, ChainsAgree
<1>6. L \in 0..L
  OBVIOUS
<1> QED BY <1>1, <1>2, <1>5, <1>6

LEMMA ExactIsRecovered == ExactInv => Recovered
<1> SUFFICES ASSUME ExactInv PROVE Recovered
  OBVIOUS
<1>1. CASE phase = "running"
  BY <1>1 DEF Recovered, RecoveredExactly, RecoveredPrefix
<1>2. CASE phase = "deviated"
  BY <1>2 DEF ExactInv, Recovered, RecoveredExactly, RecoveredPrefix, Behind
<1>3. CASE phase = "replaying"
  <2>1. /\ IsSeq(log) /\ IsSeq(bus) /\ Leads(Start, log, Now)
        /\ records = LogRecords(bus) /\ Len(log) <= Len(records)
        /\ \A i \in 1..Len(log) : log[i] = records[i]
    BY <1>3 DEF ExactInv
  <2>2. IsSeq(records)
    BY <2>1, LogRecordsHold
  <2>3. PICK full, s : Remembers(full, s, records, memory)
    BY <1>3 DEF ExactInv, Remembered
  <2>4. Now.ledger = ledger /\ Now.config = config
    BY DEF Now, State
  <2>5. Behind(ledger, memory)
    BY <2>1, <2>2, <2>3, <2>4, ReplayBehind
  <2>6. ASSUME memory.complete, Len(log) = Len(records)
        PROVE  ledger = memory.ledger /\ config = memory.config
    <3>1. records = full /\ Leads(Start, full, s) /\ s.ledger = memory.ledger
          /\ s.config = memory.config
      BY <2>3, <2>6 DEF Remembers
    <3>2. PICK h : h[0] = Start /\ h[Len(full)] = s /\ IsChain(h, full)
      BY <3>1 DEF Leads
    <3>3. Len(log) <= Len(full) /\ \A i \in 1..Len(log) : log[i] = full[i]
      BY <2>1, <3>1
    <3>4. Now = h[Len(log)]
      BY <2>1, <2>2, <3>1, <3>2, <3>3, ReplayAgrees
    <3>5. Now = s
      BY <2>6, <3>1, <3>2, <3>4
    <3> QED BY <2>4, <3>1, <3>5
  <2> QED BY <1>3, <2>5, <2>6 DEF Recovered, RecoveredExactly, RecoveredPrefix, Behind
<1> QED BY <1>1, <1>2, <1>3 DEF ExactInv

LEMMA AppendJoins ==
  ASSUME NEW s, IsSeq(s), NEW x PROVE Append(s, x) = s \o <<x>>
<1>1. PICK a, b, t : a = Append(s, x) /\ b = s \o t /\ t = <<x>>
  OBVIOUS
<1>2. IsSeq(t) /\ Len(t) = 1 /\ t[1] = x
  BY <1>1, TupleIsSeq
<1>3. PICK m \in Nat : m = Len(s)
  BY ConcatIsSeq
<1>4. IsSeq(a) /\ Len(a) = m + 1 /\ (\A i \in 1..m : a[i] = s[i]) /\ a[m + 1] = x
  BY <1>1, <1>3, AppendIsSeq
<1>5. /\ IsSeq(b) /\ Len(b) = m + 1 /\ (\A i \in 1..m : b[i] = s[i])
      /\ b[m + 1] = x
  <2>1. PICK n \in Nat : n = 1 /\ n = Len(t)
    BY <1>2
  <2>2. /\ IsSeq(b) /\ Len(b) = m + n /\ (\A i \in 1..m : b[i] = s[i])
        /\ \A i \in 1..n : b[m + i] = t[i]
    BY <1>1, <1>2, <1>3, <2>1, ConcatIsSeq
  <2> QED BY <1>2, <2>1, <2>2
<1>6. \A i \in 1..(m + 1) : a[i] = b[i]
  BY <1>4, <1>5
<1>7. a = b
  BY <1>4, <1>5, <1>6, SameSeq
<1> QED BY <1>1, <1>7

\* What the bus accepts of a batch is from the batch.
LEMMA AcceptedFrom ==
  ASSUME NEW msgs, IsSeq(msgs)
  PROVE  /\ IsSeq(Accepted(msgs))
         /\ \A i \in 1..Len(Accepted(msgs)) : \E j \in 1..Len(msgs) : Accepted(msgs)[i] = msgs[j]
<1>1. CASE ~Refused(msgs)
  <2>1. Accepted(msgs) = msgs
    BY <1>1 DEF Accepted
  <2> QED BY <2>1
<1>2. CASE Refused(msgs)
  <2>1. PICK keep : keep = {i \in DOMAIN msgs : msgs[i].topic \notin down}
    OBVIOUS
  <2>2. PICK r : r = Subsequence(msgs, keep)
    OBVIOUS
  <2>3. Accepted(msgs) = r
    BY <1>2, <2>1, <2>2 DEF Accepted
  <2>4. PICK n \in Nat : n = Len(msgs)
    BY ConcatIsSeq
  <2>5. Gathers(r, msgs, keep, n)
    BY <2>2, <2>4, SubsequenceFacts
  <2> QED BY <2>3, <2>4, <2>5 DEF Gathers
<1> QED BY <1>1, <1>2

LEMMA BodiesInAccepted ==
  ASSUME NEW msgs, IsSeq(msgs), NEW recs, BodiesIn(msgs, recs)
  PROVE  BodiesIn(Accepted(msgs), recs)
<1>1. PICK out : out = Accepted(msgs)
  OBVIOUS
<1>2. \A i \in 1..Len(out) : \E j \in 1..Len(msgs) : out[i] = msgs[j]
  BY <1>1, AcceptedFrom
<1>3. ASSUME NEW i \in 1..Len(out), out[i].topic = LogTopic
      PROVE  \E k \in 1..Len(recs) : out[i].body = recs[k]
  <2>1. PICK j \in 1..Len(msgs) : out[i] = msgs[j]
    BY <1>2
  <2> QED BY <1>3, <2>1 DEF BodiesIn
<1>4. BodiesIn(out, recs)
  BY <1>3 DEF BodiesIn
<1> QED BY <1>1, <1>4

\* The log messages of a longer bus are records of a longer log.
LEMMA BodiesInConcat ==
  ASSUME NEW a, NEW b, IsSeq(a), IsSeq(b), NEW recs, NEW more, IsSeq(recs), IsSeq(more),
         BodiesIn(a, recs), BodiesIn(b, more)
  PROVE  BodiesIn(a \o b, recs \o more)
<1>1. PICK c, d : c = a \o b /\ d = recs \o more
  OBVIOUS
<1>2. PICK m \in Nat, n \in Nat, p \in Nat, q \in Nat :
        m = Len(a) /\ n = Len(b) /\ p = Len(recs) /\ q = Len(more)
  BY ConcatIsSeq
<1>3. /\ Len(c) = m + n /\ (\A i \in 1..m : c[i] = a[i]) /\ \A i \in 1..n : c[m + i] = b[i]
  BY <1>1, <1>2, ConcatIsSeq
<1>4. /\ Len(d) = p + q /\ (\A i \in 1..p : d[i] = recs[i]) /\ \A i \in 1..q : d[p + i] = more[i]
  BY <1>1, <1>2, ConcatIsSeq
<1>5. ASSUME NEW i \in 1..(m + n), c[i].topic = LogTopic
      PROVE  \E k \in 1..(p + q) : c[i].body = d[k]
  <2>1. CASE i <= m
    <3>1. i \in 1..m
      BY <2>1
    <3>2. PICK k \in 1..p : a[i].body = recs[k]
      BY <1>2, <1>3, <1>5, <3>1 DEF BodiesIn
    <3>3. k \in 1..(p + q)
      OBVIOUS
    <3> QED BY <1>3, <1>4, <3>1, <3>2, <3>3
  <2>2. CASE i > m
    <3>1. PICK l \in 1..n : i = m + l
      <4>1. i - m \in 1..n /\ i = m + (i - m)
        BY <2>2
      <4> QED BY <4>1
    <3>2. c[i] = b[l]
      BY <1>3, <3>1
    <3>3. PICK k \in 1..q : b[l].body = more[k]
      BY <1>2, <1>5, <3>2 DEF BodiesIn
    <3>4. p + k \in 1..(p + q)
      OBVIOUS
    <3> QED BY <1>4, <3>2, <3>3, <3>4
  <2> QED BY <2>1, <2>2
<1>6. BodiesIn(c, d)
  BY <1>3, <1>4, <1>5 DEF BodiesIn
<1> QED BY <1>1, <1>6

\* The log records of a batch are records when the bodies of its log messages are.
LEMMA LogRecordsAmong ==
  ASSUME NEW msgs, IsSeq(msgs), NEW recs, BodiesIn(msgs, recs)
  PROVE  Among(LogRecords(msgs), recs)
<1>1. PICK l : l = LogRecords(msgs)
  OBVIOUS
<1>2. \A i \in 1..Len(l) : \E j \in 1..Len(msgs) : msgs[j].topic = LogTopic /\ l[i] = msgs[j].body
  BY <1>1, LogRecordsHold
<1>3. ASSUME NEW i \in 1..Len(l) PROVE \E k \in 1..Len(recs) : l[i] = recs[k]
  <2>1. PICK j \in 1..Len(msgs) : msgs[j].topic = LogTopic /\ l[i] = msgs[j].body
    BY <1>2
  <2> QED BY <2>1 DEF BodiesIn
<1> QED BY <1>1, <1>3 DEF Among

LEMMA BodiesInRecords ==
  ASSUME NEW msgs, IsSeq(msgs) PROVE BodiesIn(msgs, LogRecords(msgs))
BY LogRecordsHold DEF BodiesIn

LEMMA NoBodies ==
  ASSUME NEW msgs, IsSeq(msgs), \A j \in 1..Len(msgs) : msgs[j].topic # LogTopic
  PROVE  LogRecords(Accepted(msgs)) = <<>> /\ IsSeq(Accepted(msgs))
<1>1. PICK out : out = Accepted(msgs)
  OBVIOUS
<1>2. IsSeq(out) /\ \A i \in 1..Len(out) : \E j \in 1..Len(msgs) : out[i] = msgs[j]
  BY <1>1, AcceptedFrom
<1>3. \A i \in 1..Len(out) : out[i].topic # LogTopic
  BY <1>2
<1> QED BY <1>1, <1>2, <1>3, NoLogRecords

\* What handle() logs, for an envelope of any kind.
Logs(recs, msgs) ==
  /\ Leads(Now, recs, Now') /\ IsSeq(msgs) /\ BodiesIn(msgs, recs)
  /\ log' = log \o recs /\ SafePublish(msgs)

LEMMA CommitLogs ==
  ASSUME NEW env, NEW steps, StepsGo(env.request_id, steps), Commit(env, steps)
  PROVE  \E recs, msgs : Logs(recs, msgs)
<1>1. PICK n \in {1, 2} : n = Len(steps)
  BY DEF StepsGo
<1>2. PICK recs : recs = FirstOf(steps, n)
  OBVIOUS
<1>3. PICK msgs : msgs = StepMsgs(steps)
  OBVIOUS
<1>4. log' = log \o recs /\ SafePublish(msgs) /\ config' = config /\ configs' = configs
      /\ ledger' = [ledger EXCEPT ![env.request_id] = steps[n].entry]
  BY <1>1, <1>2, <1>3 DEF Commit, StepRecords, FirstOf
<1>5. StateAfter(env.request_id, steps, n) = Now'
  <2>1. LedgerAfter(env.request_id, steps, n) = ledger'
    BY <1>1, <1>4 DEF LedgerAfter
  <2> QED BY <1>4, <2>1 DEF StateAfter, Now
<1>6. Leads(Now, recs, Now')
  <2>1. n \in 0..Len(steps)
    BY <1>1
  <2> QED BY <1>2, <1>5, <2>1, StepsGoLead
<1>7. IsSeq(msgs)
  <2>1. /\ IsSeq(steps[1].msgs)
        /\ n = 2 => IsSeq(steps[2].msgs)
    <3>1. 1 \in 1..Len(steps) /\ (n = 2 => 2 \in 1..Len(steps))
      BY <1>1
    <3> QED BY <3>1 DEF StepsGo, StepLog
  <2> QED BY <1>1, <1>3, <2>1, ConcatIsSeq DEF StepMsgs
<1>8. PICK m \in Nat : m = Len(msgs)
  BY <1>7, ConcatIsSeq
<1>9. SubSeq(msgs, 1, m) = msgs
  <2>1. m \in 0..Len(msgs)
    BY <1>8
  <2>2. PICK part : part = SubSeq(msgs, 1, m)
    OBVIOUS
  <2>3. IsSeq(part) /\ Len(part) = m /\ \A i \in 1..m : part[i] = msgs[i]
    BY <1>7, <2>1, <2>2, SliceOK
  <2>4. part = msgs
    BY <1>7, <1>8, <2>3, SameSeq
  <2> QED BY <2>2, <2>4
<1>10. PICK k \in 0..n : LogRecords(msgs) = FirstOf(steps, k)
  <2>1. \A i \in 1..Len(steps) : StepLog(steps[i])
    BY DEF StepsGo
  <2>2. m \in 0..Len(StepMsgs(steps)) /\ Len(steps) \in {1, 2}
    BY <1>1, <1>3, <1>8
  <2>3. \E k \in 0..Len(steps) : LogRecords(SubSeq(StepMsgs(steps), 1, m)) = FirstOf(steps, k)
    BY ONLY <2>1, <2>2, StepsLogPart
  <2> QED BY <1>1, <1>3, <1>9, <2>3
<1>11. BodiesIn(msgs, recs)
  <2>1. BodiesIn(msgs, LogRecords(msgs))
    BY <1>7, BodiesInRecords
  <2>2. PICK l : l = LogRecords(msgs)
    OBVIOUS
  <2>3. Len(l) = k /\ \A i \in 1..k : l[i] = steps[i].rec
    BY <1>10, <2>2 DEF FirstOf
  <2>4. Len(recs) = n /\ \A i \in 1..n : recs[i] = steps[i].rec
    BY <1>2 DEF FirstOf
  <2>5. \A i \in 1..Len(l) : i \in 1..Len(recs) /\ l[i] = recs[i]
    BY <1>1, <2>3, <2>4
  <2>6. \A j \in 1..Len(msgs) : msgs[j].topic = LogTopic =>
          \E i \in 1..Len(l) : msgs[j].body = l[i]
    BY <2>1, <2>2 DEF BodiesIn
  <2> QED BY <2>5, <2>6 DEF BodiesIn
<1> QED BY <1>4, <1>6, <1>7, <1>11 DEF Logs

LEMMA HandleLogs ==
  ASSUME Typed(Now), IsSeq(log), NEW eid \in Nat, NEW env \in Envelopes(eid), Handle(env)
  PROVE  \/ \E recs, msgs : Logs(recs, msgs)
         \/ log' = log /\ bus' = bus /\ Now' = Now
<1>0. ASSUME Fault PROVE log' = log /\ bus' = bus /\ Now' = Now
  BY <1>0 DEF Fault, Now
<1>1. CASE HandleDuplicate(env)
  <2>1. Commit(env, Noop(env)) /\ env.event_name \in RequestEvents /\ env.request_id \in Rids
    BY <1>1, EnvelopeFacts DEF HandleDuplicate
  <2> QED BY <2>1, NoopGoes, CommitLogs
<1>2. CASE HandleAdmit(env)
  <2>1. Commit(env, Admit(env)) /\ env.event_name = "request.received" /\ ~InLedger(env.request_id)
    BY <1>2 DEF HandleAdmit
  <2> QED BY <2>1, AdmitGoes, CommitLogs
<1>3. CASE HandleApply(env)
  <2>1. /\ Commit(env, Apply(env)) /\ env.event_name \in RequestEvents \ {"request.received"}
        /\ Rows(ledger[env.request_id].lifecycle_state, env.event_name) # <<>>
    BY <1>3 DEF HandleApply
  <2> QED BY <2>1, ApplyGoes, CommitLogs
<1>4. CASE HandleUnmatched(env)
  BY <1>0, <1>4 DEF HandleUnmatched
<1>5. CASE HandleConfig(env)
  <2>1. CASE Fault
    BY <1>0, <2>1
  <2>2. CASE ~Fault
    <3>1. PICK rec : rec = SystemRecord("config.changed", env.snapshot.version, env.snapshot)
      OBVIOUS
    <3>2. /\ env.snapshot \in Snapshots
          /\ log' = Append(log, rec) /\ SafePublish(<<LogMsg(rec)>>)
          /\ config' = env.snapshot /\ ledger' = ledger
          /\ configs' = [configs EXCEPT ![env.snapshot.version] = env.snapshot]
      BY <1>5, <2>2, <3>1, EnvelopeFacts DEF HandleConfig
    <3>3. rec.event = "config.changed" /\ rec.verdict = "applied" /\ rec.snapshot = env.snapshot
      BY <3>1 DEF SystemRecord
    <3>4. Goes(Now, rec, Now')
      <4>1. Now.ledger = ledger /\ Now.configs = configs
        BY DEF Now, State
      <4>2. Now' = State(ledger, rec.snapshot,
                         [configs EXCEPT ![rec.snapshot.version] = rec.snapshot])
        BY <3>2, <3>3 DEF Now
      <4> QED BY <3>2, <3>3, <4>1, <4>2 DEF Goes, OfConfig
    <3>5. PICK recs, msgs : recs = <<rec>> /\ msgs = <<LogMsg(rec)>>
      OBVIOUS
    <3>6. Leads(Now, recs, Now')
      BY <3>4, <3>5, LeadsOne
    <3>7. IsSeq(msgs) /\ BodiesIn(msgs, recs)
      <4>1. /\ IsSeq(msgs) /\ Len(msgs) = 1 /\ msgs[1] = LogMsg(rec)
            /\ IsSeq(recs) /\ Len(recs) = 1 /\ recs[1] = rec
        BY <3>5, TupleIsSeq
      <4>2. LogMsg(rec).body = rec
        BY DEF LogMsg
      <4> QED BY <4>1, <4>2 DEF BodiesIn
    <3>8. log' = log \o recs
      BY <3>2, <3>5, AppendJoins
    <3> QED BY <3>2, <3>5, <3>6, <3>7, <3>8 DEF Logs
  <2> QED BY <2>1, <2>2
<1>6. CASE HandleSession(env)
  <2>1. PICK recs : /\ recs = SessionRecords(env.event_name) /\ env.event_name \in SessionEvents
                    /\ log' = log \o recs
                    /\ SafePublish([i \in 1..Len(recs) |-> LogMsg(recs[i])])
                    /\ ledger' = Without(Gone(recs, Len(recs)))
                    /\ config' = config /\ configs' = configs
    BY <1>6, SessionEnds
  <2>2. IsSeq(recs) /\ Len(recs) \in Nat
    BY <2>1, SessionShape
  <2>3. PICK n \in Nat : n = Len(recs)
    BY <2>2
  <2>4. PICK msgs : msgs = [i \in 1..n |-> LogMsg(recs[i])]
    OBVIOUS
  <2>5. IsSeq(msgs) /\ Len(msgs) = n /\ \A i \in 1..n : msgs[i].body = recs[i]
    <3>1. msgs = [i \in 1..n |-> msgs[i]] /\ \A i \in 1..n : msgs[i].body = recs[i]
      BY <2>4 DEF LogMsg
    <3> QED BY <3>1, FunIsSeq
  <2>6. BodiesIn(msgs, recs)
    BY <2>3, <2>5 DEF BodiesIn
  <2>7. SubSeq(recs, 1, n) = recs
    <3>1. n \in 0..Len(recs)
      BY <2>3
    <3>2. PICK part : part = SubSeq(recs, 1, n)
      OBVIOUS
    <3>3. IsSeq(part) /\ Len(part) = n /\ \A i \in 1..n : part[i] = recs[i]
      BY <2>2, <3>1, <3>2, SliceOK
    <3>4. part = recs
      BY <2>2, <2>3, <3>3, SameSeq
    <3> QED BY <3>2, <3>4
  <2>8. Leads(Now, SubSeq(recs, 1, n), State(Without(Gone(recs, n)), config, configs))
    <3>1. n \in 0..Len(recs)
      BY <2>3
    <3> QED BY <2>1, <3>1, SessionLead
  <2>9. Now' = State(Without(Gone(recs, n)), config, configs)
    BY <2>1, <2>3 DEF Now
  <2>10. Leads(Now, recs, Now')
    BY <2>7, <2>8, <2>9
  <2>11. SafePublish(msgs)
    BY <2>1, <2>3, <2>4
  <2> QED BY <2>1, <2>5, <2>6, <2>10, <2>11 DEF Logs
<1> QED BY <1>1, <1>2, <1>3, <1>4, <1>5, <1>6 DEF Handle

\* A crash remembers what the log leads to, with the records of the interrupted handler
\* of which the messages went out.
LEMMA CrashRemembers ==
  ASSUME ExactInv, phase = "running", NEW more, NEW b, Leads(Now, more, b),
         NEW out, IsSeq(out), LogRecords(out) = more,
         NEW mem, b.ledger = mem.ledger, b.config = mem.config,
         mem.complete => LogRecords(bus) = log /\ ~Refused(out),
         \A i \in 1..Len(log) : log[i].event = "__cleanup__" => log[i].request_id \in mem.evicted,
         \A i \in 1..Len(more) : more[i].event = "__cleanup__" => more[i].request_id \in mem.evicted
  PROVE  /\ Remembered(LogRecords(bus \o Accepted(out)), mem)
         /\ IsSeq(bus \o Accepted(out))
<1>1. IsSeq(bus) /\ IsSeq(log) /\ Leads(Start, log, Now) /\ BodiesIn(bus, log)
  BY DEF ExactInv
<1>2. IsSeq(more)
  BY DEF Leads
<1>3. PICK acc : acc = Accepted(out)
  OBVIOUS
<1>4. IsSeq(acc)
  BY <1>3, AcceptedFrom
<1>5. BodiesIn(acc, more)
  <2>1. BodiesIn(out, more)
    BY BodiesInRecords
  <2> QED BY <1>3, <2>1, BodiesInAccepted
<1>6. PICK full : full = log \o more
  OBVIOUS
<1>7. PICK msgs : msgs = bus \o acc
  OBVIOUS
<1>8. IsSeq(msgs)
  BY <1>1, <1>4, <1>7, ConcatIsSeq
<1>9. BodiesIn(msgs, full)
  BY <1>1, <1>2, <1>4, <1>5, <1>6, <1>7, BodiesInConcat
<1>10. PICK recs : recs = LogRecords(msgs)
  OBVIOUS
<1>11. Among(recs, full)
  BY <1>8, <1>9, <1>10, LogRecordsAmong
<1>12. Leads(Start, full, b)
  BY <1>1, <1>6, LeadsOn
<1>13. ASSUME mem.complete PROVE recs = full
  <2>1. LogRecords(bus) = log /\ acc = out
    BY <1>3, <1>13 DEF Accepted
  <2>2. recs = LogRecords(bus) \o LogRecords(acc)
    BY <1>1, <1>4, <1>7, <1>10, LogRecordsConcat
  <2> QED BY <1>6, <2>1, <2>2
<1>14. ASSUME NEW j \in 1..Len(full), full[j].event = "__cleanup__"
       PROVE  full[j].request_id \in mem.evicted
  <2>1. PICK m \in Nat, n \in Nat : m = Len(log) /\ n = Len(more)
    BY <1>1, <1>2, ConcatIsSeq
  <2>2. /\ Len(full) = m + n /\ (\A i \in 1..m : full[i] = log[i])
        /\ \A i \in 1..n : full[m + i] = more[i]
    BY <1>1, <1>2, <1>6, <2>1, ConcatIsSeq
  <2>3. CASE j <= m
    <3>1. j \in 1..m
      BY <2>3
    <3> QED BY <1>14, <2>1, <2>2, <3>1
  <2>4. CASE j > m
    <3>1. PICK l \in 1..n : j = m + l
      <4>1. j - m \in 1..n /\ j = m + (j - m)
        BY <2>2, <2>4
      <4> QED BY <4>1
    <3>2. full[j] = more[l]
      BY <2>2, <3>1
    <3> QED BY <1>14, <2>1, <3>2
  <2> QED BY <2>1, <2>2, <2>3, <2>4
<1>15. Remembers(full, b, recs, mem)
  BY <1>11, <1>12, <1>13, <1>14 DEF Remembers
<1> QED BY <1>3, <1>7, <1>8, <1>10, <1>15 DEF Remembered

LEMMA RestartExact ==
  ASSUME NEW msgs, IsSeq(msgs), NEW mem, Restart(msgs, mem),
         Remembered(LogRecords(msgs), mem), EnvironmentTyped'
  PROVE  ExactInv'
<1>1. /\ bus' = msgs /\ records' = LogRecords(msgs) /\ phase' = "replaying" /\ memory' = mem
      /\ log' = <<>> /\ Now' = Start
  BY DEF Restart, Now, Start
<1>2. Leads(Start, log', Now')
  BY <1>1, LeadsNone
<1>3. IsSeq(log') /\ Len(log') = 0
  BY <1>1, TupleIsSeq
<1>4. records' = LogRecords(bus')
  BY <1>1
<1>5. Len(log') <= Len(records')
  <2>1. IsSeq(records')
    BY <1>1, LogRecordsHold
  <2>2. Len(records') \in Nat
    BY <2>1, ConcatIsSeq
  <2> QED BY <1>3, <2>2
<1>6. \A i \in 1..Len(log') : log'[i] = records'[i]
  BY <1>3
<1>7. Remembered(records', memory')
  BY <1>1
<1>8. IsSeq(bus')
  BY <1>1
<1> QED BY <1>1, <1>2, <1>3, <1>4, <1>5, <1>6, <1>7, <1>8 DEF ExactInv, LogRecords

\* The evictions of the log are those of Memory.
LEMMA EvictedFacts ==
  ASSUME IsSeq(log), Leads(Start, log, Now), NEW led, NEW i \in 1..Len(log),
         log[i].event = "__cleanup__"
  PROVE  log[i].request_id \in Memory(led).evicted
<1>1. Shaped(log[i])
  BY LeadsShaped
<1>2. log[i].request_id \in Rids
  BY <1>1, ShapeFacts DEF OfCleanup
<1>3. i \in DOMAIN log
  BY ConcatIsSeq
<1> QED BY <1>2, <1>3 DEF Memory

LEMMA CrashExact ==
  ASSUME ExactInv, Crash
  PROVE  ExactInv'
<1>1. phase = "running" /\ Restart(bus, Memory(ledger)) /\ next_eid' = next_eid /\ pending' = pending
  BY DEF Crash
<1>2. IsSeq(bus) /\ IsSeq(log) /\ Leads(Start, log, Now)
  BY <1>1 DEF ExactInv
<1>3. PICK none : none = <<>>
  OBVIOUS
<1>4. IsSeq(none) /\ Len(none) = 0
  BY <1>3, TupleIsSeq
<1>5. LogRecords(none) = none
  <2>1. LogRecords(none) = <<>>
    BY <1>4, NoLogRecords
  <2> QED BY <1>3, <2>1
<1>6. ~Refused(none) /\ Accepted(none) = none
  <2>1. DOMAIN none = {}
    BY <1>3
  <2> QED BY <2>1 DEF Refused, Accepted
<1>7. Leads(Now, none, Now)
  BY <1>3, LeadsNone
<1>8. PICK mem : mem = Memory(ledger)
  OBVIOUS
<1>9. /\ Now.ledger = mem.ledger /\ Now.config = mem.config
      /\ mem.complete => LogRecords(bus) = log
  BY <1>8 DEF Memory, Now, State
<1>10. \A i \in 1..Len(log) : log[i].event = "__cleanup__" => log[i].request_id \in mem.evicted
  BY <1>2, <1>8, EvictedFacts
<1>11. \A i \in 1..Len(none) : none[i].event = "__cleanup__" => none[i].request_id \in mem.evicted
  BY <1>4
<1>12. Remembered(LogRecords(bus \o Accepted(none)), mem)
  BY <1>1, <1>4, <1>5, <1>6, <1>7, <1>9, <1>10, <1>11, CrashRemembers
<1>13. bus \o none = bus
  <2>1. PICK S : bus \in Seq(S)
    BY <1>2 DEF IsSeq
  <2> QED BY <1>3, <2>1, ConcatEmptySeq
<1>14. Remembered(LogRecords(bus), mem)
  BY <1>6, <1>12, <1>13
<1>15. EnvironmentTyped'
  BY <1>1 DEF ExactInv, EnvironmentTyped
<1> QED BY <1>1, <1>2, <1>8, <1>14, <1>15, RestartExact

LEMMA CrashRequestExact ==
  ASSUME ExactInv, CrashDuringRequest
  PROVE  ExactInv'
<1>1. phase = "running" /\ next_eid \in Nat /\ IsSeq(bus) /\ IsSeq(log) /\ Leads(Start, log, Now)
  BY DEF CrashDuringRequest, ExactInv, EnvironmentTyped
<1>2. PICK env \in Envelopes(next_eid) : \E k \in 0..Len(StepMsgs(Steps(env))) - 1 :
        /\ env.event_name \in RequestEvents /\ Steps(env) # <<>>
        /\ LET out == SubSeq(StepMsgs(Steps(env)), 1, k)
           IN Restart(bus \o Accepted(out),
                      [Memory(LedgerAfter(env.request_id, Steps(env), Len(LogRecords(out))))
                         EXCEPT !.complete = @ /\ ~Refused(out)])
        /\ pending' \in {pending, env} /\ next_eid' = next_eid + 1
  BY DEF CrashDuringRequest
<1>3. PICK steps : steps = Steps(env)
  OBVIOUS
<1>4. PICK k \in 0..Len(StepMsgs(steps)) - 1 :
        /\ env.event_name \in RequestEvents /\ steps # <<>>
        /\ LET out == SubSeq(StepMsgs(steps), 1, k)
           IN Restart(bus \o Accepted(out),
                      [Memory(LedgerAfter(env.request_id, steps, Len(LogRecords(out))))
                         EXCEPT !.complete = @ /\ ~Refused(out)])
        /\ pending' \in {pending, env} /\ next_eid' = next_eid + 1
  BY <1>2, <1>3
<1>5. PICK rid : rid = env.request_id
  OBVIOUS
<1>6. Typed(Now)
  BY <1>1, StartTyped, LeadsTyped
<1>7. StepsGo(rid, steps)
  BY <1>1, <1>4, <1>3, <1>5, <1>6, StepsGoFacts
<1>8. PICK msgs : msgs = StepMsgs(steps)
  OBVIOUS
<1>9. IsSeq(msgs)
  <2>1. MsgsOK(msgs)
    BY <1>4, <1>3, <1>8, StepsFacts
  <2> QED BY <2>1 DEF MsgsOK
<1>10. k \in 0..Len(msgs)
  <2>1. Len(msgs) \in Nat
    BY <1>9, ConcatIsSeq
  <2> QED BY <1>4, <1>3, <1>8, <2>1
<1>11. PICK out : out = SubSeq(msgs, 1, k)
  OBVIOUS
<1>12. IsSeq(out)
  BY <1>9, <1>10, <1>11, SliceOK
<1>13. PICK n \in 0..Len(steps) : LogRecords(out) = FirstOf(steps, n)
  <2>1. Len(steps) \in {1, 2} /\ \A i \in 1..Len(steps) : StepLog(steps[i])
    BY <1>7 DEF StepsGo
  <2>2. \E n \in 0..Len(steps) : LogRecords(SubSeq(StepMsgs(steps), 1, k)) = FirstOf(steps, n)
    BY <1>8, <1>10, <2>1, StepsLogPart
  <2> QED BY <1>8, <1>11, <2>2
<1>14. PICK more : more = FirstOf(steps, n)
  OBVIOUS
<1>15. n \in Nat
  BY <1>7, <1>13 DEF StepsGo
<1>16. Len(more) = n /\ \A i \in 1..n : more[i] = steps[i].rec
  BY <1>14, <1>15 DEF FirstOf
<1>17. PICK b : b = StateAfter(rid, steps, n)
  OBVIOUS
<1>18. Leads(Now, more, b)
  BY <1>7, <1>14, <1>17, StepsGoLead
<1>19. PICK mem0 : mem0 = Memory(LedgerAfter(rid, steps, n))
  OBVIOUS
<1>20. PICK mem : mem = [mem0 EXCEPT !.complete = @ /\ ~Refused(out)]
  OBVIOUS
<1>21. Restart(bus \o Accepted(out), mem)
  <2>1. Len(LogRecords(out)) = n
    BY <1>13, <1>14, <1>16
  <2> QED BY <1>4, <1>3, <1>5, <1>8, <1>11, <1>19, <1>20, <2>1
<1>22. /\ mem.ledger = LedgerAfter(rid, steps, n) /\ mem.config = config
       /\ mem.complete = (LogRecords(bus) = log /\ ~Refused(out)) /\ mem.evicted = mem0.evicted
  BY <1>19, <1>20 DEF Memory
<1>23. b.ledger = mem.ledger /\ b.config = mem.config
  BY <1>17, <1>22 DEF StateAfter, State
<1>24. \A i \in 1..Len(log) : log[i].event = "__cleanup__" => log[i].request_id \in mem.evicted
  BY <1>1, <1>19, <1>22, EvictedFacts
<1>25. \A i \in 1..Len(more) : more[i].event # "__cleanup__"
  <2>1. \A i \in 1..n : i \in 1..Len(steps)
    BY <1>7, <1>13 DEF StepsGo
  <2> QED BY <1>7, <1>16, <2>1 DEF StepsGo
<1>26. /\ Remembered(LogRecords(bus \o Accepted(out)), mem) /\ IsSeq(bus \o Accepted(out))
  BY <1>1, <1>12, <1>13, <1>14, <1>18, <1>22, <1>23, <1>24, <1>25, CrashRemembers
<1>27. EnvironmentTyped'
  BY <1>1, <1>4 DEF ExactInv, EnvironmentTyped
<1> QED BY <1>21, <1>26, <1>27, RestartExact

LEMMA CrashSessionExact ==
  ASSUME ExactInv, CrashDuringSession
  PROVE  ExactInv'
<1>1. phase = "running" /\ next_eid \in Nat /\ IsSeq(bus) /\ IsSeq(log) /\ Leads(Start, log, Now)
  BY DEF CrashDuringSession, ExactInv, EnvironmentTyped
<1>2. PICK name \in SessionEvents : \E k \in 0..Len(SessionRecords(name)) - 1 :
        LET done == SubSeq(SessionRecords(name), 1, k)
            gone == {done[i].request_id : i \in 2..k}
            out == [i \in 1..k |-> LogMsg(done[i])]
        IN Restart(bus \o Accepted(out),
                   [Memory([r \in Rids |-> IF r \in gone THEN Absent ELSE ledger[r]])
                      EXCEPT !.complete = @ /\ ~Refused(out),
                             !.evicted = @ \cup gone])
  BY DEF CrashDuringSession
<1>3. PICK k \in 0..Len(SessionRecords(name)) - 1 :
        LET done == SubSeq(SessionRecords(name), 1, k)
            gone == {done[i].request_id : i \in 2..k}
            out == [i \in 1..k |-> LogMsg(done[i])]
        IN Restart(bus \o Accepted(out),
                   [Memory([r \in Rids |-> IF r \in gone THEN Absent ELSE ledger[r]])
                      EXCEPT !.complete = @ /\ ~Refused(out),
                             !.evicted = @ \cup gone])
  BY <1>2
<1>4. next_eid' = next_eid + 1 /\ pending' = pending
  BY DEF CrashDuringSession
<1>5. Typed(Now)
  BY <1>1, StartTyped, LeadsTyped
<1>6. PICK recs : recs = SessionRecords(name)
  OBVIOUS
<1>7. IsSeq(recs) /\ Len(recs) \in Nat
  BY <1>5, <1>6, SessionShape
<1>8. k \in 0..Len(recs) /\ k \in Nat
  BY <1>3, <1>6, <1>7
<1>9. PICK done : done = SubSeq(recs, 1, k)
  OBVIOUS
<1>10. IsSeq(done) /\ Len(done) = k /\ \A i \in 1..k : done[i] = recs[i]
  BY <1>7, <1>8, <1>9, SliceOK
<1>11. PICK gone : gone = {done[i].request_id : i \in 2..k}
  OBVIOUS
<1>12. gone = Gone(recs, k)
  <2>1. \A i \in 2..k : done[i] = recs[i]
    BY <1>10
  <2> QED BY <1>11, <2>1 DEF Gone
<1>13. PICK out : out = [i \in 1..k |-> LogMsg(done[i])]
  OBVIOUS
<1>14. IsSeq(out)
  BY <1>8, <1>13, AllLogRecords
<1>15. LogRecords(out) = done
  <2>1. PICK l : l = LogRecords(out)
    OBVIOUS
  <2>2. Len(l) = k /\ \A i \in 1..k : l[i] = done[i]
    <3>1. Len(LogRecords(out)) = k
      BY <1>8, <1>13, AllLogRecords
    <3>2. \A i \in 1..k : LogRecords(out)[i] = done[i]
      BY <1>8, <1>13, AllLogRecords
    <3> QED BY <2>1, <3>1, <3>2
  <2>3. IsSeq(l)
    BY <1>14, <2>1, LogRecordsHold
  <2>4. l = done
    BY <1>10, <2>2, <2>3, SameSeq
  <2> QED BY <2>1, <2>4
<1>16. PICK b : b = State(Without(gone), config, configs)
  OBVIOUS
<1>17. Leads(Now, done, b)
  BY <1>5, <1>6, <1>8, <1>9, <1>12, <1>16, SessionLead
<1>18. PICK mem0 : mem0 = Memory(Without(gone))
  OBVIOUS
<1>19. PICK mem : mem = [mem0 EXCEPT !.complete = @ /\ ~Refused(out), !.evicted = @ \cup gone]
  OBVIOUS
<1>20. Restart(bus \o Accepted(out), mem)
  BY <1>3, <1>6, <1>9, <1>11, <1>13, <1>18, <1>19 DEF Without
<1>21. /\ mem.ledger = Without(gone) /\ mem.config = config
       /\ mem.complete = (LogRecords(bus) = log /\ ~Refused(out))
       /\ mem.evicted = mem0.evicted \cup gone
  BY <1>18, <1>19 DEF Memory
<1>22. b.ledger = mem.ledger /\ b.config = mem.config
  BY <1>16, <1>21 DEF State
<1>23. \A i \in 1..Len(log) : log[i].event = "__cleanup__" => log[i].request_id \in mem.evicted
  BY <1>1, <1>18, <1>21, EvictedFacts
<1>24. ASSUME NEW i \in 1..Len(done), done[i].event = "__cleanup__"
       PROVE  done[i].request_id \in mem.evicted
  <2>1. CASE i = 1
    <3>1. recs[1].event \in SessionEvents
      BY <1>5, <1>6, SessionShape
    <3>2. done[1] = recs[1]
      BY <1>10, <2>1
    <3> QED BY <1>24, <2>1, <3>1, <3>2 DEF SessionEvents
  <2>2. CASE i # 1
    <3>1. i \in 2..k
      BY <1>10, <2>2
    <3> QED BY <1>11, <1>21, <3>1
  <2> QED BY <2>1, <2>2
<1>25. /\ Remembered(LogRecords(bus \o Accepted(out)), mem) /\ IsSeq(bus \o Accepted(out))
  BY <1>1, <1>14, <1>15, <1>17, <1>21, <1>22, <1>23, <1>24, CrashRemembers
<1>26. EnvironmentTyped'
  BY <1>1, <1>4 DEF ExactInv, EnvironmentTyped
<1> QED BY <1>20, <1>25, <1>26, RestartExact

LEMMA CrashReplayExact ==
  ASSUME ExactInv, CrashWhileReplaying
  PROVE  ExactInv'
<1>1. /\ phase = "replaying" /\ Restart(bus, memory) /\ next_eid' = next_eid /\ pending' = pending
  BY DEF CrashWhileReplaying
<1>2. IsSeq(bus) /\ Remembered(LogRecords(bus), memory)
  BY <1>1 DEF ExactInv
<1>3. EnvironmentTyped'
  BY <1>1 DEF ExactInv, EnvironmentTyped
<1> QED BY <1>1, <1>2, <1>3, RestartExact

\* The record that replay takes next.
LEMMA NextRecord ==
  ASSUME ExactInv, phase = "replaying", Len(log) < Len(records)
  PROVE  /\ IsSeq(records) /\ Len(log) \in Nat /\ Len(log) + 1 \in 1..Len(records)
         /\ Shaped(records[Len(log) + 1])
<1>1. /\ IsSeq(bus) /\ IsSeq(log) /\ records = LogRecords(bus)
  BY DEF ExactInv
<1>2. IsSeq(records)
  BY <1>1, LogRecordsHold
<1>3. PICK n \in Nat, m \in Nat : n = Len(log) /\ m = Len(records)
  BY <1>1, <1>2, ConcatIsSeq
<1>4. n + 1 \in 1..m
  BY <1>3
<1>5. PICK full, s : Remembers(full, s, records, memory)
  BY DEF ExactInv, Remembered
<1>6. PICK j \in 1..Len(full) : records[n + 1] = full[j]
  BY <1>3, <1>4, <1>5 DEF Remembers, Among
<1>7. Leads(Start, full, s)
  BY <1>5 DEF Remembers
<1>8. Shaped(full[j])
  BY <1>7, LeadsShaped
<1> QED BY <1>2, <1>3, <1>4, <1>6, <1>8

\* ReplayRow, Replayed and Conforms of a record, as of the state of the coordinator.
LEMMA ReplayIsAt ==
  ASSUME NEW rec
  PROVE  /\ ReplayEntry(rec) = EntryAt(ledger, rec)
         /\ ReplayRow(rec) = RowAt(ledger, rec)
         /\ Replayed(rec) = ReplayedAt(ledger, rec)
         /\ Conforms(rec) <=> FitsAt(ledger, configs, rec)
<1>1. ReplayEntry(rec) = EntryAt(ledger, rec)
  BY DEF ReplayEntry, EntryAt, InLedger
<1>2. ReplayRow(rec) = RowAt(ledger, rec)
  BY <1>1 DEF ReplayRow, RowAt
<1>3. Replayed(rec) = ReplayedAt(ledger, rec)
  BY <1>1, <1>2 DEF Replayed, ReplayedAt
<1>4. Conforms(rec) <=> FitsAt(ledger, configs, rec)
  BY <1>1, <1>2 DEF Conforms, FitsAt, InLedger
<1> QED BY <1>1, <1>2, <1>3, <1>4

\* Replay of a record re-emits no log message.
LEMMA ReEmissionTopics ==
  ASSUME NEW rec, Conforms(rec)
  PROVE  /\ IsSeq(ReEmissions(rec))
         /\ \A i \in 1..Len(ReEmissions(rec)) : ReEmissions(rec)[i].topic # LogTopic
<1>1. PICK row : row = ReplayRow(rec)
  OBVIOUS
<1>2. PICK state : state = ReplayEntry(rec).lifecycle_state
  OBVIOUS
<1>3. PICK rows : rows = Rows(state, rec.event)
  OBVIOUS
<1>4. rows # <<>>
  BY <1>2, <1>3 DEF Conforms
<1>5. Len(rows) \in {1, 2}
  BY <1>3, <1>4, RowsShape
<1>6. PICK i \in 1..Len(rows) : row = rows[i]
  BY <1>1, <1>2, <1>3, <1>5 DEF ReplayRow
<1>7. row.emit \in EmitLists
  BY <1>3, <1>6, RowEmits
<1>8. IsSeq(row.emit) /\ \A k \in 1..Len(row.emit) : row.emit[k] # LogTopic
  <2>1. LogTopic \notin Emissions
    BY DEF LogTopic, Emissions
  <2> QED BY <1>7, <2>1, EmitListFacts
<1>9. PICK m \in Nat : m = Len(row.emit)
  BY <1>8, ConcatIsSeq
<1>10. PICK d : d = EmitDecision(row, rec.guard_result)
  OBVIOUS
<1>11. PICK e : e = PublishRow(rec.request_id, rec.sequence, row, d)
  OBVIOUS
<1>12. e = [k \in 1..m |-> e[k]] /\ \A k \in 1..m : e[k].topic = row.emit[k]
  BY <1>9, <1>11 DEF PublishRow, EmitMsg
<1>13. IsSeq(e) /\ Len(e) = m
  BY <1>12, FunIsSeq
<1>14. ReEmissions(rec) = <<>> \/ ReEmissions(rec) = e
  BY <1>1, <1>10, <1>11 DEF ReEmissions
<1>15. IsSeq(<<>>) /\ Len(<<>>) = 0
  BY TupleIsSeq
<1>16. PICK out : out = ReEmissions(rec)
  OBVIOUS
<1>17. CASE out = <<>>
  <2>1. IsSeq(out) /\ Len(out) = 0
    BY <1>15, <1>17
  <2>2. \A k \in 1..Len(out) : out[k].topic # LogTopic
    BY <2>1
  <2> QED BY <1>16, <2>1, <2>2
<1>18. CASE out = e
  <2>1. \A k \in 1..Len(out) : out[k].topic # LogTopic
    BY <1>8, <1>9, <1>12, <1>13, <1>18
  <2> QED BY <1>13, <1>16, <1>18, <2>1
<1> QED BY <1>14, <1>16, <1>17, <1>18

\* One record of recover().
LEMMA ReplayGoes ==
  ASSUME ExactInv, Replay
  PROVE  /\ Goes(Now, records[Len(log) + 1], Now')
         /\ IsSeq(bus') /\ LogRecords(bus') = LogRecords(bus)
<1>1. phase = "replaying" /\ Len(log) < Len(records) /\ IsSeq(bus)
  BY DEF Replay, ExactInv
<1>2. PICK rec : rec = records[Len(log) + 1]
  OBVIOUS
<1>3. Shaped(rec)
  BY <1>1, <1>2, NextRecord
<1>4. \/ ReplayConfig(rec) \/ ReplaySession(rec) \/ ReplayCleanup(rec)
      \/ ReplayNoop(rec) \/ ReplayTransition(rec)
  BY <1>2 DEF Replay
<1>5. Now.ledger = ledger /\ Now.config = config /\ Now.configs = configs
  BY DEF Now, State
<1>6. CASE ReplayConfig(rec)
  <2>1. OfConfig(rec) /\ bus' = bus
    BY <1>3, <1>6, ShapeFacts DEF ReplayConfig
  <2>2. Now' = State(ledger, rec.snapshot, [configs EXCEPT ![rec.snapshot.version] = rec.snapshot])
    BY <1>6 DEF ReplayConfig, Now
  <2>3. Goes(Now, rec, Now')
    BY <1>5, <2>1, <2>2 DEF Goes
  <2> QED BY <1>1, <1>2, <2>1, <2>3
<1>7. CASE ReplaySession(rec)
  <2>1. OfSession(rec) /\ bus' = bus /\ Now' = Now
    BY <1>3, <1>7, ShapeFacts DEF ReplaySession, Now
  <2>2. Goes(Now, rec, Now')
    BY <2>1 DEF Goes
  <2> QED BY <1>1, <1>2, <2>1, <2>2
<1>8. CASE ReplayCleanup(rec)
  <2>1. OfCleanup(rec) /\ bus' = bus
    BY <1>3, <1>8, ShapeFacts DEF ReplayCleanup
  <2>2. Now' = State([ledger EXCEPT ![rec.request_id] = Absent], config, configs)
    BY <1>8 DEF ReplayCleanup, Now
  <2>3. Goes(Now, rec, Now')
    BY <1>5, <2>1, <2>2 DEF Goes
  <2> QED BY <1>1, <1>2, <2>1, <2>3
<1>9. CASE ReplayNoop(rec)
  <2>1. OfDuplicate(rec) /\ bus' = bus /\ Now' = Now
    BY <1>3, <1>9, ShapeFacts DEF ReplayNoop, Now
  <2>2. Goes(Now, rec, Now')
    BY <2>1 DEF Goes
  <2> QED BY <1>1, <1>2, <2>1, <2>2
<1>10. CASE ReplayTransition(rec)
  <2>1. /\ OfTransition(rec) /\ Conforms(rec)
    BY <1>3, <1>10, ShapeFacts DEF ReplayTransition
  <2>2. FitsAt(ledger, configs, rec) /\ Replayed(rec) = ReplayedAt(ledger, rec)
    BY <2>1, ReplayIsAt
  <2>3. Now' = State([ledger EXCEPT ![rec.request_id] = ReplayedAt(ledger, rec)], config, configs)
    BY <1>10, <2>2 DEF ReplayTransition, Now
  <2>4. Goes(Now, rec, Now')
    BY <1>5, <2>1, <2>2, <2>3 DEF Goes
  <2>5. PICK msgs : msgs = ReEmissions(rec)
    OBVIOUS
  <2>6. IsSeq(msgs) /\ \A i \in 1..Len(msgs) : msgs[i].topic # LogTopic
    BY <2>1, <2>5, ReEmissionTopics
  <2>7. PICK acc : acc = Accepted(msgs)
    OBVIOUS
  <2>8. IsSeq(acc) /\ LogRecords(acc) = <<>>
    BY <2>6, <2>7, NoBodies
  <2>9. bus' = bus \o acc
    BY <1>10, <2>5, <2>7 DEF ReplayTransition, SafePublish
  <2>10. IsSeq(bus \o acc)
    BY <1>1, <2>8, ConcatIsSeq
  <2>11. LogRecords(bus \o acc) = LogRecords(bus)
    <3>1. LogRecords(bus \o acc) = LogRecords(bus) \o LogRecords(acc)
      BY <1>1, <2>8, LogRecordsConcat
    <3>2. PICK l : l = LogRecords(bus)
      OBVIOUS
    <3>3. IsSeq(l)
      BY <1>1, <3>2, LogRecordsHold
    <3>4. PICK S : l \in Seq(S)
      BY <3>3 DEF IsSeq
    <3>5. l \o <<>> = l
      BY <3>4, ConcatEmptySeq
    <3> QED BY <2>8, <3>1, <3>2, <3>5
  <2> QED BY <1>2, <2>4, <2>9, <2>10, <2>11
<1> QED BY <1>4, <1>6, <1>7, <1>8, <1>9, <1>10

LEMMA ReplayExact ==
  ASSUME ExactInv, Replay
  PROVE  ExactInv'
<1>1. /\ phase = "replaying" /\ Len(log) < Len(records)
      /\ IsSeq(log) /\ Leads(Start, log, Now) /\ records = LogRecords(bus)
      /\ (\A i \in 1..Len(log) : log[i] = records[i])
      /\ Remembered(records, memory)
  BY DEF Replay, ExactInv
<1>2. PICK rec : rec = records[Len(log) + 1]
  OBVIOUS
<1>3. /\ log' = Append(log, rec) /\ phase' = phase /\ records' = records /\ memory' = memory
      /\ next_eid' = next_eid /\ pending' = pending
  BY <1>2 DEF Replay, envVars, recoveryVars
<1>4. Goes(Now, rec, Now') /\ IsSeq(bus') /\ LogRecords(bus') = LogRecords(bus)
  BY <1>2, ReplayGoes
<1>5. Leads(Start, log', Now')
  <2>1. Leads(Now, <<rec>>, Now')
    BY <1>4, LeadsOne
  <2>2. Leads(Start, log \o <<rec>>, Now')
    BY <1>1, <2>1, LeadsOn
  <2>3. Append(log, rec) = log \o <<rec>>
    BY <1>1, AppendJoins
  <2>4. log' = log \o <<rec>>
    BY <1>3, <2>3
  <2> QED BY <2>2, <2>4
<1>6. PICK n \in Nat, m \in Nat : n = Len(log) /\ m = Len(records)
  <2>1. IsSeq(records)
    BY <1>1, NextRecord
  <2> QED BY <1>1, <2>1, ConcatIsSeq
<1>7. /\ IsSeq(log') /\ Len(log') = n + 1 /\ log'[n + 1] = rec
      /\ \A i \in 1..n : log'[i] = log[i]
  BY <1>1, <1>3, <1>6, AppendIsSeq
<1>8. Len(log') <= Len(records') /\ \A i \in 1..Len(log') : log'[i] = records'[i]
  <2>1. n + 1 <= m
    BY <1>1, <1>6
  <2>2. ASSUME NEW i \in 1..(n + 1) PROVE log'[i] = records[i]
    <3>1. CASE i = n + 1
      BY <1>2, <1>6, <1>7, <3>1
    <3>2. CASE i # n + 1
      <4>1. i \in 1..n
        BY <3>2
      <4> QED BY <1>1, <1>6, <1>7, <4>1
    <3> QED BY <3>1, <3>2
  <2> QED BY <1>3, <1>6, <1>7, <2>1, <2>2
<1>9. Remembered(records, memory)' /\ records' = LogRecords(bus')
  BY <1>1, <1>3, <1>4
<1>10. EnvironmentTyped'
  BY <1>3 DEF ExactInv, EnvironmentTyped
<1>11. phase' = "replaying"
  BY <1>1, <1>3
<1> QED BY <1>4, <1>5, <1>7, <1>8, <1>9, <1>10, <1>11 DEF ExactInv, LogRecords

\* A log that has every record does not deviate; another one leaves a ledger that is not
\* ahead, also when the entry of an admission has been created by then.
LEMMA DeviationExact ==
  ASSUME ExactInv, Deviation
  PROVE  ExactInv'
<1>1. /\ phase = "replaying" /\ Len(log) < Len(records)
      /\ IsSeq(bus) /\ IsSeq(log) /\ Leads(Start, log, Now) /\ Len(log) <= Len(records)
      /\ (\A i \in 1..Len(log) : log[i] = records[i])
  BY DEF Deviation, ExactInv
<1>2. PICK rec : rec = records[Len(log) + 1]
  OBVIOUS
<1>3. /\ IsTransition(rec) /\ ~Conforms(rec)
      /\ \/ ledger' = ledger
         \/ ledger' = [ledger EXCEPT ![rec.request_id] = ReplayEntry(rec)]
      /\ phase' = "deviated" /\ log' = log /\ bus' = bus /\ memory' = memory
      /\ next_eid' = next_eid /\ pending' = pending
  BY <1>2 DEF Deviation, envVars
<1>4. PICK n \in Nat, m \in Nat : n = Len(log) /\ m = Len(records)
  <2>1. IsSeq(records)
    BY <1>1, NextRecord
  <2> QED BY <1>1, <2>1, ConcatIsSeq
<1>5. PICK full, s : Remembers(full, s, records, memory)
  BY <1>1 DEF ExactInv, Remembered
<1>6. PICK h : h[0] = Start /\ h[Len(full)] = s /\ IsChain(h, full)
  BY <1>5 DEF Remembers, Leads
<1>7. IsSeq(full) /\ IsSeq(records)
  BY <1>1, <1>5, NextRecord DEF Remembers, Leads
<1>8. Shaped(rec) /\ OfTransition(rec)
  <2>1. Shaped(rec)
    BY <1>1, <1>2, NextRecord
  <2> QED BY <1>3, <2>1, ShapeFacts
<1>9. Now.ledger = ledger /\ Now.config = config /\ Now.configs = configs
  BY DEF Now, State
<1>10. ASSUME memory.complete PROVE FALSE
  <2>1. records = full
    BY <1>5, <1>10 DEF Remembers
  <2>2. Len(log) <= Len(full) /\ \A i \in 1..Len(log) : log[i] = full[i]
    BY <1>1, <2>1
  <2>3. Now = h[n]
    BY <1>1, <1>4, <1>6, <1>7, <2>2, ReplayAgrees
  <2>4. n + 1 \in 1..Len(full) /\ (n + 1) - 1 = n
    BY <1>1, <1>4, <2>1
  <2>5. Goes(h[n], rec, h[n + 1])
    BY <1>2, <1>4, <1>6, <2>1, <2>4 DEF IsChain
  <2>6. FitsAt(ledger, configs, rec)
    BY <1>3, <1>9, <2>3, <2>5, GoesShaped
  <2> QED BY <1>3, <2>6, ReplayIsAt
<1>11. Behind(ledger, memory)
  BY <1>1, <1>5, <1>7, <1>9, ReplayBehind
<1>12. ASSUME NEW r \in Rids \ memory.evicted
       PROVE  /\ ledger'[r].transition_sequence <= memory.ledger[r].transition_sequence
              /\ ledger'[r].transition_sequence = memory.ledger[r].transition_sequence
                   => ledger'[r] = memory.ledger[r]
  <2>1. /\ ledger[r].transition_sequence <= memory.ledger[r].transition_sequence
        /\ ledger[r].transition_sequence = memory.ledger[r].transition_sequence
             => ledger[r] = memory.ledger[r]
    BY <1>11 DEF Behind
  <2>2. CASE ledger'[r] = ledger[r]
    BY <2>1, <2>2
  <2>3. CASE ledger'[r] # ledger[r]
    <3>1. LedgerTyped(ledger)
      BY <1>1, <1>9, StartTyped, LeadsTyped DEF Typed
    <3>2. ledger = [q \in Rids |-> ledger[q]]
      BY <3>1 DEF LedgerTyped
    <3>3. ledger' = [ledger EXCEPT ![rec.request_id] = ReplayEntry(rec)] /\ rec.request_id = r
      BY <1>3, <2>3, <3>2
    <3>4. ledger'[r] = ReplayEntry(rec)
      BY <3>2, <3>3
    <3>5. ledger[r].lifecycle_state = "absent"
      BY <2>3, <3>3, <3>4 DEF ReplayEntry, InLedger
    <3>6. ledger'[r].transition_sequence = 0
      <4>1. ReplayEntry(rec) = NewEntry(rec.declared_type, rec.config_version)
        BY <3>3, <3>5 DEF ReplayEntry, InLedger
      <4>2. NewEntry(rec.declared_type, rec.config_version).transition_sequence = 0
        BY DEF NewEntry, Absent
      <4> QED BY <3>4, <4>1, <4>2
    <3>7. PICK j \in 1..Len(full) : rec = full[j]
      <4>1. n + 1 \in 1..Len(records)
        BY <1>1, <1>4
      <4> QED BY <1>2, <1>4, <1>5, <4>1 DEF Remembers, Among
    <3>8. PICK M \in Nat : M = Len(full)
      BY <1>7, ConcatIsSeq
    <3>9. Typed(h[0])
      BY <1>6, StartTyped
    <3>10. \A i \in 0..M : Typed(h[i])
      BY <1>6, <1>7, <3>8, <3>9, ChainTyped
    <3>11. j - 1 \in 0..M /\ j \in 0..M /\ M \in 0..M
      BY <3>8
    <3>12. PICK x, y : x = h[j - 1] /\ y = h[j]
      OBVIOUS
    <3>13. Typed(x) /\ Typed(y) /\ Goes(x, rec, y)
      BY <1>6, <3>7, <3>10, <3>11, <3>12 DEF IsChain
    <3>14. /\ FitsAt(x.ledger, x.configs, rec)
           /\ y = State([x.ledger EXCEPT ![rec.request_id] = ReplayedAt(x.ledger, rec)],
                        x.config, x.configs)
      <4>1. ~OfConfig(rec) /\ ~OfSession(rec) /\ ~OfCleanup(rec) /\ ~OfDuplicate(rec)
        BY <1>3, <1>8, ShapeFacts
      <4> QED BY <3>13, <4>1, Zenon DEF Goes
    <3>15. LedgerTyped(x.ledger)
      BY <3>13 DEF Typed
    <3>16. /\ ReplayedAt(x.ledger, rec).transition_sequence = rec.sequence
           /\ rec.sequence = x.ledger[r].transition_sequence + 1
      BY <1>8, <3>3, <3>14, <3>15, ReplayedFacts
    <3>17. y.ledger[r].transition_sequence = x.ledger[r].transition_sequence + 1
      <4>1. y.ledger = [x.ledger EXCEPT ![r] = ReplayedAt(x.ledger, rec)]
        BY <3>3, <3>14 DEF State
      <4>2. x.ledger = [q \in Rids |-> x.ledger[q]]
        BY <3>15 DEF LedgerTyped
      <4>3. y.ledger[r] = ReplayedAt(x.ledger, rec)
        BY <4>1, <4>2
      <4> QED BY <3>16, <4>3
    <3>18. PICK p \in Nat : p = x.ledger[r].transition_sequence
      BY <3>15 DEF LedgerTyped, EntryTyped, Entry
    <3>19. \A i \in 1..Len(full) : ~(full[i].event = "__cleanup__" /\ full[i].request_id = r)
      BY <1>12, <1>5 DEF Remembers
    <3>20. h[j].ledger[r].transition_sequence <= h[M].ledger[r].transition_sequence
      <4>1. \A l \in 0..Len(full) : \A k \in 0..l :
               /\ h[k].ledger[r].transition_sequence <= h[l].ledger[r].transition_sequence
               /\ h[k].ledger[r].transition_sequence = h[l].ledger[r].transition_sequence
                    => h[k].ledger[r] = h[l].ledger[r]
        <5>1. PICK q \in Rids : q = r
          OBVIOUS
        <5>2. IsChain(h, full)
          BY <1>6
        <5> QED BY ONLY <1>7, <3>9, <3>19, <5>1, <5>2, ChainRises
      <4>2. M \in 0..Len(full) /\ j \in 0..M
        BY <3>8
      <4> QED BY <4>1, <4>2
    <3>21. PICK z \in Nat : z = memory.ledger[r].transition_sequence
      <4>1. h[M].ledger = memory.ledger
        BY <1>5, <1>6, <3>8 DEF Remembers
      <4>2. h[M].ledger[r].transition_sequence \in Nat
        BY <3>10, <3>11 DEF Typed, LedgerTyped, EntryTyped, Entry
      <4> QED BY <4>1, <4>2
    <3>22. p + 1 <= z
      <4>1. h[M].ledger = memory.ledger
        BY <1>5, <1>6, <3>8 DEF Remembers
      <4> QED BY <3>12, <3>17, <3>18, <3>20, <3>21, <4>1
    <3>23. 0 <= z /\ 0 # z
      BY <3>22
    <3> QED BY <3>6, <3>21, <3>23
  <2> QED BY <2>2, <2>3
<1>13. Behind(ledger', memory')
  BY <1>3, <1>12 DEF Behind
<1>14. EnvironmentTyped'
  BY <1>3 DEF ExactInv, EnvironmentTyped
<1> QED BY <1>1, <1>3, <1>10, <1>13, <1>14 DEF ExactInv, Behind

LEMMA DoneExact ==
  ASSUME ExactInv, RecoveryDone
  PROVE  ExactInv'
<1>1. /\ phase = "replaying" /\ Len(log) = Len(records) /\ phase' = "running"
      /\ log' = log /\ bus' = bus /\ ledger' = ledger /\ config' = config /\ configs' = configs
      /\ next_eid' = next_eid /\ pending' = pending
  BY DEF RecoveryDone, vars
<1>2. /\ IsSeq(bus) /\ IsSeq(log) /\ records = LogRecords(bus) /\ Leads(Start, log, Now)
      /\ \A i \in 1..Len(log) : log[i] = records[i]
  BY <1>1 DEF ExactInv
<1>3. log = records
  <2>1. IsSeq(records)
    BY <1>2, LogRecordsHold
  <2> QED BY <1>1, <1>2, <2>1, SameSeq
<1>4. BodiesIn(bus, log)
  BY <1>2, <1>3, BodiesInRecords
<1>5. Now' = Now
  BY <1>1 DEF Now
<1>6. EnvironmentTyped'
  BY <1>1 DEF ExactInv, EnvironmentTyped
<1>7. Leads(Start, log', Now') /\ BodiesIn(bus', log')
  BY <1>1, <1>2, <1>4, <1>5
<1> QED BY <1>1, <1>2, <1>6, <1>7 DEF ExactInv

\* The coordinator at work.
LEMMA RunExact ==
  ASSUME ExactInv, Running
  PROVE  ExactInv'
<1>1. /\ phase = "running" /\ phase' = "running"
      /\ IsSeq(bus) /\ IsSeq(log) /\ Leads(Start, log, Now) /\ BodiesIn(bus, log)
      /\ next_eid \in Nat
  BY DEF Running, recoveryVars, ExactInv, EnvironmentTyped
<1>2. Typed(Now)
  BY <1>1, StartTyped, LeadsTyped
<1>3. SUFFICES /\ EnvironmentTyped' /\ IsSeq(bus') /\ IsSeq(log')
               /\ Leads(Start, log', Now') /\ BodiesIn(bus', log')
  BY <1>1 DEF ExactInv
<1>4. ASSUME NEW recs, NEW msgs, Logs(recs, msgs)
      PROVE  /\ IsSeq(bus') /\ IsSeq(log') /\ Leads(Start, log', Now') /\ BodiesIn(bus', log')
  <2>1. /\ Leads(Now, recs, Now') /\ IsSeq(msgs) /\ BodiesIn(msgs, recs)
        /\ log' = log \o recs /\ bus' = bus \o Accepted(msgs)
    BY <1>4 DEF Logs, SafePublish
  <2>2. PICK acc : acc = Accepted(msgs)
    OBVIOUS
  <2>3. IsSeq(acc) /\ BodiesIn(acc, recs) /\ IsSeq(recs)
    BY <2>1, <2>2, AcceptedFrom, BodiesInAccepted DEF Leads
  <2>4. PICK new, grown : new = log \o recs /\ grown = bus \o acc
    OBVIOUS
  <2>5. IsSeq(new) /\ IsSeq(grown)
    BY <1>1, <2>3, <2>4, ConcatIsSeq
  <2>6. Leads(Start, new, Now')
    BY <1>1, <2>1, <2>4, LeadsOn
  <2>7. BodiesIn(grown, new)
    BY <1>1, <2>3, <2>4, BodiesInConcat
  <2>8. log' = new /\ bus' = grown
    BY <2>1, <2>2, <2>4
  <2> QED BY <2>5, <2>6, <2>7, <2>8
<1>5. ASSUME log' = log, bus' = bus, Now' = Now
      PROVE  /\ IsSeq(bus') /\ IsSeq(log') /\ Leads(Start, log', Now') /\ BodiesIn(bus', log')
  BY <1>1, <1>5
<1>6. ASSUME NEW eid \in Nat, NEW env \in Envelopes(eid), Handle(env)
      PROVE  /\ IsSeq(bus') /\ IsSeq(log') /\ Leads(Start, log', Now') /\ BodiesIn(bus', log')
  <2>1. \/ \E recs, msgs : Logs(recs, msgs)
        \/ log' = log /\ bus' = bus /\ Now' = Now
    BY <1>1, <1>2, <1>6, HandleLogs
  <2> QED BY <1>4, <1>5, <2>1
<1>7. CASE Deliver
  <2>1. PICK env \in Envelopes(next_eid) : Handle(env) /\ (pending' = pending \/ pending' = env)
    BY <1>7 DEF Deliver
  <2>2. next_eid' = next_eid + 1
    BY <1>7 DEF Deliver
  <2>3. EnvironmentTyped'
    BY <1>1, <2>1, <2>2 DEF ExactInv, EnvironmentTyped
  <2> QED BY <1>1, <1>6, <2>1, <2>3
<1>8. CASE Redeliver
  <2>1. Handle(pending) /\ pending # NoEvent /\ pending' = NoEvent /\ next_eid' = next_eid
    BY <1>8 DEF Redeliver
  <2>2. PICK eid \in Nat : pending \in Envelopes(eid)
    BY <2>1 DEF ExactInv, EnvironmentTyped
  <2>3. EnvironmentTyped'
    BY <1>1, <2>1 DEF EnvironmentTyped
  <2> QED BY <1>6, <2>1, <2>2, <2>3
<1>9. CASE DeliverMalformed
  <2>1. log' = log /\ bus' = bus /\ Now' = Now /\ next_eid' = next_eid + 1 /\ pending' = pending
    BY <1>9 DEF DeliverMalformed, Fault, Now
  <2>2. EnvironmentTyped'
    BY <1>1, <2>1 DEF ExactInv, EnvironmentTyped
  <2> QED BY <1>5, <2>1, <2>2
<1>10. CASE BusChanges
  <2>1. log' = log /\ bus' = bus /\ Now' = Now /\ next_eid' = next_eid /\ pending' = pending
    BY <1>10 DEF BusChanges, kernelVars, Now
  <2>2. EnvironmentTyped'
    BY <2>1 DEF ExactInv, EnvironmentTyped
  <2> QED BY <1>5, <2>1, <2>2
<1> QED BY <1>7, <1>8, <1>9, <1>10 DEF Running, Next

LEMMA InitExactInv == RecoveryInit => ExactInv
<1> SUFFICES ASSUME RecoveryInit PROVE ExactInv
  OBVIOUS
<1>1. /\ log = <<>> /\ bus = <<>> /\ phase = "running" /\ next_eid = 0 /\ pending = NoEvent
      /\ Now = Start
  BY DEF RecoveryInit, Init, Now, Start
<1>2. IsSeq(log) /\ IsSeq(bus) /\ Len(bus) = 0
  BY <1>1, TupleIsSeq
<1>3. Leads(Start, log, Now)
  BY <1>1, LeadsNone
<1>4. BodiesIn(bus, log)
  BY <1>2 DEF BodiesIn
<1>5. EnvironmentTyped
  BY <1>1 DEF EnvironmentTyped
<1> QED BY <1>1, <1>2, <1>3, <1>4, <1>5 DEF ExactInv

LEMMA NextExactInv ==
  ASSUME ExactInv, [RecoveryNext]_allVars
  PROVE  ExactInv'
<1>1. CASE UNCHANGED allVars
  <2>1. /\ log' = log /\ bus' = bus /\ ledger' = ledger /\ config' = config /\ configs' = configs
        /\ next_eid' = next_eid /\ pending' = pending /\ phase' = phase /\ records' = records
        /\ memory' = memory
    BY <1>1 DEF allVars, vars, recoveryVars
  <2>2. Now' = Now
    BY <2>1 DEF Now
  <2>3. LogRecords(bus') = LogRecords(bus)
    BY <2>1
  <2>4. EnvironmentTyped'
    BY <2>1 DEF ExactInv, EnvironmentTyped
  <2>5. /\ phase # "deviated" => Leads(Start, log', Now')
        /\ phase = "running" => BodiesIn(bus', log')
        /\ phase = "replaying" => Remembered(records', memory')
        /\ phase = "deviated" => Behind(ledger', memory')
    BY <2>1, <2>2 DEF ExactInv
  <2> QED BY <2>1, <2>2, <2>3, <2>4, <2>5 DEF ExactInv, LogRecords, Behind
<1>2. CASE Running
  BY <1>2, RunExact
<1>3. CASE Crash
  BY <1>3, CrashExact
<1>4. CASE CrashDuringRequest
  BY <1>4, CrashRequestExact
<1>5. CASE CrashDuringSession
  BY <1>5, CrashSessionExact
<1>6. CASE CrashWhileReplaying
  BY <1>6, CrashReplayExact
<1>7. CASE Replay
  BY <1>7, ReplayExact
<1>8. CASE Deviation
  BY <1>8, DeviationExact
<1>9. CASE RecoveryDone
  BY <1>9, DoneExact
<1> QED BY <1>1, <1>2, <1>3, <1>4, <1>5, <1>6, <1>7, <1>8, <1>9 DEF RecoveryNext

\* Replaying the durable log gives back exactly what a complete log stood for at the crash,
\* wherever in a handler it happened and also after further crashes; over a log with gaps it
\* rebuilds no request ahead of what it was, or halts (recover of coordinator.py).
THEOREM RecoveryIsExact == RecoverySpec => []Recovered
<1>1. RecoveryInit => ExactInv
  BY InitExactInv
<1>2. ExactInv /\ [RecoveryNext]_allVars => ExactInv'
  BY NextExactInv
<1>3. ExactInv => Recovered
  BY ExactIsRecovered
<1> QED BY <1>1, <1>2, <1>3, PTL DEF RecoverySpec
=============================================================================
