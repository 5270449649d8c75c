--------------------------- MODULE KernelRecovery ---------------------------
(***************************************************************************)
(* Crash and restart of the Kernel: Coordinator.recover of                 *)
(* src/kernel/coordinator.py over the durable log, which is the sequence   *)
(* of transition.log messages the bus accepted.                            *)
(*                                                                         *)
(* A crash loses the coordinator's memory, between two events or in the    *)
(* middle of one, after a prefix of its messages went out; in that case    *)
(* the bus may deliver the unacknowledged envelope again.  A new           *)
(* coordinator is built with the boot configuration and replays the log    *)
(* record by record, re-emitting what the `published' set does not name.   *)
(* It may crash again while it replays.                                    *)
(***************************************************************************)
EXTENDS Kernel

CONSTANT MaxCrashes \* bound: crashes

ASSUME CrashAssumption == MaxCrashes \in Nat

VARIABLES
  phase,      \* "running", "replaying" or "deviated" (halted by recover)
  records,    \* the argument of recover: the durable log
  published,  \* the argument of recover: delivered (request, sequence) pairs
  crashes,    \* crashes so far
  memory      \* history: the ledger and configuration the crash took, see Memory

recoveryVars == <<phase, records, published, crashes, memory>>
allVars == <<vars, recoveryVars>>

-----------------------------------------------------------------------------
(* What a crash leaves behind.                                             *)

LogRecords(msgs) ==
  LET logged == Subsequence(msgs, {i \in DOMAIN msgs : msgs[i].topic = LogTopic})
  IN [i \in 1..Len(logged) |-> logged[i].body]

\* A consumer reports a pair when every emission of the record is on the bus (and
\* the record asks for one).
Published(msgs) ==
  {<<rec.request_id, rec.sequence>> : rec \in
     {x \in ToSet(LogRecords(msgs)) : x.emitted # <<>> /\
        \A i \in 1..Len(x.emitted) : \E j \in DOMAIN msgs :
          /\ msgs[j].topic = x.emitted[i]
          /\ msgs[j].rid = x.request_id /\ msgs[j].seq = x.sequence
          /\ msgs[j].index = i - 1}}

\* A new Coordinator(bus, config_data) whose recover() starts with `msgs'.
Restart(msgs, mem) ==
  /\ crashes < MaxCrashes
  /\ crashes' = crashes + 1
  /\ bus' = msgs
  /\ records' = LogRecords(msgs)
  /\ published' = Published(msgs)
  /\ phase' = "replaying"
  /\ memory' = mem
  /\ ledger' = [r \in Rids |-> Absent]
  /\ log' = <<>>
  /\ halted' = FALSE
  /\ config' = InitialSnapshot
  /\ configs' = [v \in Versions |-> IF v = InitialSnapshot.version THEN InitialSnapshot
                                                                   ELSE NoSnapshot]
  /\ out_seq' = 0
  /\ UNCHANGED <<down, redelivered>>

\* What the crashed coordinator held, whether the durable log has all of its
\* records, and the requests whose eviction it had logged.
Memory(led) ==
  [ledger |-> led, config |-> config, complete |-> LogRecords(bus) = log,
   evicted |-> {r \in Rids : \E i \in DOMAIN log : /\ log[i].request_id = r
                                                  /\ log[i].event = "__cleanup__"}]

Crash ==
  /\ phase = "running"
  /\ Restart(bus, Memory(ledger))
  /\ UNCHANGED <<next_eid, pending>>

\* The transitions of the handler that is interrupted.
Steps(env) ==
  IF IsDuplicate(env) THEN Noop(env)
  ELSE IF env.event_name = "request.received" /\ ~InLedger(env.request_id) THEN Admit(env)
  ELSE IF /\ env.event_name # "request.received"
          /\ Rows(ledger[env.request_id].lifecycle_state, env.event_name) # <<>>
         THEN Apply(env)
  ELSE <<>>

\* The ledger the durable log stands for when n records of `steps' are in it.
LedgerAfter(rid, steps, n) ==
  IF n = 0 THEN ledger ELSE [ledger EXCEPT ![rid] = steps[n].entry]

\* A crash inside the handler of a request event, after k of its messages.
CrashDuringRequest ==
  /\ phase = "running"
  /\ next_eid < MaxEvents
  /\ \E env \in Envelopes(next_eid) :
       /\ env.event_name \in RequestEvents \cap PeerEvents
       /\ Steps(env) # <<>>
       /\ \E k \in 0..Len(StepMsgs(Steps(env))) - 1 :
            LET out == SubSeq(StepMsgs(Steps(env)), 1, k)
            IN Restart(bus \o Accepted(out),
                       [Memory(LedgerAfter(env.request_id, Steps(env), Len(LogRecords(out))))
                          EXCEPT !.complete = @ /\ ~Refused(out)])
       /\ pending' \in {pending, env}
  /\ next_eid' = next_eid + 1

\* A crash inside _handle_session, after k of its records, the first of which is the
\* session's own.
CrashDuringSession ==
  /\ phase = "running"
  /\ next_eid < MaxEvents
  /\ \E name \in SessionEvents \cap PeerEvents :
       LET recs == SessionRecords(name)
       IN \E k \in 0..Len(recs) - 1 :
            LET done == SubSeq(recs, 1, k)
                gone == {done[i].request_id : i \in 2..k}
                out == [i \in 1..k |-> LogMsg(done[i])]
            IN Restart(bus \o Accepted(out),
                       [Memory([r \in Rids |-> IF r \in gone THEN Absent ELSE ledger[r]])
                          EXCEPT !.complete = @ /\ ~Refused(out),
                                 !.evicted = @ \cup gone])
  /\ next_eid' = next_eid + 1
  /\ UNCHANGED pending

CrashWhileReplaying ==
  /\ phase = "replaying"
  /\ Restart(bus, memory)
  /\ UNCHANGED <<next_eid, pending>>

-----------------------------------------------------------------------------
(* recover(), one record at a time.  The records replayed so far are `log'. *)

ReplayConfig(rec) ==
  /\ rec.event = "config.changed"
  /\ config' = rec.snapshot
  /\ configs' = [configs EXCEPT ![rec.snapshot.version] = rec.snapshot]
  /\ UNCHANGED <<ledger, bus, halted, out_seq>>

ReplaySession(rec) ==
  /\ rec.event \in SessionEvents
  /\ UNCHANGED <<ledger, bus, halted, config, configs, out_seq>>

ReplayCleanup(rec) ==
  /\ rec.event = "__cleanup__"
  /\ ledger' = [ledger EXCEPT ![rec.request_id] = Absent]
  /\ UNCHANGED <<bus, halted, config, configs, out_seq>>

\* Dedup no-ops replay as no-ops.
ReplayNoop(rec) ==
  /\ rec.verdict = "duplicate"
  /\ UNCHANGED <<ledger, bus, halted, config, configs, out_seq>>

IsTransition(rec) ==
  /\ rec.event \notin SessionEvents \cup {"config.changed", "__cleanup__"}
  /\ rec.verdict = "applied"

\* The entry a transition record is replayed against.
ReplayEntry(rec) ==
  IF InLedger(rec.request_id) THEN ledger[rec.request_id]
                              ELSE NewEntry(rec.declared_type, rec.config_version)

\* The row that replay recomputes: the first row, or the last one.
ReplayRow(rec) ==
  LET rows == Rows(ReplayEntry(rec).lifecycle_state, rec.event)
  IN IF rec.guard_result THEN rows[1] ELSE rows[Len(rows)]

\* Mutant: the sequence numbers are not compared.
ConformsIgnoresSequence(rec) ==
  /\ configs[rec.config_version] # NoSnapshot
  /\ InLedger(rec.request_id) \/ rec.event = "request.received"
  /\ LET e == ReplayEntry(rec) IN
       /\ Rows(e.lifecycle_state, rec.event) # <<>>
       /\ e.lifecycle_state = rec.prior_state
       /\ ReplayRow(rec).next = rec.next_state
       /\ ReplayRow(rec).emit = rec.emitted
\* The record recomputed from the rebuilt entry is the logged one.
Conforms(rec) ==
  /\ configs[rec.config_version] # NoSnapshot
  /\ InLedger(rec.request_id) \/ rec.event = "request.received"
  /\ LET e == ReplayEntry(rec) IN
       /\ Rows(e.lifecycle_state, rec.event) # <<>>
       /\ e.lifecycle_state = rec.prior_state
       /\ rec.sequence = e.transition_sequence + 1
       /\ ReplayRow(rec).next = rec.next_state
       /\ ReplayRow(rec).emit = rec.emitted

\* Mutant: recover never re-publishes.
ReEmissionsNone(rec) == <<>>
\* _publish_row again, for a record that is not in `published'.
ReEmissions(rec) ==
  IF <<rec.request_id, rec.sequence>> \in published THEN <<>>
  ELSE PublishRow(rec.request_id, rec.sequence, ReplayRow(rec),
                  EmitDecision(ReplayRow(rec), rec.guard_result))

\* The entry a replayed transition leaves.
Replayed(rec) ==
  [Advance(ReplayEntry(rec), rec.event, rec.event_id, ReplayRow(rec), rec.routing_target)
     EXCEPT !.transition_sequence = rec.sequence]

ReplayTransition(rec) ==
  /\ IsTransition(rec) /\ Conforms(rec)
  /\ ledger' = [ledger EXCEPT ![rec.request_id] = Replayed(rec)]
  /\ SafePublish(ReEmissions(rec))
  /\ UNCHANGED <<config, configs>>

Replay ==
  /\ phase = "replaying"
  /\ Len(log) < Len(records)
  /\ LET rec == records[Len(log) + 1] IN
       /\ \/ ReplayConfig(rec)
          \/ ReplaySession(rec)
          \/ ReplayCleanup(rec)
          \/ ReplayNoop(rec)
          \/ ReplayTransition(rec)
       /\ log' = Append(log, rec)
  /\ UNCHANGED <<envVars, recoveryVars>>

\* _replay_deviation: halt over degrade.  An entry that the record itself
\* introduced has been created by then.
Deviation ==
  /\ phase = "replaying"
  /\ Len(log) < Len(records)
  /\ LET rec == records[Len(log) + 1] IN
       /\ IsTransition(rec)
       /\ ~Conforms(rec)
       /\ ledger' = IF /\ rec.event = "request.received"
                       /\ configs[rec.config_version] # NoSnapshot
                      THEN [ledger EXCEPT ![rec.request_id] = ReplayEntry(rec)]
                      ELSE ledger
  /\ phase' = "deviated"
  /\ halted' = TRUE
  /\ out_seq' = out_seq + 1
  /\ UNCHANGED <<log, bus, config, configs, envVars, records, published, crashes, memory>>

RecoveryDone ==
  /\ phase = "replaying"
  /\ Len(log) = Len(records)
  /\ phase' = "running"
  /\ UNCHANGED <<vars, records, published, crashes, memory>>

-----------------------------------------------------------------------------
Running == phase = "running" /\ Next /\ UNCHANGED recoveryVars

RecoveryInit ==
  /\ Init
  /\ phase = "running"
  /\ records = <<>>
  /\ published = {}
  /\ crashes = 0
  /\ memory = Memory(ledger)

RecoveryNext ==
  \/ Running
  \/ Crash
  \/ CrashDuringRequest
  \/ CrashDuringSession
  \/ CrashWhileReplaying
  \/ Replay
  \/ Deviation
  \/ RecoveryDone

RecoverySpec == RecoveryInit /\ [][RecoveryNext]_allVars

-----------------------------------------------------------------------------
(* Properties.                                                             *)

\* INVARIANT (I17, CR-2): replaying a durable log that has every record never
\* deviates and gives back exactly the ledger and the current configuration the
\* log stood for at the crash, wherever in a handler it happened, also after a
\* second crash during recovery (CR-3).
RecoveredExactly ==
  memory.complete =>
    /\ phase # "deviated"
    /\ phase = "replaying" /\ Len(log) = Len(records) =>
         ledger = memory.ledger /\ config = memory.config

\* INVARIANT (I17, I22): also when the bus refused some log records, replay never
\* invents a state: what it has rebuilt of a request is never ahead of the request
\* at the crash, and where it has caught up it agrees in every field.  A gap in
\* the log is either a lost suffix or a deviation that halts the kernel.  An
\* eviction that was lost brings a request back, so evicted requests are excepted.
RecoveredPrefix ==
  phase # "running" => \A r \in Rids \ memory.evicted :
    LET e == ledger[r] m == memory.ledger[r] IN
      /\ e.transition_sequence <= m.transition_sequence
      /\ e.transition_sequence = m.transition_sequence => e = m

\* No other transition has published under the (request, sequence) pair of record
\* i: an earlier life of an evicted request id, or a transition whose record the
\* bus refused, which a crash then undid.  Every message of the pair is then an
\* emission of the record, at the index the record gives it.
OwnPair(i) ==
  \A j \in DOMAIN bus :
    /\ bus[j].topic # LogTopic
    /\ bus[j].rid = log[i].request_id /\ bus[j].seq = log[i].sequence
    => /\ bus[j].index < Len(log[i].emitted)
       /\ bus[j].topic = log[i].emitted[bus[j].index + 1]
\* INVARIANT (CR-1, I7): while the kernel runs, every emission of every logged
\* record is on the bus, also the ones a crash cut off between log and publish,
\* unless `published' cannot tell the record from another one of its pair.
NoLostEmission ==
  phase = "running" =>
    \A i \in DOMAIN log : \A k \in 1..Len(log[i].emitted) :
      \/ \E j \in DOMAIN bus : /\ bus[j].topic = log[i].emitted[k]
                               /\ bus[j].rid = log[i].request_id
                               /\ bus[j].seq = log[i].sequence
                               /\ bus[j].index = k - 1
      \/ ~OwnPair(i)

\* INVARIANT: recovery is exact over a complete log, and a prefix over one with gaps.
Recovered == RecoveredExactly /\ RecoveredPrefix
=============================================================================
