---------------------------- MODULE RequestState ----------------------------
(***************************************************************************)
(* The Request State Manager (src/rsm/): one record per request, folded    *)
(* from the events of the bus by Ingest.process; checkpoints, journal      *)
(* index and terminal snapshot in Storage; eviction; recovery by replay.   *)
(*                                                                         *)
(* A block of a record stands for the events that wrote it, in order: the  *)
(* reducers are pure, so that determines its value.  The package leaves to *)
(* its caller when to write and when to recover (persistence.py:15-22);    *)
(* the caller modelled here follows the docstrings of those functions.     *)
(***************************************************************************)
EXTENDS Naturals, Sequences, FiniteSets, SequencesExt

CONSTANTS
  Rids,             \* request ids
  Families,         \* the event families the bus carries
  CheckpointN,      \* config_view.checkpoint_n
  RetentionWindow,  \* config_view.retention_window
  None,             \* no record, no document
  MaxEvents,        \* bound on the events published
  MaxTime,          \* bound on the clock
  MaxCrashes        \* bound on the crashes

VARIABLES
  events,        \* the envelopes published; the event id is the position
  req,           \* Store and Journal, by request: state, record, journal
  persisted_at,  \* Store._persisted_at
  clock,         \* the injected clock
  index,         \* Storage: the journal-index documents
  snapshot,      \* Storage: the terminal snapshots
  checkpoint,    \* Storage: the checkpoints of a request, by journal length
  latest,        \* Storage: the checkpoint index, 0 for none
  at,            \* where the caller is: the write that comes next
  rid,           \* the request it is about
  toRecover,     \* requests the restarted process has not re-folded yet
  crashes, memory  \* history: crashes so far, and req at the last one

storageVars == <<index, snapshot, checkpoint, latest>>
crashVars == <<toRecover, crashes, memory>>
vars == <<events, req, persisted_at, clock, storageVars, at, rid, crashVars>>

Terminals == {"request.completed", "request.failed", "request.rejected", "request.cancelled"}
Failures == {"plan.rejected", "task.failed", "exec.timeout", "exec.failed", "verify.failed",
             "storage.rejected", "fault.recorded", "request.failed"}
Plans == {"intent.classified", "plan.created", "plan.revised", "plan.validated", "plan.rejected"}
Works == {"task.scheduled", "task.started", "task.preempted", "task.completed", "task.failed",
          "exec.started", "exec.completed", "exec.timeout", "exec.failed",
          "storage.committed", "storage.rejected"}
Verifications == {"verify.requested", "verify.passed", "verify.failed"}

\* The families that write each block, by the reducers of REGISTRY.
Writers ==
  [identity |-> {"request.received"}, lifecycle |-> Terminals, plan |-> Plans, work |-> Works,
   context |-> {"context.assembled"}, verification |-> Verifications,
   budget |-> {"task.scheduled", "cost.recorded"}, failure |-> Failures]
Blocks == DOMAIN Writers
Registered == UNION {Writers[b] : b \in Blocks}

TerminalLike == {"terminal", "persisted", "retained"}
States == {"absent", "active", "evicted"} \cup TerminalLike

\* Envelopes with an id, a request and a family; ok: the payload has the fields of
\* the family's schema, which nobody looks at when there is no reducer.
Envelopes == {e \in [rid : Rids, family : Families, ok : BOOLEAN] : e.family \in Registered \/ e.ok}

Records == [version : Nat, blocks : [Blocks -> Seq(Nat)]]

ASSUME RequestStateAssumption ==
  /\ CheckpointN \in Nat \ {0}
  /\ RetentionWindow \in Nat

\* The value for no document is none of the documents.
ASSUME NoneAssumption == None \notin Records /\ None \notin Seq(Nat)

-----------------------------------------------------------------------------
(* Ingest.                                                                 *)

\* transitions.lookup
Lookup(state, family) ==
  CASE family \notin Registered -> "unregistered"
    [] state = "absent" /\ family = "request.received" -> "create"
    [] state = "active" /\ family \in Terminals -> "apply_terminal"
    [] state = "active" /\ family \in Registered \ ({"request.received"} \cup Terminals) -> "apply"
    [] state \in TerminalLike /\ family = "cost.recorded" -> "apply"
    [] OTHER -> "fault"

Blank == [state |-> "absent", record |-> None, journal |-> <<>>]

\* record.birth and record.evolve, with the blocks the reducer of the family writes.
Birth == [version |-> 0, blocks |-> [b \in Blocks |-> <<>>]]
Evolve(record, eid, family) ==
  [version |-> IF family = "request.received" THEN 0 ELSE record.version + 1,
   blocks  |-> [b \in Blocks |-> IF family \in Writers[b] THEN Append(record.blocks[b], eid)
                                                           ELSE record.blocks[b]]]

\* process() applies the event: it is new to the journal, its row applies it and its
\* payload passes the schema check of the reducer.
Applies(r, eid, e) ==
  /\ eid \notin ToSet(r.journal)
  /\ Lookup(r.state, e.family) \in {"create", "apply", "apply_terminal"}
  /\ e.ok

\* Store.create, Store.apply_terminal and Store.apply, with the reducer's record.
Create(r, eid, family) ==
  [r EXCEPT !.state = "active", !.record = Evolve(Birth, eid, family)]
ApplyTerminal(r, eid, family) ==
  [r EXCEPT !.state = "terminal", !.record = Evolve(@, eid, family)]
ApplyLive(r, eid, family) == [r EXCEPT !.record = Evolve(@, eid, family)]

\* Apply by the row, then journal.
Applied(r, eid, family) ==
  LET action == Lookup(r.state, family)
      stored == CASE action = "create" -> Create(r, eid, family)
                  [] action = "apply_terminal" -> ApplyTerminal(r, eid, family)
                  [] action = "apply" -> ApplyLive(r, eid, family)
  IN  [stored EXCEPT !.journal = Append(@, eid)]

\* Ingest.process: drop, count, fault, or apply and journal.
Process(r, eid, e) == IF Applies(r, eid, e) THEN Applied(r, eid, e.family) ELSE r

Idle == at = "idle" /\ toRecover = {}

\* process(), then maybe_checkpoint by the caller.  Telemetry is the last thing
\* process() does; when the bus raises there, the caller never gets to it.
Deliver(eid, e) ==
  /\ Idle
  /\ LET r == req[e.rid]
         r2 == Process(r, eid, e)
         due == Applies(r, eid, e) /\ Len(r2.journal) % CheckpointN = 0
     IN  /\ req' = [req EXCEPT ![e.rid] = r2]
         /\ rid' = e.rid
         /\ at' \in (IF due THEN {"checkpoint", "idle"} ELSE {"idle"})
  /\ UNCHANGED <<persisted_at, clock, storageVars, crashVars>>

Receive ==
  /\ Len(events) < MaxEvents
  /\ \E e \in Envelopes :
       /\ events' = Append(events, e)
       /\ Deliver(Len(events) + 1, e)

\* At-least-once delivery: any event again, also one that faulted before.
Redeliver == \E i \in DOMAIN events : Deliver(i, events[i]) /\ UNCHANGED events

-----------------------------------------------------------------------------
(* Persistence and eviction.                                               *)

Goto(next) == at' = next
Unmoved == <<events, clock, rid, crashVars>>

\* write_checkpoint: the document first, then the checkpoint index.
WriteCheckpoint ==
  /\ at = "checkpoint"
  /\ LET r == req[rid]
         doc == [prefix |-> r.journal, record |-> r.record]
         n == Len(r.journal)
     IN  checkpoint' = [checkpoint EXCEPT ![rid] = [k \in DOMAIN @ \cup {n} |-> IF k = n THEN doc ELSE @[k]]]
  /\ Goto("latest")
  /\ UNCHANGED <<Unmoved, req, persisted_at, index, snapshot, latest>>

WriteLatest ==
  /\ at = "latest"
  /\ latest' = [latest EXCEPT ![rid] = Len(req[rid].journal)]
  /\ Goto("idle")
  /\ UNCHANGED <<Unmoved, req, persisted_at, index, snapshot, checkpoint>>

\* persist_terminal: index, snapshot, mark_persisted.
PersistTerminal(r) ==
  /\ Idle
  /\ req[r].state = "terminal"
  /\ rid' = r
  /\ Goto("index")
  /\ UNCHANGED <<events, clock, req, persisted_at, storageVars, crashVars>>

\* Store.mark_persisted
MarkPersisted(r) ==
  /\ req[r].state = "terminal"
  /\ req' = [req EXCEPT ![r].state = "persisted"]
  /\ persisted_at' = [persisted_at EXCEPT ![r] = clock]

\* Mutant: the request is marked before its snapshot is written.
WriteIndexMarks ==
  /\ at = "index"
  /\ index' = [index EXCEPT ![rid] = req[rid].journal]
  /\ MarkPersisted(rid)
  /\ Goto("snapshot")
  /\ UNCHANGED <<Unmoved, snapshot, checkpoint, latest>>
WriteIndex ==
  /\ at = "index"
  /\ index' = [index EXCEPT ![rid] = req[rid].journal]
  /\ Goto("snapshot")
  /\ UNCHANGED <<Unmoved, req, persisted_at, snapshot, checkpoint, latest>>

WriteSnapshot ==
  /\ at = "snapshot"
  /\ snapshot' = [snapshot EXCEPT ![rid] = req[rid].record]
  /\ MarkPersisted(rid)
  /\ Goto("idle")
  /\ UNCHANGED <<Unmoved, index, checkpoint, latest>>

\* Storage raises: the caller's function ends here.
StorageFails ==
  /\ at # "idle"
  /\ Goto("idle")
  /\ UNCHANGED <<Unmoved, req, persisted_at, storageVars>>

\* reapply_journal_index, after a late apply.
ReapplyIndex(r) ==
  /\ Idle
  /\ req[r].state = "persisted"
  /\ index' = [index EXCEPT ![r] = req[r].journal]
  /\ UNCHANGED <<Unmoved, at, req, persisted_at, snapshot, checkpoint, latest>>

\* evict_gate and mark_evicted; the journal keeps its entries.
Evict(r) ==
  /\ Idle
  /\ req[r].state \in TerminalLike
  /\ persisted_at[r] # None
  /\ clock - persisted_at[r] >= RetentionWindow
  /\ req' = [req EXCEPT ![r].state = "evicted", ![r].record = None]
  /\ persisted_at' = [persisted_at EXCEPT ![r] = None]
  /\ UNCHANGED <<Unmoved, at, storageVars>>

Tick ==
  /\ Idle
  /\ clock < MaxTime
  /\ clock' = clock + 1
  /\ UNCHANGED <<events, req, persisted_at, storageVars, at, rid, crashVars>>

-----------------------------------------------------------------------------
(* Crash and recovery.                                                     *)

Crash ==
  /\ crashes < MaxCrashes
  /\ crashes' = crashes + 1
  /\ memory' = [r \in Rids |-> IF r \in toRecover THEN memory[r] ELSE req[r]]
  /\ req' = [r \in Rids |-> Blank]
  /\ persisted_at' = [r \in Rids |-> None]
  /\ toRecover' = {r \in Rids : memory'[r].journal # <<>>}
  /\ at' = "idle"
  /\ UNCHANGED <<events, clock, storageVars, rid>>

\* replay_journal: process() over the event ids, from the seed.
ReplayJournal(seed, ids) ==
  LET after[n \in 0..Len(ids)] ==
        IF n = 0 THEN seed ELSE Process(after[n - 1], ids[n], events[ids[n]])
  IN  after[Len(ids)]

Refolded(r, value) ==
  /\ r \in toRecover
  /\ req' = [req EXCEPT ![r] = value]
  /\ toRecover' = toRecover \ {r}
  /\ UNCHANGED <<events, persisted_at, clock, storageVars, at, rid, crashes, memory>>

\* read_checkpoint: the one that the checkpoint index names.
ReadCheckpoint(r) == checkpoint[r][latest[r]]

\* Mutant: the journal of the checkpoint is not seeded.
FromCheckpointUnseeded(r, from) ==
  LET doc == ReadCheckpoint(r)
      seed == [state |-> "active", record |-> doc.record, journal |-> <<>>]
  IN  /\ latest[r] > 0
      /\ from <= Len(doc.prefix) + 1
      /\ Refolded(r, ReplayJournal(seed, SubSeq(memory[r].journal, from, Len(memory[r].journal))))
\* replay_from_checkpoint: seeded as ACTIVE, then the events applied after the prefix;
\* the ones handed in may start earlier.
FromCheckpoint(r, from) ==
  LET doc == ReadCheckpoint(r)
      seed == [state |-> "active", record |-> doc.record, journal |-> doc.prefix]
  IN  /\ latest[r] > 0
      /\ from <= Len(doc.prefix) + 1
      /\ Refolded(r, ReplayJournal(seed, SubSeq(memory[r].journal, from, Len(memory[r].journal))))

\* replay_from_journal_index, when there is no checkpoint.
FromIndex(r) ==
  /\ latest[r] = 0
  /\ index[r] # None
  /\ Refolded(r, ReplayJournal(Blank, index[r]))

\* replay_journal over the request's part of the persisted log.
FromLog(r) ==
  /\ latest[r] = 0
  /\ Refolded(r, ReplayJournal(Blank, memory[r].journal))

Recover ==
  \E r \in toRecover :
    \/ \E from \in 1..Len(memory[r].journal) + 1 : FromCheckpoint(r, from)
    \/ FromIndex(r)
    \/ FromLog(r)

-----------------------------------------------------------------------------
(* Queries, by the state of the request.                                   *)

Known(r) == req[r].state \notin {"absent", "evicted"}
Snapshot(r) == IF Known(r) THEN req[r].record ELSE None
JournalRead(r) == IF Known(r) THEN req[r].journal ELSE None
Block(r, b) == IF Snapshot(r) = None THEN None ELSE Snapshot(r).blocks[b]

-----------------------------------------------------------------------------
Init ==
  /\ events = <<>>
  /\ req = [r \in Rids |-> Blank]
  /\ persisted_at = [r \in Rids |-> None]
  /\ clock = 0
  /\ index = [r \in Rids |-> None]
  /\ snapshot = [r \in Rids |-> None]
  /\ checkpoint = [r \in Rids |-> <<>>]
  /\ latest = [r \in Rids |-> 0]
  /\ at = "idle"
  /\ rid \in Rids
  /\ toRecover = {}
  /\ crashes = 0
  /\ memory = [r \in Rids |-> Blank]

Next ==
  \/ Receive \/ Redeliver
  \/ WriteCheckpoint \/ WriteLatest \/ WriteIndex \/ WriteSnapshot \/ StorageFails
  \/ \E r \in Rids : PersistTerminal(r) \/ ReapplyIndex(r) \/ Evict(r)
  \/ Tick
  \/ Crash \/ Recover

Spec == Init /\ [][Next]_vars

-----------------------------------------------------------------------------
(* Properties.                                                             *)

\* Those of ids that are about block b, in their order.
Written(ids, b) ==
  LET upto[n \in 0..Len(ids)] ==
        IF n = 0 THEN <<>>
        ELSE IF events[ids[n]].family \in Writers[b] THEN Append(upto[n - 1], ids[n])
                                                     ELSE upto[n - 1]
  IN  upto[Len(ids)]

\* The record that the events of ids, all of one request, add up to.
RecordOf(ids) == [version |-> Len(ids) - 1, blocks |-> [b \in Blocks |-> Written(ids, b)]]

\* INVARIANT (RSM-I3, I4, I5): what a query answers as the record is what the events
\* it answers as the journal add up to, each of them once and in order, whatever was
\* delivered twice, faulted, restored from a checkpoint or replayed; it answers both
\* or neither.
RecordIsFold ==
  \A r \in Rids :
    /\ IsInjective(req[r].journal)
    /\ \A eid \in ToSet(req[r].journal) : events[eid].rid = r /\ events[eid].ok
    /\ IF Snapshot(r) = None THEN JournalRead(r) = None
                             ELSE Snapshot(r) = RecordOf(JournalRead(r))

\* RSM-I12: recovery from a checkpoint or from the log gives back
\* the record and the journal of the moment of the crash, however much of the journal
\* the replayed events overlap; from the journal index it gives back what was indexed.
RefoldedExactly ==
  \A r \in toRecover \ toRecover' :
       LET now == req'[r] before == memory[r] IN
         /\ now.record = RecordOf(now.journal)
         /\ \/ now.journal = before.journal
            \/ latest[r] = 0 /\ now.journal = index[r] /\ IsPrefix(index[r], before.journal)
         /\ before.state = "active" => now = before

\* INVARIANT (RSM-I8, I11): a request that is persisted or evicted has its journal
\* index and its terminal snapshot in Storage, and the snapshot, which carries the
\* outcome, is what a part of the index adds up to.
DurableBeforeEviction ==
  \A r \in Rids : req[r].state \in {"persisted", "evicted"} =>
    /\ index[r] # None /\ snapshot[r] # None
    /\ IsPrefix(index[r], req[r].journal)
    /\ snapshot[r].blocks.lifecycle # <<>>
    /\ \E n \in 1..Len(index[r]) : snapshot[r] = RecordOf(SubSeq(index[r], 1, n))

\* RSM/03 section 3: after the terminal event only late costs touch a
\* record; outcome, work and failures stay, whatever arrives late or is replayed.
OutcomeKept ==
  \A r \in Rids :
       req[r].state \in TerminalLike /\ Known(r)' =>
         \A b \in Blocks \ {"budget"} : Block(r, b)' = Block(r, b)

\* INVARIANT: a record is the fold of its journal, in memory and in Storage.
RecordsSound == RecordIsFold /\ DurableBeforeEviction
\* ACTION PROPERTY: recovery gives back what the crash took, and no step rewrites
\* the outcome of a request.
StepsKeepRecords == [][RefoldedExactly /\ OutcomeKept]_vars
=============================================================================
