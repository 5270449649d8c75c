----------------------------- MODULE Execution ------------------------------
(***************************************************************************)
(* The Execution substrate (src/execution/engine.py) over the append-only  *)
(* journal of src/storage/journal.py.  run() is split at every call that   *)
(* touches storage, the bus or the child process, so that each can fail    *)
(* and the process can die between any two of them.  A reboot makes a new  *)
(* Engine over the same journal and the same bus log.                      *)
(*                                                                         *)
(* Records and events carry `boot`, the boot that wrote them: a history    *)
(* field that only the properties look at.                                 *)
(***************************************************************************)
EXTENDS Naturals, Sequences, FiniteSets

CONSTANTS
  RetryBudgets,  \* values of spec["max_retries"]
  Faults,        \* subset of {"storage", "bus"}: what may raise
  MaxSubmits,    \* bound: submissions of one boot
  MaxBoots       \* bound: reboots

ASSUME ExecutionAssumption ==
  /\ RetryBudgets \subseteq Nat
  /\ Faults \subseteq {"storage", "bus"}
  /\ MaxSubmits \in Nat \ {0}
  /\ MaxBoots \in Nat

VARIABLES
  handle,    \* the Engine's handles: x-000001, x-000002, ... in order
  pc,        \* the next call of run(), or "idle"
  cur,       \* the execution run() is about
  outcome,   \* what the runner returned last
  journal,   \* per execution id, the records on disk
  events,    \* what the bus accepted, in order
  boot       \* reboots so far

vars == <<handle, pc, cur, outcome, journal, events, boot>>

Ids == 1..MaxSubmits
Terminal == {"completed", "failed", "timeout", "cancelled"}
States == {"pending", "running"} \cup Terminal
PCs == {"idle", "record", "started", "runner", "terminal", "announce"}

\* What _runner returns: exit code 0, another exit code (127 if the command
\* cannot be launched), or the timeout.
RunnerOutcomes == {"exit0", "nonzero", "timeout"}

Handles == [state : States, attempts : Nat, budget : RetryBudgets]

-----------------------------------------------------------------------------
(* Records and events.                                                     *)

Attempt(n) == [kind |-> "attempt", attempt |-> n, outcome |-> "none", boot |-> boot]
TerminalRecord(st, n) == [kind |-> "terminal", attempt |-> n, outcome |-> st, boot |-> boot]

\* _record: a new Journal counts the keys of this id and writes the next one.
Record(id, rec) == journal' = [journal EXCEPT ![id] = Append(@, rec)]

\* _emit; the event id is (id, attempt, name).
Emit(id, name, n) ==
  events' = Append(events, [id |-> id, attempt |-> n, name |-> name, boot |-> boot])

-----------------------------------------------------------------------------
(* Operations.                                                             *)

\* submit() of a well-formed spec; a malformed one or one with resource caps is
\* refused before anything changes.
Submit(budget) ==
  /\ pc = "idle"
  /\ Len(handle) < MaxSubmits
  /\ handle' = Append(handle, [state |-> "pending", attempts |-> 0, budget |-> budget])
  /\ UNCHANGED <<pc, cur, outcome, journal, events, boot>>

\* cancel(): only while PENDING.  The state changes before the record is
\* written, so it stays CANCELLED if storage raises.
Cancel(id) ==
  /\ pc = "idle"
  /\ id \in DOMAIN handle
  /\ handle[id].state = "pending"
  /\ handle' = [handle EXCEPT ![id].state = "cancelled"]
  /\ \/ Record(id, TerminalRecord("cancelled", 0))
     \/ "storage" \in Faults /\ UNCHANGED journal
  /\ UNCHANGED <<pc, cur, outcome, events, boot>>

\* run(): PENDING -> RUNNING, and the first iteration of the loop begins.
Run(id) ==
  /\ pc = "idle"
  /\ id \in DOMAIN handle
  /\ handle[id].state = "pending"
  /\ handle' = [handle EXCEPT ![id].state = "running", ![id].attempts = 1]
  /\ cur' = id
  /\ pc' = "record"
  /\ UNCHANGED <<outcome, journal, events, boot>>

RecordAttempt ==
  /\ pc = "record"
  /\ Record(cur, Attempt(handle[cur].attempts))
  /\ pc' = "started"
  /\ UNCHANGED <<handle, cur, outcome, events, boot>>

EmitStarted ==
  /\ pc = "started"
  /\ Emit(cur, "started", handle[cur].attempts)
  /\ pc' = "runner"
  /\ UNCHANGED <<handle, cur, outcome, journal, boot>>

\* Whether `for attempt in range(1, retries + 2)' goes round again.
Retries(out, h) == out = "nonzero" /\ h.attempts < h.budget + 1

\* The terminal state the loop leaves with.
StateOf(out) ==
  CASE out = "exit0"   -> "completed"
    [] out = "nonzero" -> "failed"
    [] out = "timeout" -> "timeout"

\* Mutant: the child is run again in place until it exits with 0.
RunAttemptUntilOk(out) ==
  /\ pc = "runner"
  /\ outcome' = out
  /\ IF out # "exit0"
       THEN UNCHANGED <<handle, pc>>
       ELSE /\ handle' = [handle EXCEPT ![cur].state = StateOf(out)]
            /\ pc' = "terminal"
  /\ UNCHANGED <<cur, journal, events, boot>>
\* The child process runs, within its timeout, and the loop decides.
RunAttempt(out) ==
  /\ pc = "runner"
  /\ outcome' = out
  /\ IF Retries(out, handle[cur])
       THEN /\ handle' = [handle EXCEPT ![cur].attempts = @ + 1]
            /\ pc' = "record"
       ELSE /\ handle' = [handle EXCEPT ![cur].state = StateOf(out)]
            /\ pc' = "terminal"
  /\ UNCHANGED <<cur, journal, events, boot>>

\* Mutant: the terminal event goes out first.
RecordTerminalAfterEvent ==
  /\ pc = "terminal"
  /\ Emit(cur, handle[cur].state, handle[cur].attempts)
  /\ pc' = "announce"
  /\ UNCHANGED <<handle, cur, outcome, journal, boot>>
RecordTerminal ==
  /\ pc = "terminal"
  /\ Record(cur, TerminalRecord(handle[cur].state, handle[cur].attempts))
  /\ pc' = "announce"
  /\ UNCHANGED <<handle, cur, outcome, events, boot>>

EmitTerminal ==
  /\ pc = "announce"
  /\ Emit(cur, handle[cur].state, handle[cur].attempts)
  /\ pc' = "idle"
  /\ UNCHANGED <<handle, cur, outcome, journal, boot>>

\* _record or _emit raises: run() is left where it is.
Raise ==
  /\ \/ "storage" \in Faults /\ pc \in {"record", "terminal"}
     \/ "bus" \in Faults /\ pc \in {"started", "announce"}
  /\ pc' = "idle"
  /\ UNCHANGED <<handle, cur, outcome, journal, events, boot>>

\* The process dies and a new one builds an Engine: no handles, _next_id = 1.
Reboot ==
  /\ boot < MaxBoots
  /\ boot' = boot + 1
  /\ handle' = <<>>
  /\ pc' = "idle"
  /\ UNCHANGED <<cur, outcome, journal, events>>

-----------------------------------------------------------------------------
Init ==
  /\ handle = <<>>
  /\ pc = "idle"
  /\ cur = 1
  /\ outcome = "exit0"
  /\ journal = [id \in Ids |-> <<>>]
  /\ events = <<>>
  /\ boot = 0

RunStep ==
  \/ RecordAttempt \/ EmitStarted \/ RecordTerminal \/ EmitTerminal
  \/ \E out \in RunnerOutcomes : RunAttempt(out)

Next ==
  \/ \E b \in RetryBudgets : Submit(b)
  \/ \E id \in Ids : Cancel(id) \/ Run(id)
  \/ RunStep
  \/ Raise
  \/ Reboot

Spec == Init /\ [][Next]_vars

\* run() is a synchronous call: the thread in it keeps going, and the child
\* process ends because subprocess.run enforces the timeout.
FairSpec == Spec /\ WF_vars(RunStep)

-----------------------------------------------------------------------------
(* Properties.                                                             *)

\* An event tells of a record, and the record k of an execution was told of by event n.
Tells(e, r) ==
  /\ e.boot = r.boot /\ e.attempt = r.attempt
  /\ e.name = IF r.kind = "attempt" THEN "started" ELSE r.outcome
Told(id, k, n) == \E m \in 1..n : events[m].id = id /\ Tells(events[m], journal[id][k])

\* INVARIANT (Records before Events): whatever was announced on the bus is on disk
\* first, once and in the same order, whichever call raised or crashed: the records of
\* its boot announced before an event are those that are before the one it tells of.
EventsAreRecorded ==
  \A n \in DOMAIN events : LET e == events[n] recs == journal[events[n].id] IN
    \E i \in DOMAIN recs :
      /\ Tells(e, recs[i])
      /\ \A k \in DOMAIN recs : recs[k].boot = e.boot => (k < i <=> Told(e.id, k, n - 1))

\* The records of an execution that the current boot wrote.
Now(id) == {i \in DOMAIN journal[id] : journal[id][i].boot = boot}

\* INVARIANT (engine.py:19-24, one end and bounded retries): within one boot the
\* journal of an execution is attempts 1, 2, ... up to the budget and one, then at
\* most one terminal record, which names the state of the handle; a timeout is
\* never followed by another attempt.
JournalWellFormed ==
  \A id \in DOMAIN handle : LET recs == journal[id] IN
    \E first \in 0..Len(recs) :
      /\ Now(id) = (first + 1)..Len(recs)
      /\ \A i \in Now(id) :
           \/ /\ recs[i].kind = "attempt"
              /\ recs[i].attempt = i - first /\ recs[i].attempt <= handle[id].budget + 1
              /\ id = cur /\ pc = "started" /\ recs[i].attempt > 1 => outcome = "nonzero"
           \/ /\ recs[i].kind = "terminal"
              /\ i = Len(recs) /\ recs[i].outcome = handle[id].state

\* INVARIANT: the journal of every execution is well formed, and ahead of the bus.
JournalSound == EventsAreRecorded /\ JournalWellFormed

\* LIVENESS (V1-H4): no run() hangs: it returns or raises.
RunReturns == (pc # "idle") ~> (pc = "idle")
=============================================================================
