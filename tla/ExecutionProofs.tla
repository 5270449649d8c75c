-------------------------- MODULE ExecutionProofs ---------------------------
(***************************************************************************)
(* Proofs about Execution, for any retry budgets, any subset of the faults *)
(* and any number of submissions and reboots: the journal of an execution  *)
(* is a run of attempts with at most one end, and every event on the bus   *)
(* tells of a record that was on disk before it.                           *)
(***************************************************************************)
EXTENDS Execution, SequenceTheorems, TLAPS

JournalRecords ==
  [kind : {"attempt"}, attempt : Nat, outcome : {"none"}, boot : Nat]
    \cup [kind : {"terminal"}, attempt : Nat, outcome : Terminal, boot : Nat]
BusEvents == [id : Ids, attempt : Nat, name : {"started"} \cup Terminal, boot : Nat]

Types ==
  /\ handle \in Seq(Handles) /\ Len(handle) <= MaxSubmits
  /\ pc \in PCs /\ cur \in Ids /\ outcome \in RunnerOutcomes
  /\ journal \in [Ids -> Seq(JournalRecords)]
  /\ events \in Seq(BusEvents)
  /\ boot \in Nat

\* No record and no event is of a boot to come.
Dated ==
  /\ \A id \in Ids : \A i \in DOMAIN journal[id] : journal[id][i].boot <= boot
  /\ \A n \in DOMAIN events : events[n].boot <= boot

\* What this boot wrote of an execution: the journal from some point on.
Written(id, first) == Now(id) = (first + 1)..Len(journal[id])

Attempts(id, first, from, to) ==
  \A i \in from..to : journal[id][i].kind = "attempt" /\ journal[id][i].attempt = i - first

\* An execution that was not begun in this boot has left nothing in it.
Untouched ==
  \A id \in Ids :
    id \notin DOMAIN handle \/ handle[id].state = "pending" => Now(id) = {}

\* What run() has written and announced when it is about to make its next call.
Progress ==
  LET a == handle[cur].attempts
      last == Len(journal[cur])
      ended == handle[cur].state \in {"completed", "failed", "timeout"}
  IN pc # "idle" =>
       /\ cur \in DOMAIN handle /\ a \in 1..handle[cur].budget + 1
       /\ pc \in {"record", "started", "runner"} => handle[cur].state = "running"
       /\ pc \in {"terminal", "announce"} => ended
       /\ pc \in {"record", "started"} /\ a > 1 => outcome = "nonzero"
       /\ \E first \in 0..last :
            /\ Written(cur, first)
            /\ pc = "record" => last = first + a - 1
            /\ pc \in {"started", "runner", "terminal"} => last = first + a
            /\ pc = "announce" => last = first + a + 1
            /\ Attempts(cur, first, first + 1, IF pc = "announce" THEN last - 1 ELSE last)
            /\ \A i \in (first + 1)..last :
                 Told(cur, i, Len(events)) <=> ~(pc \in {"started", "announce"} /\ i = last)
       /\ pc = "announce" =>
            journal[cur][last] = TerminalRecord(handle[cur].state, a)

IInv == Types /\ Dated /\ Untouched /\ Progress /\ JournalWellFormed /\ EventsAreRecorded

LEMMA InitIInv == Init => IInv
<1> SUFFICES ASSUME Init PROVE IInv
  OBVIOUS
<1>1. /\ handle = <<>> /\ events = <<>> /\ journal = [id \in Ids |-> <<>>] /\ boot = 0
      /\ cur = 1 /\ pc = "idle" /\ outcome = "exit0"
      /\ DOMAIN handle = {} /\ DOMAIN events = {} /\ Len(handle) = 0
      /\ \A id \in Ids : journal[id] = <<>> /\ DOMAIN journal[id] = {}
  BY DEF Init
<1>2. Types
  BY <1>1, ExecutionAssumption DEF Types, PCs, RunnerOutcomes, Ids
<1>3. Dated /\ Untouched /\ Progress /\ JournalWellFormed /\ EventsAreRecorded
  BY <1>1 DEF Dated, Untouched, Progress, JournalWellFormed, EventsAreRecorded, Now
<1> QED BY <1>2, <1>3 DEF IInv

-----------------------------------------------------------------------------
(* What the three kinds of writes do.                                      *)

LEMMA HandleWrite ==
  ASSUME Types, NEW id \in DOMAIN handle, NEW h \in Handles, handle' = [handle EXCEPT ![id] = h]
  PROVE  /\ handle' \in Seq(Handles) /\ Len(handle') = Len(handle)
         /\ DOMAIN handle' = DOMAIN handle /\ id \in Ids
         /\ \A x \in DOMAIN handle : handle'[x] = IF x = id THEN h ELSE handle[x]
<1>1. PICK n \in Nat : n = Len(handle)
  BY LenProperties DEF Types
<1>2. DOMAIN handle = 1..n /\ handle \in [1..n -> Handles] /\ n <= MaxSubmits
  BY <1>1, LenProperties DEF Types
<1>3. handle' \in [1..n -> Handles]
  BY <1>2
<1>4. handle' \in Seq(Handles)
  BY <1>3, SeqDef, ZenonT(40)
<1>5. Len(handle') = n
  BY <1>3, <1>4, LenProperties
<1> QED BY <1>1, <1>2, <1>4, <1>5, ExecutionAssumption DEF Ids

LEMMA RecordWrite ==
  ASSUME Types, NEW id \in Ids, NEW rec \in JournalRecords, Record(id, rec)
  PROVE  /\ journal' \in [Ids -> Seq(JournalRecords)]
         /\ \A x \in Ids : x # id => journal'[x] = journal[x]
         /\ \A x \in Ids : DOMAIN journal[x] = 1..Len(journal[x]) /\ Len(journal[x]) \in Nat
         /\ Len(journal'[id]) = Len(journal[id]) + 1
         /\ DOMAIN journal'[id] = 1..Len(journal[id]) + 1
         /\ journal'[id][Len(journal[id]) + 1] = rec
         /\ \A i \in 1..Len(journal[id]) : journal'[id][i] = journal[id][i]
<1>1. journal[id] \in Seq(JournalRecords) /\ \A x \in Ids : journal[x] \in Seq(JournalRecords)
  BY DEF Types
<1>2. PICK s \in Seq(JournalRecords) : s = Append(journal[id], rec)
  BY <1>1, AppendProperties
<1>3. journal' = [journal EXCEPT ![id] = s]
  BY <1>2 DEF Record
<1>4. /\ journal' \in [Ids -> Seq(JournalRecords)] /\ journal'[id] = s
      /\ \A x \in Ids : x # id => journal'[x] = journal[x]
  BY <1>3 DEF Types
<1> QED BY <1>1, <1>2, <1>4, AppendProperties, LenProperties

LEMMA EmitWrite ==
  ASSUME Types, NEW id \in Ids, NEW name \in {"started"} \cup Terminal, NEW a \in Nat,
         Emit(id, name, a)
  PROVE  /\ events' \in Seq(BusEvents)
         /\ DOMAIN events = 1..Len(events) /\ Len(events) \in Nat
         /\ DOMAIN events' = 1..Len(events) + 1 /\ Len(events') = Len(events) + 1
         /\ events'[Len(events) + 1] = [id |-> id, attempt |-> a, name |-> name, boot |-> boot]
         /\ \A n \in 1..Len(events) : events'[n] = events[n]
<1>1. PICK e : e = [id |-> id, attempt |-> a, name |-> name, boot |-> boot]
  OBVIOUS
<1>2. e \in BusEvents /\ events' = Append(events, e) /\ events \in Seq(BusEvents)
  BY <1>1 DEF Emit, BusEvents, Types
<1> QED BY <1>1, <1>2, AppendProperties, LenProperties

-----------------------------------------------------------------------------
(* Events and records.                                                     *)

\* A record that no event tells of may be written without disturbing the events.
LEMMA RecordKeepsEvents ==
  ASSUME Types, EventsAreRecorded, NEW id \in Ids, NEW rec \in JournalRecords, Record(id, rec),
         events' = events,
         \A m \in DOMAIN events : ~(events[m].id = id /\ Tells(events[m], rec))
  PROVE  EventsAreRecorded'
<1> SUFFICES ASSUME NEW n \in DOMAIN events
             PROVE  \E i \in DOMAIN journal'[events[n].id] :
                      /\ Tells(events[n], journal'[events[n].id][i])
                      /\ \A k \in DOMAIN journal'[events[n].id] :
                           journal'[events[n].id][k].boot = events[n].boot =>
                             (k < i <=> \E m \in 1..n-1 :
                                          /\ events[m].id = events[n].id
                                          /\ Tells(events[m], journal'[events[n].id][k]))
  BY SMTT(30) DEF EventsAreRecorded, Told, Tells
<1>1. PICK e \in BusEvents : e = events[n] /\ e.id \in Ids
  <2>1. events \in Seq(BusEvents) /\ n \in 1..Len(events)
    BY LenProperties DEF Types
  <2>2. events[n] \in BusEvents
    BY <2>1, ElementOfSeq
  <2> QED BY <2>2 DEF BusEvents
<1>2. /\ DOMAIN events = 1..Len(events) /\ Len(events) \in Nat
  BY LenProperties DEF Types
<1>3. PICK i \in DOMAIN journal[e.id] :
        /\ Tells(e, journal[e.id][i])
        /\ \A k \in DOMAIN journal[e.id] : journal[e.id][k].boot = e.boot =>
             (k < i <=> \E m \in 1..n-1 : events[m].id = e.id /\ Tells(events[m], journal[e.id][k]))
  BY <1>1 DEF EventsAreRecorded, Told
<1>4. /\ i \in 1..Len(journal[e.id]) /\ Len(journal[e.id]) \in Nat
      /\ i \in DOMAIN journal'[e.id] /\ journal'[e.id][i] = journal[e.id][i]
  BY SMTT(30), <1>1, RecordWrite
<1>5. ASSUME NEW k \in DOMAIN journal'[e.id], journal'[e.id][k].boot = e.boot
      PROVE  k < i <=> \E m \in 1..n-1 :
                         events[m].id = e.id /\ Tells(events[m], journal'[e.id][k])
  <2>1. CASE k \in DOMAIN journal[e.id]
    <3>1. k \in 1..Len(journal[e.id]) /\ e.id \in Ids
      BY <1>1, <2>1, RecordWrite
    <3>2. journal'[e.id][k] = journal[e.id][k]
      <4>1. CASE e.id = id
        BY <3>1, <4>1, RecordWrite
      <4>2. CASE e.id # id
        BY <3>1, <4>2, RecordWrite
      <4> QED BY <4>1, <4>2
    <3> QED BY <1>3, <1>5, <2>1, <3>2
  <2>2. CASE k \notin DOMAIN journal[e.id]
    <3>1. e.id = id /\ k = Len(journal[id]) + 1 /\ journal'[id][k] = rec
      BY <1>1, <2>2, RecordWrite
    <3>2. ~(k < i)
      BY <1>4, <3>1
    <3>3. \A m \in 1..n-1 : m \in DOMAIN events
      BY <1>2
    <3> QED BY <3>1, <3>2, <3>3
  <2> QED BY <2>1, <2>2
<1> QED BY <1>1, <1>3, <1>4, <1>5

\* The event of the last record, when exactly the records before it are announced.
LEMMA EmitKeepsEvents ==
  ASSUME Types, EventsAreRecorded, NEW id \in Ids, NEW name \in {"started"} \cup Terminal,
         NEW a \in Nat, Emit(id, name, a), journal' = journal, journal[id] # <<>>,
         Tells([id |-> id, attempt |-> a, name |-> name, boot |-> boot],
               journal[id][Len(journal[id])]),
         \A k \in Now(id) : Told(id, k, Len(events)) <=> k # Len(journal[id])
  PROVE  EventsAreRecorded'
<1>1. PICK N \in Nat : N = Len(events)
  BY LenProperties DEF Types
<1>2. PICK e : e = [id |-> id, attempt |-> a, name |-> name, boot |-> boot]
  OBVIOUS
<1>3. /\ DOMAIN events = 1..N /\ DOMAIN events' = 1..N+1 /\ events'[N + 1] = e
      /\ \A n \in 1..N : events'[n] = events[n]
  BY <1>1, <1>2, EmitWrite
<1>4. ASSUME NEW x \in Ids, NEW k, NEW n \in 1..N+1
      PROVE  (\E m \in 1..n-1 : events'[m].id = x /\ Tells(events'[m], journal[x][k]))
               <=> Told(x, k, n - 1)
  BY <1>3 DEF Told
<1>5. ASSUME NEW n \in 1..N+1
      PROVE  \E i \in DOMAIN journal[events'[n].id] :
               /\ Tells(events'[n], journal[events'[n].id][i])
               /\ \A k \in DOMAIN journal[events'[n].id] :
                    journal[events'[n].id][k].boot = events'[n].boot =>
                      (k < i <=> Told(events'[n].id, k, n - 1))
  <2>1. CASE n \in 1..N
    BY <1>3, <2>1 DEF EventsAreRecorded
  <2>2. CASE n = N + 1
    <3>1. PICK L \in Nat : L = Len(journal[id]) /\ DOMAIN journal[id] = 1..L /\ L \in 1..L
      BY LenProperties, EmptySeq DEF Types
    <3>2. events'[n] = e /\ e.id = id /\ e.boot = boot /\ Tells(e, journal[id][L]) /\ n - 1 = N
      BY <1>2, <1>3, <2>2, <3>1
    <3>3. ASSUME NEW k \in DOMAIN journal[id], journal[id][k].boot = boot
          PROVE  k < L <=> Told(id, k, N)
      BY <1>1, <3>1, <3>3 DEF Now
    <3> QED BY <3>1, <3>2, <3>3
  <2> QED BY <2>1, <2>2
<1>6. \A n \in 1..N+1 : events'[n].id \in Ids
  <2>1. \A n \in 1..N : events[n] \in BusEvents
    BY <1>1, ElementOfSeq DEF Types
  <2>2. \A n \in 1..N+1 : n \in 1..N \/ n = N + 1
    OBVIOUS
  <2> QED BY <1>2, <1>3, <2>1, <2>2 DEF BusEvents
<1>7. ASSUME NEW n \in DOMAIN events'
      PROVE  \E i \in DOMAIN journal[events'[n].id] :
               /\ Tells(events'[n], journal[events'[n].id][i])
               /\ \A k \in DOMAIN journal[events'[n].id] :
                    journal[events'[n].id][k].boot = events'[n].boot =>
                      (k < i <=> \E m \in 1..n-1 :
                                   /\ events'[m].id = events'[n].id
                                   /\ Tells(events'[m], journal[events'[n].id][k]))
  BY <1>3, <1>4, <1>5, <1>6
<1> QED BY <1>7 DEF EventsAreRecorded, Told, Tells

\* An event of this boot tells of a record of this boot.
LEMMA ToldNow ==
  ASSUME Types, EventsAreRecorded, NEW m \in DOMAIN events, NEW r, Tells(events[m], r), r.boot = boot
  PROVE  \E i \in Now(events[m].id) :
           LET w == journal[events[m].id][i] IN
             /\ w.attempt = r.attempt
             /\ (IF w.kind = "attempt" THEN "started" ELSE w.outcome)
                  = (IF r.kind = "attempt" THEN "started" ELSE r.outcome)
<1>1. PICK i \in DOMAIN journal[events[m].id] : Tells(events[m], journal[events[m].id][i])
  BY DEF EventsAreRecorded
<1> QED BY <1>1 DEF Tells, Now

-----------------------------------------------------------------------------
(* The steps.                                                              *)

Sound(id) ==
  LET recs == journal[id] IN
    \E first \in 0..Len(recs) :
      /\ Now(id) = (first + 1)..Len(recs)
      /\ \A i \in Now(id) :
           \/ /\ recs[i].kind = "attempt"
              /\ recs[i].attempt = i - first /\ recs[i].attempt <= handle[id].budget + 1
              /\ id = cur /\ pc = "started" /\ recs[i].attempt > 1 => outcome = "nonzero"
           \/ /\ recs[i].kind = "terminal"
              /\ i = Len(recs) /\ recs[i].outcome = handle[id].state

LEMMA SoundUnwritten ==
  ASSUME NEW id \in DOMAIN handle, Sound(id), journal'[id] = journal[id], boot' = boot,
         handle'[id].budget = handle[id].budget,
         \/ handle'[id].state = handle[id].state
         \/ \A i \in Now(id) : journal[id][i].kind = "attempt",
         id = cur' => pc' # "started"
  PROVE  Sound(id)'
<1>1. Now(id)' = Now(id)
  BY DEF Now
<1>2. PICK first \in 0..Len(journal[id]) :
        /\ Now(id) = (first + 1)..Len(journal[id])
        /\ \A i \in Now(id) :
             \/ /\ journal[id][i].kind = "attempt"
                /\ journal[id][i].attempt = i - first
                /\ journal[id][i].attempt <= handle[id].budget + 1
             \/ /\ journal[id][i].kind = "terminal"
                /\ i = Len(journal[id]) /\ journal[id][i].outcome = handle[id].state
  BY DEF Sound
<1>3. \A i \in Now(id) :
             \/ /\ journal[id][i].kind = "attempt"
                /\ journal[id][i].attempt = i - first
                /\ journal[id][i].attempt <= handle'[id].budget + 1
             \/ /\ journal[id][i].kind = "terminal"
                /\ i = Len(journal[id]) /\ journal[id][i].outcome = handle'[id].state
  BY <1>2
<1> QED BY <1>1, <1>2, <1>3 DEF Sound

LEMMA Unbegun ==
  ASSUME NEW id \in Ids, journal[id] \in Seq(JournalRecords), Now(id) = {}
  PROVE  Sound(id)
<1>1. PICK L \in Nat : L = Len(journal[id])
  BY LenProperties
<1>2. (L + 1)..L = {} /\ L \in 0..L
  OBVIOUS
<1> QED BY <1>1, <1>2 DEF Sound

LEMMA RecordDated ==
  ASSUME Types, Dated, NEW id \in Ids, NEW rec \in JournalRecords, Record(id, rec),
         rec.boot = boot, boot' = boot, events' = events
  PROVE  Dated'
<1>1. \A x \in Ids : \A i \in DOMAIN journal'[x] :
        \/ i \in DOMAIN journal[x] /\ journal'[x][i] = journal[x][i]
        \/ journal'[x][i] = rec
  <2> SUFFICES ASSUME NEW x \in Ids, NEW i \in DOMAIN journal'[x]
               PROVE  \/ i \in DOMAIN journal[x] /\ journal'[x][i] = journal[x][i]
                      \/ journal'[x][i] = rec
    OBVIOUS
  <2>1. CASE x # id
    BY <2>1, RecordWrite
  <2>2. CASE x = id
    <3>1. PICK L \in Nat : L = Len(journal[id])
      BY LenProperties DEF Types
    <3>2. i \in 1..L+1 /\ DOMAIN journal[id] = 1..L
      BY <2>2, <3>1, RecordWrite
    <3> QED BY <2>2, <3>1, <3>2, RecordWrite
  <2> QED BY <2>1, <2>2
<1>2. boot \in Nat
  BY DEF Types
<1> QED BY <1>1, <1>2 DEF Dated

LEMMA EmitDated ==
  ASSUME Types, Dated, NEW id \in Ids, NEW name \in {"started"} \cup Terminal, NEW a \in Nat,
         Emit(id, name, a), journal' = journal, boot' = boot
  PROVE  Dated'
<1>1. PICK N \in Nat : N = Len(events)
  BY LenProperties DEF Types
<1>2. PICK e : e = [id |-> id, attempt |-> a, name |-> name, boot |-> boot]
  OBVIOUS
<1>3. /\ DOMAIN events = 1..N /\ DOMAIN events' = 1..N+1 /\ events'[N + 1] = e
      /\ \A n \in 1..N : events'[n] = events[n]
  BY <1>1, <1>2, EmitWrite
<1>4. ASSUME NEW n \in 1..N+1 PROVE events'[n].boot <= boot
  <2>1. CASE n \in 1..N
    BY <1>3, <2>1 DEF Dated
  <2>2. CASE n = N + 1
    BY <1>2, <1>3, <2>2 DEF Types
  <2> QED BY <2>1, <2>2
<1> QED BY <1>3, <1>4 DEF Dated

\* The records of this boot that an execution has after a write.
LEMMA NowAfter ==
  ASSUME Types, NEW id \in Ids, NEW rec \in JournalRecords, Record(id, rec),
         rec.boot = boot, boot' = boot
  PROVE  /\ Now(id)' = Now(id) \cup {Len(journal[id]) + 1}
         /\ \A x \in Ids : x # id => Now(x)' = Now(x)
<1>1. PICK L \in Nat : L = Len(journal[id])
  BY LenProperties DEF Types
<1>2. /\ DOMAIN journal[id] = 1..L /\ DOMAIN journal'[id] = 1..L+1
      /\ journal'[id][L + 1] = rec /\ \A i \in 1..L : journal'[id][i] = journal[id][i]
  BY <1>1, RecordWrite
<1>3. {i \in 1..L+1 : journal'[id][i].boot = boot} = {i \in 1..L : journal[id][i].boot = boot} \cup {L + 1}
  BY <1>2
<1>4. ASSUME NEW x \in Ids, x # id PROVE Now(x)' = Now(x)
  BY <1>4, RecordWrite DEF Now
<1>5. ASSUME NEW x, x = id PROVE Now(x)' = Now(x) \cup {L + 1}
  BY <1>2, <1>3, <1>5 DEF Now
<1> QED BY <1>1, <1>4, <1>5

\* submit: a fresh execution, of which this boot has written nothing.
LEMMA SubmitIInv ==
  ASSUME IInv, NEW budget \in RetryBudgets, Submit(budget)
  PROVE  IInv'
<1>1. PICK h : h = [state |-> "pending", attempts |-> 0, budget |-> budget]
  OBVIOUS
<1>2. PICK n \in Nat : n = Len(handle)
  BY LenProperties DEF IInv, Types
<1>3. /\ h \in Handles /\ pc = "idle" /\ n < MaxSubmits
      /\ handle' = Append(handle, h) /\ UNCHANGED <<pc, cur, outcome, journal, events, boot>>
  BY <1>1, <1>2 DEF Submit, Handles, States
<1>4. /\ DOMAIN handle = 1..n /\ DOMAIN handle' = 1..n+1 /\ handle'[n + 1] = h
      /\ \A x \in 1..n : handle'[x] = handle[x]
      /\ handle' \in Seq(Handles) /\ Len(handle') = n + 1 /\ n + 1 \in Ids
  BY <1>2, <1>3, AppendProperties, LenProperties, ExecutionAssumption DEF IInv, Types, Ids
<1>5. Types'
  BY <1>2, <1>3, <1>4, ExecutionAssumption DEF IInv, Types
<1>6. Dated' /\ EventsAreRecorded' /\ Progress'
  BY <1>3 DEF IInv, Dated, EventsAreRecorded, Told, Progress
<1>7. Untouched'
  BY <1>3, <1>4 DEF IInv, Untouched, Now
<1>8. ASSUME NEW x \in DOMAIN handle' PROVE Sound(x)'
  <2>1. CASE x \in 1..n
    <3>1. x \in DOMAIN handle /\ Sound(x) /\ handle'[x] = handle[x]
      BY <1>4, <2>1 DEF IInv, JournalWellFormed, Sound
    <3> QED BY <1>3, <3>1, SoundUnwritten
  <2>2. CASE x = n + 1
    <3>1. x \in Ids /\ Now(x) = {} /\ x \notin DOMAIN handle
      BY <1>4, <2>2 DEF IInv, Untouched
    <3>2. Now(x)' = {} /\ journal'[x] \in Seq(JournalRecords)
      BY <1>3, <3>1 DEF Now, IInv, Types
    <3>3. PICK L \in Nat : L = Len(journal'[x])
      BY <3>2, LenProperties
    <3>4. (L + 1)..L = {} /\ L \in 0..L
      OBVIOUS
    <3> QED BY <3>2, <3>3, <3>4 DEF Sound
  <2> QED BY <1>4, <2>1, <2>2
<1>9. JournalWellFormed'
  BY <1>8 DEF JournalWellFormed, Sound
<1> QED BY <1>5, <1>6, <1>7, <1>9 DEF IInv

\* cancel: a pending execution has written nothing, and its terminal record is the first.
LEMMA CancelIInv ==
  ASSUME IInv, NEW id \in Ids, Cancel(id)
  PROVE  IInv'
<1>1. PICK h \in Handles : h = handle[id] /\ h.state = "pending" /\ id \in DOMAIN handle
  BY LenProperties, ElementOfSeq DEF Cancel, IInv, Types
<1>2. PICK k : k = [h EXCEPT !.state = "cancelled"]
  OBVIOUS
<1>3. /\ k \in Handles /\ k.state = "cancelled" /\ k.budget = h.budget
      /\ handle' = [handle EXCEPT ![id] = k]
      /\ pc = "idle" /\ UNCHANGED <<pc, cur, outcome, events, boot>>
      /\ Record(id, TerminalRecord("cancelled", 0)) \/ journal' = journal
  BY <1>1, <1>2 DEF Cancel, Handles, States, Terminal
<1>4. /\ handle' \in Seq(Handles) /\ Len(handle') = Len(handle) /\ DOMAIN handle' = DOMAIN handle
      /\ \A x \in DOMAIN handle : handle'[x] = IF x = id THEN k ELSE handle[x]
      /\ \A x \in DOMAIN handle : x \in Ids
  BY <1>1, <1>3, HandleWrite, LenProperties, ExecutionAssumption DEF IInv, Types, Ids
<1>5. Now(id) = {}
  BY <1>1 DEF IInv, Untouched
<1>6. Progress'
  BY <1>3 DEF Progress
<1>7. CASE journal' = journal
  <2>1. Types' /\ Dated' /\ EventsAreRecorded'
    <3>1. Types'
      BY <1>3, <1>4, <1>7 DEF IInv, Types
    <3>2. UNCHANGED <<journal, events, boot>>
      BY <1>3, <1>7
    <3>3. Dated' /\ EventsAreRecorded'
      BY <3>2 DEF IInv, Dated, EventsAreRecorded, Told
    <3> QED BY <3>1, <3>3
  <2>2. Untouched'
    BY <1>3, <1>4, <1>7 DEF IInv, Untouched, Now
  <2>3. ASSUME NEW x \in DOMAIN handle PROVE Sound(x)'
    <3>1. Sound(x)
      BY DEF IInv, JournalWellFormed, Sound
    <3> QED BY <1>1, <1>3, <1>4, <1>5, <1>7, <3>1, SoundUnwritten
  <2> QED BY <1>4, <1>6, <2>1, <2>2, <2>3 DEF IInv, JournalWellFormed, Sound
<1>8. CASE Record(id, TerminalRecord("cancelled", 0))
  <2>1. PICK rec : rec = TerminalRecord("cancelled", 0)
    OBVIOUS
  <2>2. /\ rec \in JournalRecords /\ Record(id, rec) /\ rec.boot = boot /\ rec.kind = "terminal"
        /\ rec.outcome = "cancelled"
    BY <1>8, <2>1 DEF TerminalRecord, JournalRecords, Terminal, IInv, Types
  <2>3. Types'
    BY <1>3, <1>4, <2>2, RecordWrite DEF IInv, Types
  <2>4. Dated'
    BY <1>3, <2>2, RecordDated DEF IInv
  <2>5. \A m \in DOMAIN events : ~(events[m].id = id /\ Tells(events[m], rec))
    BY <1>5, <2>2, ToldNow DEF IInv
  <2>6. EventsAreRecorded'
    BY <1>3, <2>2, <2>5, RecordKeepsEvents DEF IInv
  <2>7. /\ Now(id)' = {Len(journal[id]) + 1}
        /\ \A x \in Ids : x # id => Now(x)' = Now(x)
    BY <1>3, <1>5, <2>2, NowAfter DEF IInv
  <2>8. Untouched'
    BY <1>3, <1>4, <2>7 DEF IInv, Untouched
  <2>9. ASSUME NEW x \in DOMAIN handle PROVE Sound(x)'
    <3>1. CASE x # id
      <4>1. Sound(x) /\ journal'[x] = journal[x] /\ handle'[x] = handle[x]
        BY <1>4, <2>2, <3>1, RecordWrite DEF IInv, JournalWellFormed, Sound
      <4> QED BY <1>3, <4>1, SoundUnwritten
    <3>2. CASE x = id
      <4>1. PICK L \in Nat : L = Len(journal[id])
        BY LenProperties DEF IInv, Types
      <4>2. /\ Len(journal'[x]) = L + 1 /\ journal'[x][L + 1] = rec /\ Now(x)' = {L + 1}
            /\ handle'[x] = k
        BY <1>1, <1>4, <2>2, <2>7, <3>2, <4>1, RecordWrite DEF IInv
      <4>3. (L + 1)..L+1 = {L + 1} /\ L \in 0..L+1
        OBVIOUS
      <4> QED BY <1>3, <2>2, <4>2, <4>3 DEF Sound
    <3> QED BY <3>1, <3>2
  <2> QED BY <1>4, <1>6, <2>3, <2>4, <2>6, <2>8, <2>9 DEF IInv, JournalWellFormed, Sound
<1> QED BY <1>3, <1>7, <1>8

\* run: the first attempt begins, with nothing written.
LEMMA RunIInv ==
  ASSUME IInv, NEW id \in Ids, Run(id)
  PROVE  IInv'
<1>1. PICK h \in Handles : h = handle[id] /\ h.state = "pending" /\ id \in DOMAIN handle
  BY LenProperties, ElementOfSeq DEF Run, IInv, Types
<1>2. PICK k : k = [h EXCEPT !.state = "running", !.attempts = 1]
  OBVIOUS
<1>3. /\ k \in Handles /\ k.state = "running" /\ k.budget = h.budget /\ k.attempts = 1
      /\ k.budget \in Nat
      /\ handle' = [handle EXCEPT ![id] = k]
      /\ pc = "idle" /\ pc' = "record" /\ cur' = id /\ UNCHANGED <<outcome, journal, events, boot>>
  BY <1>1, <1>2, ExecutionAssumption DEF Run, Handles, States
<1>4. /\ handle' \in Seq(Handles) /\ Len(handle') = Len(handle) /\ DOMAIN handle' = DOMAIN handle
      /\ \A x \in DOMAIN handle : handle'[x] = IF x = id THEN k ELSE handle[x]
      /\ \A x \in DOMAIN handle : x \in Ids
  BY <1>1, <1>3, HandleWrite, LenProperties, ExecutionAssumption DEF IInv, Types, Ids
<1>5. Now(id) = {} /\ \A x : Now(x)' = Now(x)
  BY <1>1, <1>3 DEF IInv, Untouched, Now
<1>6. Types' /\ Dated' /\ EventsAreRecorded'
  <2>1. Types'
    BY <1>3, <1>4 DEF IInv, Types, PCs
  <2>2. Dated' /\ EventsAreRecorded'
    BY <1>3 DEF IInv, Dated, EventsAreRecorded, Told
  <2> QED BY <2>1, <2>2
<1>7. Untouched'
  BY <1>3, <1>4, <1>5 DEF IInv, Untouched
<1>8. Progress'
  <2>1. PICK L \in Nat : L = Len(journal[id])
    BY LenProperties DEF IInv, Types
  <2>2. (L + 1)..L = {} /\ L \in 0..L /\ L = L + 1 - 1 /\ 1 \in 1..k.budget + 1 /\ ~(1 > 1)
    BY <1>3
  <2>3. /\ cur' \in DOMAIN handle' /\ handle'[cur'] = k /\ Now(cur)' = {} /\ Len(journal'[cur']) = L
    BY <1>1, <1>3, <1>4, <1>5, <2>1
  <2>4. Written(cur, L)' /\ Attempts(cur, L, L + 1, L)'
    BY <2>2, <2>3 DEF Written, Attempts
  <2> QED BY <1>3, <2>2, <2>3, <2>4 DEF Progress
<1>9. ASSUME NEW x \in DOMAIN handle PROVE Sound(x)'
  <2>1. Sound(x)
    BY DEF IInv, JournalWellFormed, Sound
  <2> QED BY <1>1, <1>3, <1>4, <1>5, <2>1, SoundUnwritten
<1> QED BY <1>4, <1>6, <1>7, <1>8, <1>9 DEF IInv, JournalWellFormed, Sound

\* The run under way: its handle, and its journal of this boot from f to L.
Stage(h, L, f) ==
  /\ h = handle[cur] /\ cur \in DOMAIN handle /\ cur \in Ids /\ L = Len(journal[cur])
  /\ DOMAIN journal[cur] = 1..L /\ h.attempts \in 1..h.budget + 1 /\ h.budget \in Nat
  /\ pc \in {"record", "started", "runner"} => h.state = "running"
  /\ pc \in {"terminal", "announce"} => h.state \in {"completed", "failed", "timeout"}
  /\ pc \in {"record", "started"} /\ h.attempts > 1 => outcome = "nonzero"
  /\ Now(cur) = (f + 1)..L
  /\ pc = "record" => L = f + h.attempts - 1
  /\ pc \in {"started", "runner", "terminal"} => L = f + h.attempts
  /\ pc = "announce" => L = f + h.attempts + 1
  /\ pc # "announce" => Attempts(cur, f, f + 1, L)
  /\ \A i \in (f + 1)..L :
       Told(cur, i, Len(events)) <=> ~(pc \in {"started", "announce"} /\ i = L)
  /\ pc = "announce" => journal[cur][L] = TerminalRecord(h.state, h.attempts)
  /\ \A x \in DOMAIN handle : x \in Ids

LEMMA UnderWay ==
  ASSUME IInv, pc # "idle"
  PROVE  \E h \in Handles, L \in Nat : \E f \in 0..L : Stage(h, L, f)
<1>1. cur \in DOMAIN handle /\ cur \in Ids /\ \A x \in DOMAIN handle : x \in Ids
  BY LenProperties, ExecutionAssumption DEF IInv, Types, Progress, Ids
<1>2. PICK h \in Handles : h = handle[cur]
  BY <1>1, LenProperties, ElementOfSeq DEF IInv, Types
<1>3. PICK L \in Nat : L = Len(journal[cur]) /\ DOMAIN journal[cur] = 1..L
  BY LenProperties DEF IInv, Types
<1>4. h.budget \in Nat /\ h.attempts \in 1..h.budget + 1
  BY <1>2, ExecutionAssumption DEF IInv, Progress, Handles
<1>5. /\ pc \in {"record", "started", "runner"} => h.state = "running"
      /\ pc \in {"terminal", "announce"} => h.state \in {"completed", "failed", "timeout"}
      /\ pc \in {"record", "started"} /\ h.attempts > 1 => outcome = "nonzero"
      /\ pc = "announce" => journal[cur][L] = TerminalRecord(h.state, h.attempts)
  BY <1>2, <1>3 DEF IInv, Progress
<1>6. PICK f \in 0..L :
           /\ Now(cur) = (f + 1)..L
           /\ pc = "record" => L = f + h.attempts - 1
           /\ pc \in {"started", "runner", "terminal"} => L = f + h.attempts
           /\ pc = "announce" => L = f + h.attempts + 1
           /\ Attempts(cur, f, f + 1, IF pc = "announce" THEN L - 1 ELSE L)
           /\ \A i \in (f + 1)..L :
                Told(cur, i, Len(events)) <=> ~(pc \in {"started", "announce"} /\ i = L)
  BY <1>2, <1>3 DEF IInv, Progress, Written
<1>7. pc # "announce" => Attempts(cur, f, f + 1, L)
  BY <1>6
<1> QED BY <1>1, <1>2, <1>3, <1>4, <1>5, <1>6, <1>7 DEF Stage

\* What the bus has announced stays announced.
LEMMA ToldStays ==
  ASSUME Types, NEW x, NEW k, journal'[x][k] = journal[x][k], events' = events
  PROVE  Told(x, k, Len(events))' <=> Told(x, k, Len(events))
BY DEF Told, Tells

LEMMA RangeGrows ==
  ASSUME NEW L \in Nat, NEW f \in 0..L
  PROVE  (f + 1)..L+1 = ((f + 1)..L) \cup {L + 1}
OBVIOUS

LEMMA RecordAttemptIInv ==
  ASSUME IInv, RecordAttempt
  PROVE  IInv'
<1>1. pc = "record" /\ Types /\ EventsAreRecorded
  BY DEF RecordAttempt, IInv
<1>2. PICK h \in Handles, L \in Nat : \E f \in 0..L : Stage(h, L, f)
  BY <1>1, UnderWay
<1>3. PICK f \in 0..L :
           /\ h = handle[cur] /\ cur \in DOMAIN handle /\ cur \in Ids /\ L = Len(journal[cur])
           /\ DOMAIN journal[cur] = 1..L /\ h.attempts \in 1..h.budget + 1 /\ h.budget \in Nat
           /\ h.state = "running" /\ (h.attempts > 1 => outcome = "nonzero")
           /\ Now(cur) = (f + 1)..L /\ L = f + h.attempts - 1 /\ Attempts(cur, f, f + 1, L)
           /\ \A i \in (f + 1)..L : Told(cur, i, Len(events))
           /\ \A x \in DOMAIN handle : x \in Ids
  BY <1>1, <1>2 DEF Stage
<1>4. PICK id \in Ids : id = cur
  BY <1>3
<1>5. PICK rec : rec = Attempt(h.attempts)
  OBVIOUS
<1>6. /\ rec \in JournalRecords /\ rec.boot = boot /\ rec.kind = "attempt" /\ rec.attempt = h.attempts
      /\ Record(id, rec) /\ pc' = "started" /\ UNCHANGED <<handle, cur, outcome, events, boot>>
  BY <1>1, <1>3, <1>4, <1>5 DEF RecordAttempt, Attempt, JournalRecords, Types
<1>7. /\ journal' \in [Ids -> Seq(JournalRecords)] /\ Len(journal'[id]) = L + 1
      /\ \A x \in Ids : x # id => journal'[x] = journal[x]
      /\ journal'[id][L + 1] = rec /\ \A i \in 1..L : journal'[id][i] = journal[id][i]
  <2>1. Len(journal[id]) = L
    BY <1>3, <1>4
  <2>2. /\ journal' \in [Ids -> Seq(JournalRecords)]
        /\ Len(journal'[id]) = Len(journal[id]) + 1
        /\ \A x \in Ids : x # id => journal'[x] = journal[x]
        /\ journal'[id][Len(journal[id]) + 1] = rec
        /\ \A i \in 1..Len(journal[id]) : journal'[id][i] = journal[id][i]
    BY <1>1, <1>6, RecordWrite
  <2> QED BY <2>1, <2>2
<1>8. Now(id)' = (f + 1)..L+1 /\ \A x \in Ids : x # id => Now(x)' = Now(x)
  <2>1. Now(id)' = Now(id) \cup {L + 1} /\ \A x \in Ids : x # id => Now(x)' = Now(x)
    BY <1>1, <1>3, <1>4, <1>6, NowAfter
  <2>2. (f + 1)..L+1 = ((f + 1)..L) \cup {L + 1}
    BY RangeGrows
  <2> QED BY <1>3, <1>4, <2>1, <2>2
<1>9. \A m \in DOMAIN events : ~(events[m].id = id /\ Tells(events[m], rec))
  <2> SUFFICES ASSUME NEW m \in DOMAIN events, events[m].id = id, Tells(events[m], rec) PROVE FALSE
    OBVIOUS
  <2>1. PICK i \in Now(id) : journal[id][i].attempt = h.attempts
    BY <1>1, <1>6, ToldNow
  <2>2. i \in (f + 1)..L /\ journal[id][i].attempt = i - f
    BY <1>3, <1>4, <2>1 DEF Attempts
  <2> QED BY <1>3, <2>1, <2>2
<1>10. Types'
  BY <1>6, <1>7 DEF IInv, Types, PCs
<1>11. Dated' /\ EventsAreRecorded'
  BY <1>4, <1>6, <1>9, RecordDated, RecordKeepsEvents DEF IInv
<1>12. Untouched'
  BY <1>3, <1>4, <1>6, <1>8 DEF IInv, Untouched
<1>13. Attempts(id, f, f + 1, L + 1)'
  <2> SUFFICES ASSUME NEW i \in (f + 1)..L+1
               PROVE  journal'[id][i].kind = "attempt" /\ journal'[id][i].attempt = i - f
    BY DEF Attempts
  <2>1. CASE i \in (f + 1)..L
    <3>1. i \in 1..L /\ journal'[id][i] = journal[id][i]
      BY <1>3, <1>7, <2>1
    <3> QED BY <1>3, <1>4, <2>1, <3>1 DEF Attempts
  <2>2. CASE i = L + 1
    <3>1. h.attempts = i - f /\ journal'[id][i] = rec
      BY SMTT(30), <1>3, <1>7, <2>2
    <3> QED BY <1>6, <3>1
  <2> QED BY <2>1, <2>2
<1>14. Progress'
  <2>1. \A i \in (f + 1)..L+1 : Told(id, i, Len(events))' <=> i # L + 1
    <3> SUFFICES ASSUME NEW i \in (f + 1)..L+1 PROVE Told(id, i, Len(events))' <=> i # L + 1
      OBVIOUS
    <3>1. CASE i \in (f + 1)..L
      <4>1. i \in 1..L /\ journal'[id][i] = journal[id][i] /\ i # L + 1
        BY <1>3, <1>7, <3>1
      <4>2. Told(id, i, Len(events))
        BY <1>3, <1>4, <3>1
      <4> QED BY <1>1, <1>6, <4>1, <4>2, ToldStays
    <3>2. CASE i = L + 1
      <4>1. PICK N \in Nat : N = Len(events) /\ DOMAIN events = 1..N
        BY LenProperties DEF IInv, Types
      <4> QED BY <1>6, <1>7, <1>9, <3>2, <4>1 DEF Told, Tells
    <3> QED BY <3>1, <3>2
  <2>2. /\ f \in 0..L+1 /\ L + 1 = f + h.attempts /\ Written(id, f)'
    <3>1. f \in 0..L+1 /\ L + 1 = f + h.attempts
      BY <1>3
    <3>2. Written(id, f)'
      BY <1>7, <1>8, <3>1 DEF Written
    <3> QED BY <3>1, <3>2
  <2> QED BY <1>3, <1>4, <1>6, <1>7, <1>13, <2>1, <2>2 DEF Progress
<1>15. ASSUME NEW x \in DOMAIN handle PROVE Sound(x)'
  <2>1. CASE x # id
    <3>1. Sound(x) /\ x \in Ids
      BY <1>3 DEF IInv, JournalWellFormed, Sound
    <3> QED BY <1>4, <1>6, <1>7, <2>1, <3>1, SoundUnwritten
  <2>2. CASE x = id
    <3>1. \A i \in (f + 1)..L+1 :
            /\ journal'[id][i].kind = "attempt" /\ journal'[id][i].attempt = i - f
            /\ i - f <= h.budget + 1 /\ (i - f > 1 => outcome = "nonzero")
      BY <1>3, <1>13 DEF Attempts
    <3>2. f \in 0..L+1 /\ handle'[id] = h /\ outcome' = outcome
      BY <1>3, <1>4, <1>6
    <3> QED BY <1>7, <1>8, <2>2, <3>1, <3>2 DEF Sound
  <2> QED BY <2>1, <2>2
<1> QED BY <1>6, <1>10, <1>11, <1>12, <1>14, <1>15 DEF IInv, JournalWellFormed, Sound

\* An event of the last record leaves all of them announced.
LEMMA EmitTells ==
  ASSUME Types, NEW id \in Ids, NEW name \in {"started"} \cup Terminal, NEW a \in Nat,
         Emit(id, name, a), journal' = journal, NEW k,
         \/ Told(id, k, Len(events))
         \/ Tells([id |-> id, attempt |-> a, name |-> name, boot |-> boot], journal[id][k])
  PROVE  Told(id, k, Len(events))'
<1>1. PICK N \in Nat : N = Len(events)
  BY LenProperties DEF Types
<1>2. PICK e : e = [id |-> id, attempt |-> a, name |-> name, boot |-> boot]
  OBVIOUS
<1>3. /\ DOMAIN events' = 1..N+1 /\ Len(events') = N + 1 /\ events'[N + 1] = e /\ e.id = id
      /\ \A n \in 1..N : events'[n] = events[n]
  BY <1>1, <1>2, EmitWrite
<1>4. \E m \in 1..N+1 : events'[m].id = id /\ Tells(events'[m], journal[id][k])
  <2>1. CASE Told(id, k, N)
    <3>1. PICK m \in 1..N : events[m].id = id /\ Tells(events[m], journal[id][k])
      BY <2>1 DEF Told
    <3>2. m \in 1..N+1 /\ events'[m] = events[m]
      BY <1>3, <3>1
    <3> QED BY <3>1, <3>2
  <2>2. CASE Tells(e, journal[id][k])
    <3>1. N + 1 \in 1..N+1
      OBVIOUS
    <3> QED BY <1>3, <2>2, <3>1
  <2> QED BY <1>1, <1>2, <2>1, <2>2
<1> QED BY <1>3, <1>4 DEF Told, Tells

LEMMA EmitStartedIInv ==
  ASSUME IInv, EmitStarted
  PROVE  IInv'
<1>1. pc = "started" /\ Types /\ EventsAreRecorded
  BY DEF EmitStarted, IInv
<1>2. PICK h \in Handles, L \in Nat : \E f \in 0..L : Stage(h, L, f)
  BY <1>1, UnderWay
<1>3. PICK f \in 0..L :
           /\ h = handle[cur] /\ cur \in DOMAIN handle /\ cur \in Ids /\ L = Len(journal[cur])
           /\ DOMAIN journal[cur] = 1..L /\ h.attempts \in 1..h.budget + 1 /\ h.budget \in Nat
           /\ h.state = "running"
           /\ Now(cur) = (f + 1)..L /\ L = f + h.attempts /\ Attempts(cur, f, f + 1, L)
           /\ \A i \in (f + 1)..L : Told(cur, i, Len(events)) <=> i # L
           /\ \A x \in DOMAIN handle : x \in Ids
  BY <1>1, <1>2 DEF Stage
<1>4. PICK id \in Ids : id = cur
  BY <1>3
<1>5. /\ Emit(id, "started", h.attempts) /\ h.attempts \in Nat /\ pc' = "runner"
      /\ UNCHANGED <<handle, cur, outcome, journal, boot>>
  BY <1>3, <1>4 DEF EmitStarted
<1>6. L \in (f + 1)..L /\ journal[id] # <<>>
  <2>1. L \in (f + 1)..L
    BY <1>3
  <2> QED BY <1>3, <1>4, <2>1
<1>7. journal[id][L].kind = "attempt" /\ journal[id][L].attempt = h.attempts
      /\ journal[id][L].boot = boot
  <2>1. h.attempts = L - f /\ L \in Now(id)
    BY <1>3, <1>4, <1>6
  <2>2. journal[id][L].kind = "attempt" /\ journal[id][L].attempt = L - f
    BY <1>3, <1>4, <1>6 DEF Attempts
  <2> QED BY <2>1, <2>2 DEF Now
<1>8. Tells([id |-> id, attempt |-> h.attempts, name |-> "started", boot |-> boot], journal[id][L])
  BY <1>7 DEF Tells
<1>9. EventsAreRecorded'
  BY <1>1, <1>3, <1>4, <1>5, <1>6, <1>8, EmitKeepsEvents
<1>10. Types'
  BY <1>5, EmitWrite DEF IInv, Types, PCs
<1>11. Dated'
  BY <1>5, EmitDated DEF IInv
<1>12. (\A x : Now(x)' = Now(x)) /\ Untouched'
  BY <1>5 DEF IInv, Untouched, Now
<1>13. \A i \in (f + 1)..L : Told(id, i, Len(events))'
  BY <1>1, <1>3, <1>4, <1>5, <1>8, EmitTells
<1>14. Progress'
  <2>1. Written(id, f)' /\ Attempts(id, f, f + 1, L)'
    BY <1>3, <1>4, <1>5, <1>12 DEF Written, Attempts
  <2> QED BY <1>3, <1>4, <1>5, <1>13, <2>1 DEF Progress
<1>15. ASSUME NEW x \in DOMAIN handle PROVE Sound(x)'
  <2>1. Sound(x)
    BY DEF IInv, JournalWellFormed, Sound
  <2> QED BY <1>5, <2>1, SoundUnwritten
<1> QED BY <1>5, <1>9, <1>10, <1>11, <1>12, <1>14, <1>15 DEF IInv, JournalWellFormed, Sound

\* The child process ends: another attempt, or the state the loop leaves with.
LEMMA RunAttemptIInv ==
  ASSUME IInv, NEW out \in RunnerOutcomes, RunAttempt(out)
  PROVE  IInv'
<1>1. pc = "runner" /\ Types /\ EventsAreRecorded
  BY DEF RunAttempt, IInv
<1>2. PICK h \in Handles, L \in Nat : \E f \in 0..L : Stage(h, L, f)
  BY <1>1, UnderWay
<1>3. PICK f \in 0..L :
           /\ h = handle[cur] /\ cur \in DOMAIN handle /\ cur \in Ids /\ L = Len(journal[cur])
           /\ DOMAIN journal[cur] = 1..L /\ h.attempts \in 1..h.budget + 1 /\ h.budget \in Nat
           /\ h.state = "running"
           /\ Now(cur) = (f + 1)..L /\ L = f + h.attempts /\ Attempts(cur, f, f + 1, L)
           /\ \A i \in (f + 1)..L : Told(cur, i, Len(events))
           /\ \A x \in DOMAIN handle : x \in Ids
  BY <1>1, <1>2 DEF Stage
<1>4. PICK k \in Handles :
        /\ handle' = [handle EXCEPT ![cur] = k] /\ k.budget = h.budget
        /\ \/ /\ pc' = "record" /\ k.attempts = h.attempts + 1 /\ k.state = "running"
              /\ k.attempts <= h.budget + 1 /\ out = "nonzero"
           \/ /\ pc' = "terminal" /\ k.attempts = h.attempts
              /\ k.state \in {"completed", "failed", "timeout"}
  <2>1. CASE Retries(out, h)
    <3>1. PICK k : k = [h EXCEPT !.attempts = h.attempts + 1]
      OBVIOUS
    <3>2. k \in Handles /\ k.budget = h.budget /\ k.attempts = h.attempts + 1 /\ k.state = "running"
      BY <1>3, <3>1 DEF Handles
    <3>3. handle' = [handle EXCEPT ![cur] = k] /\ pc' = "record"
      BY <1>3, <2>1, <3>1 DEF RunAttempt
    <3>4. k.attempts <= h.budget + 1 /\ out = "nonzero"
      BY <1>3, <2>1, <3>2 DEF Retries
    <3> QED BY <3>2, <3>3, <3>4
  <2>2. CASE ~Retries(out, h)
    <3>1. PICK st : st = StateOf(out)
      OBVIOUS
    <3>2. st \in {"completed", "failed", "timeout"} /\ st \in States
      BY <3>1 DEF StateOf, RunnerOutcomes, States, Terminal
    <3>3. PICK k : k = [h EXCEPT !.state = st]
      OBVIOUS
    <3>4. k \in Handles /\ k.budget = h.budget /\ k.attempts = h.attempts /\ k.state = st
      BY <3>2, <3>3 DEF Handles
    <3>5. handle' = [handle EXCEPT ![cur] = k] /\ pc' = "terminal"
      BY <1>3, <2>2, <3>1, <3>3 DEF RunAttempt
    <3> QED BY <3>2, <3>4, <3>5
  <2> QED BY <2>1, <2>2
<1>5. PICK id \in Ids : id = cur
  BY <1>3
<1>6. /\ outcome' = out /\ UNCHANGED <<cur, journal, events, boot>>
      /\ handle' \in Seq(Handles) /\ Len(handle') = Len(handle) /\ DOMAIN handle' = DOMAIN handle
      /\ \A x \in DOMAIN handle : handle'[x] = IF x = id THEN k ELSE handle[x]
  BY <1>1, <1>3, <1>4, <1>5, HandleWrite DEF RunAttempt
<1>7. Types'
  BY <1>4, <1>6 DEF IInv, Types, PCs
<1>8. Dated' /\ EventsAreRecorded'
  <2>1. UNCHANGED <<journal, events, boot>>
    BY <1>6
  <2> QED BY <2>1 DEF IInv, Dated, EventsAreRecorded, Told
<1>9. \A x : Now(x)' = Now(x)
  BY <1>6 DEF Now
<1>10. Untouched'
  BY <1>3, <1>4, <1>5, <1>6, <1>9 DEF IInv, Untouched
<1>11. Progress'
  <2>1. Written(id, f)' /\ Attempts(id, f, f + 1, L)' /\ Len(journal'[id]) = L
    BY <1>3, <1>5, <1>6, <1>9 DEF Written, Attempts
  <2>2. \A i \in (f + 1)..L : Told(id, i, Len(events))'
    <3>1. UNCHANGED <<journal, events>>
      BY <1>6
    <3>2. \A i \in (f + 1)..L : Told(id, i, Len(events))
      BY <1>3, <1>5
    <3> QED BY <1>1, <3>1, <3>2, ToldStays
  <2>3. id \in DOMAIN handle' /\ handle'[id] = k /\ cur' = id
    BY <1>3, <1>5, <1>6
  <2>4. CASE pc' = "record"
    <3>1. /\ k.attempts \in 1..k.budget + 1 /\ L = f + k.attempts - 1 /\ out = "nonzero"
          /\ k.state = "running"
      BY <1>3, <1>4, <2>4
    <3> QED BY <1>6, <2>1, <2>2, <2>3, <2>4, <3>1 DEF Progress
  <2>5. CASE pc' = "terminal"
    <3>1. /\ k.attempts \in 1..k.budget + 1 /\ L = f + k.attempts
          /\ k.state \in {"completed", "failed", "timeout"}
      BY <1>3, <1>4, <2>5
    <3> QED BY <1>6, <2>1, <2>2, <2>3, <2>5, <3>1 DEF Progress
  <2> QED BY <1>4, <2>4, <2>5
<1>12. ASSUME NEW x \in DOMAIN handle PROVE Sound(x)'
  <2>1. Sound(x)
    BY DEF IInv, JournalWellFormed, Sound
  <2>2. \/ handle'[x].state = handle[x].state
        \/ \A i \in Now(x) : journal[x][i].kind = "attempt"
    BY <1>3, <1>5, <1>6 DEF Attempts
  <2>3. handle'[x].budget = handle[x].budget /\ pc' # "started"
    BY <1>3, <1>4, <1>5, <1>6
  <2> QED BY <1>6, <2>1, <2>2, <2>3, SoundUnwritten
<1> QED BY <1>6, <1>7, <1>8, <1>10, <1>11, <1>12 DEF IInv, JournalWellFormed, Sound

LEMMA RecordTerminalIInv ==
  ASSUME IInv, RecordTerminal
  PROVE  IInv'
<1>1. pc = "terminal" /\ Types /\ EventsAreRecorded
  BY DEF RecordTerminal, IInv
<1>2. PICK h \in Handles, L \in Nat : \E f \in 0..L : Stage(h, L, f)
  BY <1>1, UnderWay
<1>3. PICK f \in 0..L :
           /\ h = handle[cur] /\ cur \in DOMAIN handle /\ cur \in Ids /\ L = Len(journal[cur])
           /\ DOMAIN journal[cur] = 1..L /\ h.attempts \in 1..h.budget + 1 /\ h.budget \in Nat
           /\ h.state \in {"completed", "failed", "timeout"}
           /\ Now(cur) = (f + 1)..L /\ L = f + h.attempts /\ Attempts(cur, f, f + 1, L)
           /\ \A i \in (f + 1)..L : Told(cur, i, Len(events))
           /\ \A x \in DOMAIN handle : x \in Ids
  BY <1>1, <1>2 DEF Stage
<1>4. PICK id \in Ids : id = cur
  BY <1>3
<1>5. PICK rec : rec = TerminalRecord(h.state, h.attempts)
  OBVIOUS
<1>6. /\ rec \in JournalRecords /\ rec.boot = boot /\ rec.kind = "terminal" /\ rec.outcome = h.state
      /\ Record(id, rec) /\ pc' = "announce" /\ UNCHANGED <<handle, cur, outcome, events, boot>>
  BY <1>1, <1>3, <1>4, <1>5 DEF RecordTerminal, TerminalRecord, JournalRecords, Types, Terminal
<1>7. /\ journal' \in [Ids -> Seq(JournalRecords)] /\ Len(journal'[id]) = L + 1
      /\ \A x \in Ids : x # id => journal'[x] = journal[x]
      /\ journal'[id][L + 1] = rec /\ \A i \in 1..L : journal'[id][i] = journal[id][i]
  <2>1. Len(journal[id]) = L
    BY <1>3, <1>4
  <2>2. /\ journal' \in [Ids -> Seq(JournalRecords)]
        /\ Len(journal'[id]) = Len(journal[id]) + 1
        /\ \A x \in Ids : x # id => journal'[x] = journal[x]
        /\ journal'[id][Len(journal[id]) + 1] = rec
        /\ \A i \in 1..Len(journal[id]) : journal'[id][i] = journal[id][i]
    BY <1>1, <1>6, RecordWrite
  <2> QED BY <2>1, <2>2
<1>8. Now(id)' = (f + 1)..L+1 /\ \A x \in Ids : x # id => Now(x)' = Now(x)
  <2>1. Now(id)' = Now(id) \cup {L + 1} /\ \A x \in Ids : x # id => Now(x)' = Now(x)
    BY <1>1, <1>3, <1>4, <1>6, NowAfter
  <2>2. (f + 1)..L+1 = ((f + 1)..L) \cup {L + 1}
    BY RangeGrows
  <2> QED BY <1>3, <1>4, <2>1, <2>2
<1>9. \A m \in DOMAIN events : ~(events[m].id = id /\ Tells(events[m], rec))
  <2> SUFFICES ASSUME NEW m \in DOMAIN events, events[m].id = id, Tells(events[m], rec) PROVE FALSE
    OBVIOUS
  <2>1. PICK i \in Now(id) :
          (IF journal[id][i].kind = "attempt" THEN "started" ELSE journal[id][i].outcome) = h.state
    BY <1>1, <1>6, ToldNow
  <2>2. journal[id][i].kind = "attempt"
    BY <1>3, <1>4, <2>1 DEF Attempts
  <2> QED BY <1>3, <2>1, <2>2
<1>10. Types'
  BY <1>6, <1>7 DEF IInv, Types, PCs
<1>11. Dated' /\ EventsAreRecorded'
  BY <1>4, <1>6, <1>9, RecordDated, RecordKeepsEvents DEF IInv
<1>12. Untouched'
  BY <1>3, <1>4, <1>6, <1>8 DEF IInv, Untouched
<1>13. \A i \in (f + 1)..L : /\ journal'[id][i] = journal[id][i]
                             /\ journal'[id][i].kind = "attempt" /\ journal'[id][i].attempt = i - f
  <2> SUFFICES ASSUME NEW i \in (f + 1)..L
               PROVE  /\ journal'[id][i] = journal[id][i]
                      /\ journal'[id][i].kind = "attempt" /\ journal'[id][i].attempt = i - f
    OBVIOUS
  <2>1. i \in 1..L /\ journal'[id][i] = journal[id][i]
    BY <1>3, <1>7
  <2> QED BY <1>3, <1>4, <2>1 DEF Attempts
<1>14. Progress'
  <2>1. \A i \in (f + 1)..L+1 : Told(id, i, Len(events))' <=> i # L + 1
    <3> SUFFICES ASSUME NEW i \in (f + 1)..L+1 PROVE Told(id, i, Len(events))' <=> i # L + 1
      OBVIOUS
    <3>1. CASE i \in (f + 1)..L
      <4>1. Told(id, i, Len(events)) /\ i # L + 1
        BY <1>3, <1>4, <3>1
      <4> QED BY <1>1, <1>6, <1>13, <3>1, <4>1, ToldStays
    <3>2. CASE i = L + 1
      <4>1. PICK N \in Nat : N = Len(events) /\ DOMAIN events = 1..N
        BY LenProperties DEF IInv, Types
      <4> QED BY <1>6, <1>7, <1>9, <3>2, <4>1 DEF Told, Tells
    <3> QED BY <3>1, <3>2
  <2>2. /\ f \in 0..L+1 /\ L + 1 = f + h.attempts + 1 /\ Written(id, f)' /\ L + 1 - 1 = L
    BY <1>3, <1>7, <1>8 DEF Written
  <2>3. Attempts(id, f, f + 1, L)'
    BY <1>13 DEF Attempts
  <2>4. /\ cur' = id /\ handle'[id] = h /\ Len(journal'[id]) = L + 1 /\ pc' = "announce"
        /\ id \in DOMAIN handle' /\ h.attempts \in 1..h.budget + 1
        /\ h.state \in {"completed", "failed", "timeout"}
    BY <1>3, <1>4, <1>6, <1>7
  <2>5. /\ Written(cur, f)' /\ Attempts(cur, f, f + 1, L)'
        /\ \A i \in (f + 1)..L+1 : Told(cur, i, Len(events))' <=> i # L + 1
    BY <2>1, <2>2, <2>3, <2>4
  <2>6. journal'[id][L + 1] = TerminalRecord(h.state, h.attempts)'
    BY <1>5, <1>6, <1>7 DEF TerminalRecord
  <2> QED BY SMTT(30), <2>2, <2>4, <2>5, <2>6 DEF Progress
<1>15. ASSUME NEW x \in DOMAIN handle PROVE Sound(x)'
  <2>1. CASE x # id
    <3>1. Sound(x) /\ x \in Ids
      BY <1>3 DEF IInv, JournalWellFormed, Sound
    <3> QED BY <1>4, <1>6, <1>7, <2>1, <3>1, SoundUnwritten
  <2>2. CASE x = id
    <3>1. \A i \in (f + 1)..L+1 :
            \/ /\ journal'[id][i].kind = "attempt" /\ journal'[id][i].attempt = i - f
               /\ i - f <= h.budget + 1
            \/ journal'[id][i].kind = "terminal" /\ i = L + 1 /\ journal'[id][i].outcome = h.state
      <4> SUFFICES ASSUME NEW i \in (f + 1)..L+1
                   PROVE  \/ /\ journal'[id][i].kind = "attempt" /\ journal'[id][i].attempt = i - f
                             /\ i - f <= h.budget + 1
                          \/ /\ journal'[id][i].kind = "terminal" /\ i = L + 1
                             /\ journal'[id][i].outcome = h.state
        OBVIOUS
      <4>1. CASE i \in (f + 1)..L
        BY SMTT(30), <1>3, <1>13, <4>1
      <4>2. CASE i = L + 1
        BY <1>6, <1>7, <4>2
      <4> QED BY <4>1, <4>2
    <3>2. f \in 0..L+1 /\ handle'[id] = h /\ pc' # "started"
      BY <1>3, <1>4, <1>6
    <3> QED BY <1>7, <1>8, <2>2, <3>1, <3>2 DEF Sound
  <2> QED BY <2>1, <2>2
<1> QED BY <1>6, <1>10, <1>11, <1>12, <1>14, <1>15 DEF IInv, JournalWellFormed, Sound

LEMMA EmitTerminalIInv ==
  ASSUME IInv, EmitTerminal
  PROVE  IInv'
<1>1. pc = "announce" /\ Types /\ EventsAreRecorded
  BY DEF EmitTerminal, IInv
<1>2. PICK h \in Handles, L \in Nat : \E f \in 0..L : Stage(h, L, f)
  BY <1>1, UnderWay
<1>3. PICK f \in 0..L :
           /\ h = handle[cur] /\ cur \in DOMAIN handle /\ cur \in Ids /\ L = Len(journal[cur])
           /\ DOMAIN journal[cur] = 1..L /\ h.attempts \in 1..h.budget + 1 /\ h.budget \in Nat
           /\ h.state \in {"completed", "failed", "timeout"}
           /\ Now(cur) = (f + 1)..L /\ L = f + h.attempts + 1
           /\ \A i \in (f + 1)..L : Told(cur, i, Len(events)) <=> i # L
           /\ journal[cur][L] = TerminalRecord(h.state, h.attempts)
  BY <1>1, <1>2 DEF Stage
<1>4. PICK id \in Ids : id = cur
  BY <1>3
<1>5. /\ Emit(id, h.state, h.attempts) /\ h.attempts \in Nat /\ h.state \in Terminal /\ pc' = "idle"
      /\ UNCHANGED <<handle, cur, outcome, journal, boot>>
  BY <1>3, <1>4 DEF EmitTerminal, Terminal
<1>6. journal[id] # <<>>
  <2>1. L \in (f + 1)..L
    BY <1>3
  <2> QED BY <1>3, <1>4, <2>1
<1>7. Tells([id |-> id, attempt |-> h.attempts, name |-> h.state, boot |-> boot], journal[id][L])
  BY <1>3, <1>4 DEF Tells, TerminalRecord
<1>8. EventsAreRecorded'
  BY <1>1, <1>3, <1>4, <1>5, <1>6, <1>7, EmitKeepsEvents
<1>9. Types'
  BY <1>5, EmitWrite DEF IInv, Types, PCs
<1>10. Dated'
  BY <1>5, EmitDated DEF IInv
<1>11. Untouched' /\ Progress'
  BY <1>5 DEF IInv, Untouched, Now, Progress
<1>12. ASSUME NEW x \in DOMAIN handle PROVE Sound(x)'
  <2>1. Sound(x)
    BY DEF IInv, JournalWellFormed, Sound
  <2> QED BY <1>5, <2>1, SoundUnwritten
<1> QED BY <1>5, <1>8, <1>9, <1>10, <1>11, <1>12 DEF IInv, JournalWellFormed, Sound

\* A call that raises, like a step of no process, leaves what is written as it is.
LEMMA RaiseIInv ==
  ASSUME IInv, pc' \in {pc, "idle"}, UNCHANGED <<handle, cur, outcome, journal, events, boot>>
  PROVE  IInv'
<1>1. Types'
  BY DEF IInv, Types, PCs
<1>2. Dated' /\ EventsAreRecorded' /\ Untouched'
  BY DEF IInv, Dated, EventsAreRecorded, Told, Untouched, Now
<1>3. \A x : Now(x)' = Now(x)
  BY DEF Now
<1>4. Progress'
  <2>1. CASE pc' = "idle"
    BY <2>1 DEF Progress
  <2>2. CASE pc' = pc
    BY SMTT(30), <1>3, <2>2 DEF IInv, Progress, Written, Attempts, Told, TerminalRecord
  <2> QED BY <2>1, <2>2
<1>5. JournalWellFormed'
  BY <1>3 DEF IInv, JournalWellFormed
<1> QED BY <1>1, <1>2, <1>4, <1>5 DEF IInv

\* A reboot has no handles, and nothing on disk is of its boot.
LEMMA RebootIInv ==
  ASSUME IInv, Reboot
  PROVE  IInv'
<1>1. /\ boot' = boot + 1 /\ boot \in Nat /\ handle' = <<>> /\ pc' = "idle"
      /\ UNCHANGED <<cur, outcome, journal, events>>
  BY DEF Reboot, IInv, Types
<1>2. Types'
  BY <1>1, ExecutionAssumption DEF IInv, Types, PCs
<1>3. ASSUME NEW id \in Ids, NEW i \in DOMAIN journal[id]
      PROVE  journal[id][i].boot <= boot + 1 /\ journal[id][i].boot # boot + 1
  <2>1. journal[id][i] \in JournalRecords
    BY LenProperties, ElementOfSeq DEF IInv, Types
  <2>2. journal[id][i].boot \in Nat /\ journal[id][i].boot <= boot
    BY <2>1 DEF JournalRecords, IInv, Dated
  <2> QED BY <1>1, <2>2
<1>4. ASSUME NEW n \in DOMAIN events PROVE events[n].boot <= boot + 1
  <2>1. events[n] \in BusEvents
    BY LenProperties, ElementOfSeq DEF IInv, Types
  <2>2. events[n].boot \in Nat /\ events[n].boot <= boot
    BY <2>1 DEF BusEvents, IInv, Dated
  <2> QED BY <1>1, <2>2
<1>5. Dated' /\ Untouched'
  BY <1>1, <1>3, <1>4 DEF Dated, Untouched, Now
<1>6. EventsAreRecorded' /\ Progress' /\ JournalWellFormed'
  BY <1>1 DEF IInv, EventsAreRecorded, Told, Progress, JournalWellFormed
<1> QED BY <1>2, <1>5, <1>6 DEF IInv

LEMMA NextIInv == IInv /\ [Next]_vars => IInv'
<1> SUFFICES ASSUME IInv, [Next]_vars PROVE IInv'
  OBVIOUS
<1>1. ASSUME NEW b \in RetryBudgets, Submit(b) PROVE IInv'
  BY <1>1, SubmitIInv
<1>2. ASSUME NEW id \in Ids, Cancel(id) PROVE IInv'
  BY <1>2, CancelIInv
<1>3. ASSUME NEW id \in Ids, Run(id) PROVE IInv'
  BY <1>3, RunIInv
<1>4. CASE RecordAttempt
  BY <1>4, RecordAttemptIInv
<1>5. CASE EmitStarted
  BY <1>5, EmitStartedIInv
<1>6. ASSUME NEW out \in RunnerOutcomes, RunAttempt(out) PROVE IInv'
  BY <1>6, RunAttemptIInv
<1>7. CASE RecordTerminal
  BY <1>7, RecordTerminalIInv
<1>8. CASE EmitTerminal
  BY <1>8, EmitTerminalIInv
<1>9. CASE Raise
  BY <1>9, RaiseIInv DEF Raise
<1>10. CASE Reboot
  BY <1>10, RebootIInv
<1>11. CASE UNCHANGED vars
  BY <1>11, RaiseIInv DEF vars
<1> QED BY <1>1, <1>2, <1>3, <1>4, <1>5, <1>6, <1>7, <1>8, <1>9, <1>10, <1>11 DEF Next, RunStep

\* THEOREM: whichever calls raise and wherever the process dies, every event that the bus
\* ever accepted tells of a record that was on disk before it, in the order of the records
\* of its boot; and what one boot wrote of an execution is its attempts in order, within the
\* budget, and at most one terminal record, last, which names the state of the handle.
THEOREM JournalIsSound == Spec => []JournalSound
<1>1. IInv => JournalSound
  BY DEF IInv, JournalSound
<1> QED BY <1>1, InitIInv, NextIInv, PTL DEF Spec
=============================================================================
