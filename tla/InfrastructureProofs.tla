------------------------ MODULE InfrastructureProofs ------------------------
(***************************************************************************)
(* Proofs about the two services every component is injected with, and     *)
(* about the dispatcher that journals through one of them.                 *)
(*                                                                         *)
(* Bus, for any topics, subscriptions, queue depth, number of attempts and *)
(* faults of Storage: what every subscriber is given is what was           *)
(* published, once and in order; it is in the log before; and no Bus ever  *)
(* overwrites an entry of a log.                                           *)
(*                                                                         *)
(* Store, for any processes, keys, values and number of writes: with no    *)
(* short os.write, the lock admits one writer, no file is ever torn, what  *)
(* write() reports is true, and the store implements AtomicStore.          *)
(*                                                                         *)
(* Workflow, for any artifact: a run respects dependencies and selections, *)
(* its status is honest, and its journal replays to the run in memory.     *)
(***************************************************************************)
EXTENDS Bus, Store, Workflow, SequenceTheorems, NaturalsInduction,
        WellFoundedInduction, TLAPS

-----------------------------------------------------------------------------
(* Facts about sequences that the delivery loop rests on.                  *)

\* The loop moves the head of its batch to what was handled.
LEMMA MoveHead ==
  ASSUME NEW h \in Seq(Nat), NEW b \in Seq(Nat), b # <<>>
  PROVE  Append(h, Head(b)) \o Tail(b) = h \o b
BY HeadTailProperties, SMT

\* A drain hands over the whole queue, and so does the start of a delivery.
LEMMA MoveQueue ==
  ASSUME NEW h \in Seq(Nat), NEW q \in Seq(Nat)
  PROVE  /\ ((h \o q) \o <<>>) \o <<>> = (h \o <<>>) \o q
         /\ (h \o q) \o <<>> = (h \o <<>>) \o q
BY ConcatEmptySeq, ConcatProperties

\* A publish appends to what was accepted and to the queue alike.
LEMMA AppendLast ==
  ASSUME NEW p \in Seq(Nat), NEW q \in Seq(Nat), NEW m \in Nat
  PROVE  Append(p \o q, m) = p \o Append(q, m)
<1>1. p \o q \in Seq(Nat) /\ <<m>> \in Seq(Nat)
  BY ConcatProperties
<1>2. Append(p \o q, m) = (p \o q) \o <<m>> /\ Append(q, m) = q \o <<m>>
  BY <1>1, AppendIsConcat
<1> QED BY <1>1, <1>2, ConcatAssociative

Increasing(q) == \A i, j \in 1..Len(q) : i < j => q[i] < q[j]
Below(q, n) == \A i \in 1..Len(q) : q[i] < n

\* Messages are numbered in the order of publish: the next one is larger.
LEMMA AppendIncreasing ==
  ASSUME NEW q \in Seq(Nat), NEW n \in Nat, Increasing(q), Below(q, n)
  PROVE  /\ Append(q, n) \in Seq(Nat)
         /\ Increasing(Append(q, n))
         /\ Below(Append(q, n), n + 1)
BY SMTT(30) DEF Increasing, Below

\* a is the end of b.
Suffix(a, b) == a = SubSeq(b, Len(b) - Len(a) + 1, Len(b))

LEMMA AppendSuffix ==
  ASSUME NEW S, NEW a \in Seq(S), NEW b \in Seq(S), NEW m \in S,
         Len(a) <= Len(b), Suffix(a, b)
  PROVE  Suffix(Append(a, m), Append(b, m))
<1>1. /\ Len(Append(a, m)) = Len(a) + 1 /\ Len(Append(b, m)) = Len(b) + 1
      /\ Append(b, m) \in Seq(S) /\ Append(a, m) \in Seq(S)
  OBVIOUS
<1>2. PICK k \in Nat : Len(b) = Len(a) + k
  BY LenProperties
<1>3. \A i \in 1..Len(a) : a[i] = b[i + k]
  BY <1>2 DEF Suffix
<1>4. \A i \in 1..Len(a) + 1 : Append(a, m)[i] = Append(b, m)[i + k]
  BY SMTT(30), <1>2, <1>3
<1> QED BY <1>1, <1>2, <1>4 DEF Suffix

-----------------------------------------------------------------------------
(* The inductive invariant: what concerns the log and what was accepted,   *)
(* and what concerns the way from there to the handlers.                   *)

LogTypes ==
  /\ log \in [AllTopics -> Seq(Nat)]
  /\ log_seq \in [AllTopics -> Nat \cup {Unknown}]
  /\ accepted \in [Subscriptions -> Seq(Nat)]
  /\ subscribed \subseteq Subscriptions
  /\ sent \in Nat

\* The cached sequence number, where there is one, is the length of the log.
SeqFloorExact == \A t \in AllTopics : log_seq[t] # Unknown => log_seq[t] = Len(log[t])

\* Logs and deliveries are in the order of publish.
PublishOrder ==
  /\ \A t \in AllTopics : Increasing(log[t]) /\ Below(log[t], sent)
  /\ \A s \in Subscriptions : Increasing(accepted[s]) /\ Below(accepted[s], sent)

\* With Storage, what a subscriber was given is in the log of its topic.
AcceptedIsLogged ==
  HasStorage => \A s \in Subscriptions : \A i \in 1..Len(accepted[s]) :
    \E k \in 1..Len(log[s[1]]) : log[s[1]][k] = accepted[s][i]

\* Nothing was put in a queue before it was subscribed.
NothingBefore == \A s \in Subscriptions \ subscribed : accepted[s] = <<>>

LogInv ==
  LogTypes /\ SeqFloorExact /\ PublishOrder /\ AcceptedIsLogged /\ NothingBefore
           /\ SubscribersAgree

QueueTypes ==
  /\ queues \in [Subscriptions -> Seq(Nat)]
  /\ batch \in [Subscriptions -> Seq(Nat)]
  /\ handled \in [Subscriptions -> Seq(Nat)]
  /\ aborted \subseteq Subscriptions

NothingQueuedBefore ==
  \A s \in Subscriptions \ subscribed : queues[s] = <<>> /\ batch[s] = <<>> /\ handled[s] = <<>>

QueueInv == QueueTypes /\ NothingQueuedBefore /\ FifoNoLoss

BusIInv == LogInv /\ QueueInv

-----------------------------------------------------------------------------
(* publish.                                                                *)

LEMMA SubscriptionTopic == \A s \in Subscriptions : s[1] \in AllTopics
BY BusAssumption

\* The log after a publish: its topic may have the next message at its end.
Logged(topic, m) ==
  /\ \A t \in AllTopics : log'[t] = IF t = topic /\ HasStorage THEN Append(log[t], m) ELSE log[t]
  /\ log' \in [AllTopics -> Seq(Nat)]
  /\ log_seq' \in [AllTopics -> Nat \cup {Unknown}]
  /\ \A t \in AllTopics : log_seq'[t] # Unknown => log_seq'[t] = Len(log'[t])

\* The log write appends, whether or not the sequence number was cached.
LEMMA PersistAppends ==
  ASSUME LogTypes, SeqFloorExact, NEW topic \in AllTopics, NEW m \in Nat, Persist(topic, m)
  PROVE  Logged(topic, m)
<1>1. SeqFloor(topic) = Len(log[topic]) /\ Len(log[topic]) \in Nat
  BY DEF LogTypes, SeqFloorExact, SeqFloor
<1>2. Written(log[topic], SeqFloor(topic), m) = Append(log[topic], m)
  BY <1>1 DEF Written
<1>3. CASE HasStorage
  <2>1. /\ log' = [log EXCEPT ![topic] = Append(log[topic], m)]
        /\ log_seq' = [log_seq EXCEPT ![topic] = Len(log[topic]) + 1]
    BY <1>1, <1>2, <1>3 DEF Persist
  <2>2. Append(log[topic], m) \in Seq(Nat) /\ Len(Append(log[topic], m)) = Len(log[topic]) + 1
    BY DEF LogTypes
  <2> QED BY <1>1, <1>3, <2>1, <2>2 DEF Logged, LogTypes, SeqFloorExact
<1>4. CASE ~HasStorage
  BY <1>4 DEF Persist, Logged, LogTypes, SeqFloorExact
<1> QED BY <1>3, <1>4

\* A publish that raises writes nothing.
LEMMA RaisesLogsNothing ==
  ASSUME LogTypes, SeqFloorExact, NEW topic \in AllTopics, PublishRaises(topic)
  PROVE  /\ log' = log /\ accepted' = accepted /\ queues' = queues
         /\ log_seq' \in [AllTopics -> Nat \cup {Unknown}]
         /\ SeqFloorExact'
<1>1. SeqFloor(topic) = Len(log[topic]) /\ Len(log[topic]) \in Nat
  BY DEF LogTypes, SeqFloorExact, SeqFloor
<1> QED BY <1>1 DEF PublishRaises, PublishWriteFails, LogTypes, SeqFloorExact

\* A publish that returns keeps the invariant of the log.
LEMMA PublishOkLogInv ==
  ASSUME LogInv, NEW topic \in AllTopics, PublishOk(topic, sent),
         sent' = sent + 1, subscribed' = subscribed
  PROVE  LogInv'
<1> DEFINE Given(s) == s \in subscribed /\ s[1] = topic
<1>1. Logged(topic, sent)
  BY PersistAppends DEF LogInv, LogTypes, PublishOk
<1>2. \A s \in Subscriptions :
        accepted'[s] = IF Given(s) THEN Append(accepted[s], sent) ELSE accepted[s]
  BY DEF PublishOk, Enqueue, Added, SubscribersOf
<1>3. accepted' \in [Subscriptions -> Seq(Nat)]
  BY DEF PublishOk, Enqueue, Added, LogInv, LogTypes
<1>4. LogTypes' /\ SeqFloorExact'
  BY <1>1, <1>3 DEF Logged, LogInv, LogTypes, SeqFloorExact
<1>5. PublishOrder'
  <2>1. ASSUME NEW q \in Seq(Nat), Increasing(q), Below(q, sent)
        PROVE  /\ Increasing(q) /\ Below(q, sent + 1)
               /\ Increasing(Append(q, sent)) /\ Below(Append(q, sent), sent + 1)
    <3>1. Below(q, sent + 1)
      BY <2>1 DEF Below, LogInv, LogTypes
    <3> QED BY <2>1, <3>1, AppendIncreasing DEF LogInv, LogTypes
  <2>2. ASSUME NEW t \in AllTopics PROVE Increasing(log'[t]) /\ Below(log'[t], sent')
    <3>1. log[t] \in Seq(Nat) /\ Increasing(log[t]) /\ Below(log[t], sent)
      BY DEF LogInv, LogTypes, PublishOrder
    <3> QED BY <1>1, <2>1, <3>1 DEF Logged
  <2>3. ASSUME NEW s \in Subscriptions PROVE Increasing(accepted'[s]) /\ Below(accepted'[s], sent')
    <3>1. accepted[s] \in Seq(Nat) /\ Increasing(accepted[s]) /\ Below(accepted[s], sent)
      BY DEF LogInv, LogTypes, PublishOrder
    <3> QED BY <1>2, <2>1, <3>1
  <2> QED BY <2>2, <2>3 DEF PublishOrder
<1>6. AcceptedIsLogged'
  <2> SUFFICES ASSUME HasStorage, NEW s \in Subscriptions, NEW i \in 1..Len(accepted'[s])
               PROVE  \E k \in 1..Len(log'[s[1]]) : log'[s[1]][k] = accepted'[s][i]
    BY DEF AcceptedIsLogged
  <2>1. PICK t \in AllTopics : t = s[1]
    BY SubscriptionTopic
  <2>2. log[t] \in Seq(Nat) /\ accepted[s] \in Seq(Nat) /\ sent \in Nat
    BY DEF LogInv, LogTypes
  <2>3. log'[t] = IF t = topic THEN Append(log[t], sent) ELSE log[t]
    BY <1>1 DEF Logged
  <2>4. CASE i \in 1..Len(accepted[s])
    <3>1. PICK k \in 1..Len(log[t]) : log[t][k] = accepted[s][i]
      BY <2>1, <2>4 DEF LogInv, AcceptedIsLogged
    <3>2. accepted'[s][i] = accepted[s][i]
      <4>1. PICK a \in Seq(Nat) : a = accepted[s]
        BY <2>2
      <4>2. accepted'[s] = Append(a, sent) \/ accepted'[s] = a
        BY <1>2, <4>1
      <4>3. i \in 1..Len(a) /\ Append(a, sent)[i] = a[i]
        BY <2>2, <2>4, <4>1
      <4> QED BY <4>1, <4>2, <4>3
    <3>3. k \in 1..Len(log'[t]) /\ log'[t][k] = log[t][k]
      BY <2>2, <2>3
    <3> QED BY <2>1, <3>1, <3>2, <3>3
  <2>5. CASE i \notin 1..Len(accepted[s])
    <3>1. Given(s) /\ accepted'[s][i] = sent
      <4>1. PICK a \in Seq(Nat) : a = accepted[s]
        BY <2>2
      <4>2. Given(s) /\ accepted'[s] = Append(a, sent)
        BY <1>2, <2>5, <4>1
      <4> QED BY <2>2, <2>5, <4>1, <4>2
    <3>2. log'[t] = Append(log[t], sent)
      BY <2>1, <2>3, <3>1
    <3>3. Len(log'[t]) \in 1..Len(log'[t]) /\ log'[t][Len(log'[t])] = sent
      BY <2>2, <3>2
    <3> QED BY <2>1, <3>1, <3>3
  <2> QED BY <2>4, <2>5
<1>7. NothingBefore'
  BY <1>2 DEF LogInv, NothingBefore
<1>8. SubscribersAgree'
  <2> SUFFICES ASSUME NEW s \in subscribed, NEW r \in subscribed, s[1] = r[1],
                      Len(accepted'[s]) <= Len(accepted'[r])
               PROVE  Suffix(accepted'[s], accepted'[r])
    BY DEF SubscribersAgree, Suffix
  <2>1. s \in Subscriptions /\ r \in Subscriptions /\ sent \in Nat
        /\ accepted[s] \in Seq(Nat) /\ accepted[r] \in Seq(Nat)
    BY DEF LogInv, LogTypes
  <2>2. Given(s) <=> Given(r)
    OBVIOUS
  <2>3. Len(accepted[s]) <= Len(accepted[r])
    <3>1. CASE Given(s)
      <4>1. accepted'[s] = Append(accepted[s], sent) /\ accepted'[r] = Append(accepted[r], sent)
        BY <1>2, <2>1, <2>2, <3>1
      <4>2. /\ Len(accepted'[s]) = Len(accepted[s]) + 1 /\ Len(accepted[s]) \in Nat
            /\ Len(accepted'[r]) = Len(accepted[r]) + 1 /\ Len(accepted[r]) \in Nat
        BY <2>1, <4>1, AppendProperties, LenProperties
      <4> QED BY <4>2
    <3>2. CASE ~Given(s)
      BY <1>2, <2>1, <2>2, <3>2
    <3> QED BY <3>1, <3>2
  <2>4. Suffix(accepted[s], accepted[r])
    BY <2>3 DEF LogInv, SubscribersAgree, Suffix
  <2>5. Suffix(Append(accepted[s], sent), Append(accepted[r], sent))
    BY <2>1, <2>3, <2>4, AppendSuffix
  <2> QED BY <1>2, <2>1, <2>2, <2>4, <2>5
<1> QED BY <1>4, <1>5, <1>6, <1>7, <1>8 DEF LogInv

\* So does one that raises.
LEMMA PublishRaisesLogInv ==
  ASSUME LogInv, NEW topic \in AllTopics, PublishRaises(topic),
         sent' = sent + 1, subscribed' = subscribed
  PROVE  LogInv'
<1>1. /\ log' = log /\ accepted' = accepted
      /\ log_seq' \in [AllTopics -> Nat \cup {Unknown}] /\ SeqFloorExact'
  BY RaisesLogsNothing DEF LogInv
<1>2. LogTypes'
  BY <1>1 DEF LogInv, LogTypes
<1>3. PublishOrder'
  <2>1. ASSUME NEW q \in Seq(Nat), Below(q, sent) PROVE Below(q, sent')
    BY <2>1 DEF Below, LogInv, LogTypes
  <2> QED BY <1>1, <2>1 DEF LogInv, LogTypes, PublishOrder
<1> QED BY <1>1, <1>2, <1>3 DEF LogInv, AcceptedIsLogged, NothingBefore, SubscribersAgree

\* What a publish puts in a queue it also counts as accepted.
LEMMA PublishQueueInv ==
  ASSUME LogInv, QueueInv, NEW topic \in AllTopics, PublishOk(topic, sent)
  PROVE  /\ queues' \in [Subscriptions -> Seq(Nat)]
         /\ \A s \in Subscriptions \ subscribed : queues'[s] = <<>>
         /\ \A s \in Subscriptions :
              \/ accepted'[s] = accepted[s] /\ queues'[s] = queues[s]
              \/ accepted'[s] = Append(accepted[s], sent) /\ queues'[s] = Append(queues[s], sent)
BY DEF PublishOk, Enqueue, Added, SubscribersOf, LogInv, LogTypes, QueueInv, QueueTypes,
       NothingQueuedBefore

\* The queue of one subscription after a publish, whatever the loop moves of its batch.
LEMMA StillFifo ==
  ASSUME LogInv, QueueInv, NEW s \in Subscriptions \ aborted,
         NEW h \in Seq(Nat), NEW b \in Seq(Nat),
         h \o b = handled[s] \o batch[s],
         handled'[s] = h, batch'[s] = b,
         \/ accepted'[s] = accepted[s] /\ queues'[s] = queues[s]
         \/ accepted'[s] = Append(accepted[s], sent) /\ queues'[s] = Append(queues[s], sent)
  PROVE  accepted'[s] = (handled'[s] \o batch'[s]) \o queues'[s]
<1>1. PICK p \in Seq(Nat) : p = h \o b
  BY ConcatProperties
<1>2. PICK q \in Seq(Nat) : q = queues[s]
  BY DEF QueueInv, QueueTypes
<1>3. accepted[s] = p \o q
  BY <1>1, <1>2 DEF QueueInv, FifoNoLoss
<1>4. PICK m \in Nat : m = sent
  BY DEF LogInv, LogTypes
<1>5. Append(p \o q, m) = p \o Append(q, m)
  BY AppendLast
<1> QED BY <1>1, <1>2, <1>3, <1>4, <1>5

-----------------------------------------------------------------------------
(* The operations.                                                         *)

LEMMA InitBusIInv == BusInit => BusIInv
<1> SUFFICES ASSUME BusInit PROVE BusIInv
  OBVIOUS
<1>1. <<>> \in Seq(Nat) /\ Len(<<>>) = 0
  OBVIOUS
<1>2. LogInv
  BY <1>1, SubscriptionTopic
  DEF BusInit, LogInv, LogTypes, SeqFloorExact, PublishOrder, AcceptedIsLogged,
      NothingBefore, SubscribersAgree, Increasing, Below
<1>3. QueueInv
  BY DEF BusInit, QueueInv, QueueTypes, NothingQueuedBefore, FifoNoLoss
<1> QED BY <1>2, <1>3 DEF BusIInv

\* The log and what was accepted stay as they are.
LEMMA LogUntouched ==
  ASSUME LogInv, UNCHANGED <<log, log_seq, accepted, subscribed, sent>>
  PROVE  LogInv'
<1> USE DEF Increasing, Below
<1>1. LogTypes' /\ SeqFloorExact' /\ PublishOrder'
  BY DEF LogInv, LogTypes, SeqFloorExact, PublishOrder
<1>2. AcceptedIsLogged' /\ NothingBefore' /\ SubscribersAgree'
  BY DEF LogInv, AcceptedIsLogged, NothingBefore, SubscribersAgree
<1> QED BY <1>1, <1>2 DEF LogInv

\* A new subscriber starts with nothing.
LEMMA SubscribeIInv == ASSUME BusIInv, NEW sub \in Subscriptions, Subscribe(sub) PROVE BusIInv'
<1>1. /\ subscribed' = subscribed \cup {sub} /\ sub \notin subscribed
      /\ queues' = [queues EXCEPT ![sub] = <<>>]
      /\ UNCHANGED <<log, log_seq, batch, sent, accepted, handled, aborted>>
  BY DEF Subscribe, histVars
<1>2. queues[sub] = <<>> /\ accepted[sub] = <<>>
  BY <1>1 DEF BusIInv, LogInv, QueueInv, NothingBefore, NothingQueuedBefore
<1>3. queues' = queues
  BY <1>1, <1>2 DEF BusIInv, QueueInv, QueueTypes
<1>4. LogTypes' /\ SeqFloorExact' /\ PublishOrder' /\ AcceptedIsLogged' /\ NothingBefore'
  BY <1>1 DEF BusIInv, LogInv, LogTypes, SeqFloorExact, PublishOrder, AcceptedIsLogged,
              NothingBefore, Increasing, Below
<1>5. SubscribersAgree'
  <2> SUFFICES ASSUME NEW s \in subscribed', NEW r \in subscribed', s[1] = r[1],
                      Len(accepted[s]) <= Len(accepted[r])
               PROVE  accepted[s] = SubSeq(accepted[r], Len(accepted[r]) - Len(accepted[s]) + 1,
                                           Len(accepted[r]))
    BY <1>1 DEF SubscribersAgree
  <2>1. accepted[s] \in Seq(Nat) /\ accepted[r] \in Seq(Nat)
    BY <1>1 DEF BusIInv, LogInv, LogTypes
  <2>2. CASE s \in subscribed /\ r \in subscribed
    BY <2>2 DEF BusIInv, LogInv, SubscribersAgree
  <2>3. CASE s = sub \/ r = sub
    <3>1. accepted[s] = <<>> /\ Len(accepted[s]) = 0
      BY <1>2, <2>1, <2>3
    <3>2. PICK n \in Nat : n = Len(accepted[r])
      BY <2>1, LenProperties
    <3>3. n - 0 + 1 = n + 1 /\ SubSeq(accepted[r], n + 1, n) = <<>>
      BY SubSeqEmpty
    <3> QED BY <3>1, <3>2, <3>3
  <2> QED BY <1>1, <2>2, <2>3
<1>6. QueueInv'
  BY <1>1, <1>3 DEF BusIInv, QueueInv, QueueTypes, NothingQueuedBefore, FifoNoLoss
<1> QED BY <1>4, <1>5, <1>6 DEF BusIInv, LogInv

\* A publish, of a message that raises or of one that is delivered.
LEMMA PublishIInv == ASSUME BusIInv, NEW topic \in Topics, Publish(topic) PROVE BusIInv'
<1>1. /\ topic \in AllTopics /\ sent' = sent + 1
      /\ UNCHANGED <<subscribed, batch, handled, aborted>>
  BY DEF Publish, AllTopics
<1>2. CASE PublishOk(topic, sent)
  <2>1. LogInv'
    BY <1>1, <1>2, PublishOkLogInv DEF BusIInv
  <2>2. QueueTypes' /\ NothingQueuedBefore'
    BY <1>1, <1>2, PublishQueueInv DEF BusIInv, QueueInv, QueueTypes, NothingQueuedBefore
  <2>3. FifoNoLoss'
    <3> SUFFICES ASSUME NEW s \in Subscriptions \ aborted
                 PROVE  accepted'[s] = (handled'[s] \o batch'[s]) \o queues'[s]
      BY <1>1 DEF FifoNoLoss
    <3>1. handled[s] \in Seq(Nat) /\ batch[s] \in Seq(Nat)
      BY DEF BusIInv, QueueInv, QueueTypes
    <3>2. \/ accepted'[s] = accepted[s] /\ queues'[s] = queues[s]
          \/ accepted'[s] = Append(accepted[s], sent) /\ queues'[s] = Append(queues[s], sent)
      BY <1>1, <1>2, PublishQueueInv DEF BusIInv
    <3> QED BY <1>1, <3>1, <3>2, StillFifo DEF BusIInv
  <2> QED BY <2>1, <2>2, <2>3 DEF BusIInv, QueueInv
<1>3. CASE PublishRaises(topic)
  <2>1. LogInv'
    BY <1>1, <1>3, PublishRaisesLogInv DEF BusIInv
  <2>2. queues' = queues /\ accepted' = accepted
    BY <1>1, <1>3, RaisesLogsNothing DEF BusIInv, LogInv
  <2>3. QueueInv'
    BY <1>1, <2>2 DEF BusIInv, QueueInv, QueueTypes, NothingQueuedBefore, FifoNoLoss
  <2> QED BY <2>1, <2>3 DEF BusIInv
<1> QED BY <1>2, <1>3 DEF Publish

\* drain hands over the queue.
LEMMA DrainIInv == ASSUME BusIInv, NEW sub \in Subscriptions, Drain(sub) PROVE BusIInv'
<1>1. /\ batch[sub] = <<>> /\ sub \in subscribed
      /\ queues' = [queues EXCEPT ![sub] = <<>>]
      /\ handled' = [handled EXCEPT ![sub] = handled[sub] \o queues[sub]]
      /\ UNCHANGED <<log, log_seq, batch, sent, subscribed, accepted, aborted>>
  BY DEF Drain
<1>2. LogInv'
  BY <1>1, LogUntouched DEF BusIInv
<1>3. handled[sub] \in Seq(Nat) /\ queues[sub] \in Seq(Nat)
  BY DEF BusIInv, QueueInv, QueueTypes
<1>4. handled[sub] \o queues[sub] \in Seq(Nat) /\ <<>> \in Seq(Nat)
  BY <1>3, ConcatProperties
<1>5. QueueTypes' /\ NothingQueuedBefore'
  BY <1>1, <1>4 DEF BusIInv, QueueInv, QueueTypes, NothingQueuedBefore
<1>6. FifoNoLoss'
  <2> SUFFICES ASSUME NEW s \in Subscriptions \ aborted
               PROVE  accepted[s] = (handled'[s] \o batch[s]) \o queues'[s]
    BY <1>1 DEF FifoNoLoss
  <2>1. accepted[s] = (handled[s] \o batch[s]) \o queues[s]
    BY DEF BusIInv, QueueInv, FifoNoLoss
  <2>2. CASE s = sub
    <3>1. handled'[s] = handled[s] \o queues[s] /\ queues'[s] = <<>>
      BY <1>1, <2>2 DEF BusIInv, QueueInv, QueueTypes
    <3>2. ((handled[s] \o queues[s]) \o <<>>) \o <<>> = (handled[s] \o <<>>) \o queues[s]
      BY <1>3, <2>2, MoveQueue
    <3>3. batch[s] = <<>>
      BY <1>1, <2>2
    <3> QED BY <2>1, <3>1, <3>2, <3>3
  <2>3. CASE s # sub
    BY <1>1, <2>1, <2>3 DEF BusIInv, QueueInv, QueueTypes
  <2> QED BY <2>2, <2>3
<1> QED BY <1>2, <1>5, <1>6 DEF BusIInv, QueueInv

\* deliver_with takes the queue as its batch.
LEMMA StartDeliveryIInv ==
  ASSUME BusIInv, NEW sub \in Subscriptions, StartDelivery(sub) PROVE BusIInv'
<1>1. /\ batch[sub] = <<>> /\ sub \in subscribed
      /\ queues' = [queues EXCEPT ![sub] = <<>>]
      /\ batch' = [batch EXCEPT ![sub] = queues[sub]]
      /\ UNCHANGED <<log, log_seq, sent, subscribed, accepted, handled, aborted>>
  BY DEF StartDelivery, histVars
<1>2. LogInv'
  BY <1>1, LogUntouched DEF BusIInv
<1>3. handled[sub] \in Seq(Nat) /\ queues[sub] \in Seq(Nat) /\ <<>> \in Seq(Nat)
  BY DEF BusIInv, QueueInv, QueueTypes
<1>4. QueueTypes' /\ NothingQueuedBefore'
  BY <1>1, <1>3 DEF BusIInv, QueueInv, QueueTypes, NothingQueuedBefore
<1>5. FifoNoLoss'
  <2> SUFFICES ASSUME NEW s \in Subscriptions \ aborted
               PROVE  accepted[s] = (handled[s] \o batch'[s]) \o queues'[s]
    BY <1>1 DEF FifoNoLoss
  <2>1. accepted[s] = (handled[s] \o batch[s]) \o queues[s]
    BY DEF BusIInv, QueueInv, FifoNoLoss
  <2>2. CASE s = sub
    <3>1. batch'[s] = queues[s] /\ queues'[s] = <<>> /\ batch[s] = <<>>
      BY <1>1, <2>2 DEF BusIInv, QueueInv, QueueTypes
    <3>2. (handled[s] \o queues[s]) \o <<>> = (handled[s] \o <<>>) \o queues[s]
      BY <1>3, <2>2, MoveQueue
    <3> QED BY <2>1, <3>1, <3>2
  <2>3. CASE s # sub
    BY <1>1, <2>1, <2>3 DEF BusIInv, QueueInv, QueueTypes
  <2> QED BY <2>2, <2>3
<1> QED BY <1>2, <1>4, <1>5 DEF BusIInv, QueueInv

\* The head of the batch becomes the last message handled.
LEMMA HeadHandled ==
  ASSUME BusIInv, NEW sub \in Subscriptions, batch[sub] # <<>>
  PROVE  /\ Append(handled[sub], Head(batch[sub])) \in Seq(Nat)
         /\ Tail(batch[sub]) \in Seq(Nat)
         /\ Append(handled[sub], Head(batch[sub])) \o Tail(batch[sub])
              = handled[sub] \o batch[sub]
<1>1. handled[sub] \in Seq(Nat) /\ batch[sub] \in Seq(Nat)
  BY DEF BusIInv, QueueInv, QueueTypes
<1>2. Head(batch[sub]) \in Nat /\ Tail(batch[sub]) \in Seq(Nat)
  BY <1>1, HeadTailProperties
<1>3. Append(handled[sub], Head(batch[sub])) \in Seq(Nat)
  BY <1>1, <1>2, AppendProperties
<1> QED BY <1>1, <1>2, <1>3, MoveHead

LEMMA HandlerOkIInv == ASSUME BusIInv, NEW sub \in Subscriptions, HandlerOk(sub) PROVE BusIInv'
<1>1. /\ batch[sub] # <<>>
      /\ batch' = [batch EXCEPT ![sub] = Tail(batch[sub])]
      /\ handled' = [handled EXCEPT ![sub] = Append(handled[sub], Head(batch[sub]))]
      /\ UNCHANGED <<log, log_seq, sent, subscribed, accepted, queues, aborted>>
  BY DEF HandlerOk, Done
<1>2. LogInv'
  BY <1>1, LogUntouched DEF BusIInv
<1>3. QueueTypes' /\ NothingQueuedBefore'
  BY <1>1, HeadHandled DEF BusIInv, QueueInv, QueueTypes, NothingQueuedBefore
<1>4. FifoNoLoss'
  BY <1>1, HeadHandled DEF BusIInv, QueueInv, QueueTypes, FifoNoLoss
<1> QED BY <1>2, <1>3, <1>4 DEF BusIInv, QueueInv

LEMMA HandlerRetriesIInv ==
  ASSUME BusIInv, NEW sub \in Subscriptions, HandlerRetries(sub) PROVE BusIInv'
<1>1. UNCHANGED <<log, log_seq, sent, subscribed, accepted, queues, batch, handled, aborted>>
  BY DEF HandlerRetries, histVars
<1>2. LogInv'
  BY <1>1, LogUntouched DEF BusIInv
<1> QED BY <1>1, <1>2 DEF BusIInv, QueueInv, QueueTypes, NothingQueuedBefore, FifoNoLoss

\* The last attempt fails: the message is a dead letter, and delivery.failed goes out
\* or its publish raises and the rest of the batch is gone.
LEMMA HandlerExhaustedIInv ==
  ASSUME BusIInv, NEW sub \in Subscriptions, HandlerExhausted(sub) PROVE BusIInv'
<1>1. /\ batch[sub] # <<>> /\ sent' = sent + 1 /\ subscribed' = subscribed
      /\ handled' = [handled EXCEPT ![sub] = Append(handled[sub], Head(batch[sub]))]
  BY DEF HandlerExhausted
<1>2. FailedTopic \in AllTopics
  BY DEF AllTopics
<1>3. CASE PublishOk(FailedTopic, sent) /\ Done(sub) /\ UNCHANGED aborted
  <2>1. batch' = [batch EXCEPT ![sub] = Tail(batch[sub])] /\ aborted' = aborted
    BY <1>3 DEF Done
  <2>2. LogInv'
    BY <1>1, <1>2, <1>3, PublishOkLogInv DEF BusIInv
  <2>3. QueueTypes' /\ NothingQueuedBefore'
    <3>1. /\ queues' \in [Subscriptions -> Seq(Nat)]
          /\ \A s \in Subscriptions \ subscribed : queues'[s] = <<>>
      BY <1>2, <1>3, PublishQueueInv DEF BusIInv
    <3> QED BY <1>1, <2>1, <3>1, HeadHandled
            DEF BusIInv, QueueInv, QueueTypes, NothingQueuedBefore
  <2>4. FifoNoLoss'
    <3> SUFFICES ASSUME NEW s \in Subscriptions \ aborted
                 PROVE  accepted'[s] = (handled'[s] \o batch'[s]) \o queues'[s]
      BY <2>1 DEF FifoNoLoss
    <3>1. \/ accepted'[s] = accepted[s] /\ queues'[s] = queues[s]
          \/ accepted'[s] = Append(accepted[s], sent) /\ queues'[s] = Append(queues[s], sent)
      BY <1>2, <1>3, PublishQueueInv DEF BusIInv
    <3>2. /\ handled'[s] \in Seq(Nat) /\ batch'[s] \in Seq(Nat)
          /\ handled'[s] \o batch'[s] = handled[s] \o batch[s]
      BY <1>1, <2>1, HeadHandled DEF BusIInv, QueueInv, QueueTypes
    <3> QED BY <3>1, <3>2, StillFifo DEF BusIInv
  <2> QED BY <2>2, <2>3, <2>4 DEF BusIInv, QueueInv
<1>4. CASE /\ PublishRaises(FailedTopic)
           /\ batch' = [batch EXCEPT ![sub] = <<>>]
           /\ aborted' = aborted \cup (IF Len(batch[sub]) > 1 THEN {sub} ELSE {})
  <2>1. LogInv'
    BY <1>1, <1>2, <1>4, PublishRaisesLogInv DEF BusIInv
  <2>2. queues' = queues /\ accepted' = accepted
    BY <1>2, <1>4, RaisesLogsNothing DEF BusIInv, LogInv
  <2>3. QueueTypes' /\ NothingQueuedBefore'
    BY <1>1, <1>4, <2>2, HeadHandled DEF BusIInv, QueueInv, QueueTypes, NothingQueuedBefore
  <2>4. FifoNoLoss'
    <3> SUFFICES ASSUME NEW s \in Subscriptions \ aborted'
                 PROVE  accepted[s] = (handled'[s] \o batch'[s]) \o queues[s]
      BY <2>2 DEF FifoNoLoss
    <3>1. accepted[s] = (handled[s] \o batch[s]) \o queues[s]
      BY <1>4 DEF BusIInv, QueueInv, FifoNoLoss
    <3>2. CASE s # sub
      BY <1>1, <1>4, <3>1, <3>2 DEF BusIInv, QueueInv, QueueTypes
    <3>3. CASE s = sub
      <4>1. batch[sub] \in Seq(Nat) /\ ~(Len(batch[sub]) > 1)
        BY <1>4, <3>3 DEF BusIInv, QueueInv, QueueTypes
      <4>2. Tail(batch[sub]) = <<>>
        BY <1>1, <4>1
      <4>3. handled'[s] = Append(handled[s], Head(batch[s])) /\ batch'[s] = Tail(batch[s])
        BY <1>1, <1>4, <3>3, <4>2 DEF BusIInv, QueueInv, QueueTypes
      <4> QED BY <1>1, <3>1, <3>3, <4>3, HeadHandled
    <3> QED BY <3>2, <3>3
  <2> QED BY <2>1, <2>3, <2>4 DEF BusIInv, QueueInv
<1> QED BY <1>3, <1>4 DEF HandlerExhausted

\* A new Bus finds the log of the old one, and has no subscribers.
LEMMA RestartIInv == ASSUME BusIInv, Restart PROVE BusIInv'
<1>1. /\ log' = log /\ sent' = sent /\ subscribed' = {}
      /\ log_seq' = [t \in AllTopics |-> Unknown]
      /\ queues' = [s \in Subscriptions |-> <<>>] /\ batch' = [s \in Subscriptions |-> <<>>]
      /\ accepted' = [s \in Subscriptions |-> <<>>]
      /\ handled' = [s \in Subscriptions |-> <<>>] /\ aborted' = {}
  BY DEF Restart
<1>2. <<>> \in Seq(Nat) /\ Len(<<>>) = 0
  OBVIOUS
<1>3. LogInv'
  BY <1>1, <1>2 DEF BusIInv, LogInv, LogTypes, SeqFloorExact, PublishOrder, AcceptedIsLogged,
                    NothingBefore, SubscribersAgree, Increasing, Below
<1>4. QueueInv'
  BY <1>1, <1>2 DEF QueueInv, QueueTypes, NothingQueuedBefore, FifoNoLoss
<1> QED BY <1>3, <1>4 DEF BusIInv

\* Every step of the bus keeps the invariant.
LEMMA NextBusIInv == BusIInv /\ [BusNext]_busVars => BusIInv'
<1> SUFFICES ASSUME BusIInv, [BusNext]_busVars PROVE BusIInv'
  OBVIOUS
<1>1. CASE UNCHANGED busVars
  <2>1. UNCHANGED <<log, log_seq, sent, subscribed, accepted, queues, batch, handled, aborted>>
    BY <1>1 DEF busVars
  <2>2. LogInv'
    BY <2>1, LogUntouched DEF BusIInv
  <2> QED BY <2>1, <2>2 DEF BusIInv, QueueInv, QueueTypes, NothingQueuedBefore, FifoNoLoss
<1>2. CASE BusNext
  BY <1>2, SubscribeIInv, DrainIInv, StartDeliveryIInv, HandlerOkIInv, HandlerRetriesIInv,
     HandlerExhaustedIInv, PublishIInv, RestartIInv
  DEF BusNext, DeliveryStep
<1> QED BY <1>1, <1>2

\* The inductive invariant holds in every reachable state.
THEOREM BusInvariance == BusSpec => []BusIInv
<1>1. BusIInv /\ [BusNext]_busVars => BusIInv'
  BY NextBusIInv
<1> QED BY <1>1, InitBusIInv, PTL DEF BusSpec

-----------------------------------------------------------------------------
(* The properties.                                                         *)

\* Logs and deliveries are both in the order of publish, so a delivery that follows
\* another one is further down the log.
LEMMA OrderedByLog == BusIInv => PersistedBeforeAck
<1> SUFFICES ASSUME BusIInv, HasStorage, NEW s \in Subscriptions, NEW i \in 1..Len(accepted[s])
             PROVE  \E k \in 1..Len(log[s[1]]) :
                      /\ log[s[1]][k] = accepted[s][i]
                      /\ i < Len(accepted[s]) =>
                           \E l \in k+1..Len(log[s[1]]) : log[s[1]][l] = accepted[s][i+1]
  BY DEF PersistedBeforeAck
<1>1. PICK t \in AllTopics : t = s[1]
  BY SubscriptionTopic
<1>2. PICK a \in Seq(Nat) : a = accepted[s]
  BY DEF BusIInv, LogInv, LogTypes
<1>3. PICK b \in Seq(Nat) : b = log[t]
  BY DEF BusIInv, LogInv, LogTypes
<1>4. Increasing(a) /\ Increasing(b)
  BY <1>2, <1>3 DEF BusIInv, LogInv, PublishOrder
<1>5. \A j \in 1..Len(a) : \E k \in 1..Len(b) : b[k] = a[j]
  BY <1>1, <1>2, <1>3 DEF BusIInv, LogInv, AcceptedIsLogged
<1>6. PICK k \in 1..Len(b) : b[k] = a[i]
  BY <1>2, <1>5
<1>7. ASSUME i < Len(a) PROVE \E l \in k+1..Len(b) : b[l] = a[i+1]
  <2>1. i \in 1..Len(a) /\ i+1 \in 1..Len(a) /\ a[i] < a[i+1]
    BY <1>2, <1>4, <1>7 DEF Increasing
  <2>2. PICK l \in 1..Len(b) : b[l] = a[i+1]
    BY <1>5, <2>1
  <2>3. ~(l <= k)
    <3>1. l < k => b[l] < b[k]
      BY <1>4 DEF Increasing
    <3>2. b[l] \in Nat /\ b[k] \in Nat
      OBVIOUS
    <3> QED BY SMTT(30), <1>6, <2>1, <2>2, <3>1, <3>2
  <2> QED BY <2>2, <2>3
<1> QED BY <1>1, <1>2, <1>3, <1>6, <1>7

\* Ordering and Delivery: whatever is published, drained, delivered, retried, refused
\* or restarted, every subscriber is given what was published since it subscribed, once
\* and in the order of publish, after it was written to the log of the topic.
THEOREM DeliveryIsSound == BusSpec => []DeliverySound
<1>1. BusIInv => DeliverySound
  BY OrderedByLog DEF BusIInv, LogInv, QueueInv, DeliverySound
<1> QED BY <1>1, BusInvariance, PTL

\* _seq_floor: no step of a Bus, over a log of its own or of an earlier Bus, changes or
\* drops an entry of a log.
THEOREM HistoryIsKept == BusSpec => HistoryKept
<1> DEFINE Kept(t) == /\ Len(log'[t]) >= Len(log[t])
                      /\ \A i \in 1..Len(log[t]) : log'[t][i] = log[t][i]
<1>1. ASSUME BusIInv, NEW t \in AllTopics, [BusNext]_busVars PROVE Kept(t)
  <2>1. log[t] \in Seq(Nat) /\ sent \in Nat
    BY <1>1 DEF BusIInv, LogInv, LogTypes
  <2>2. CASE log' = log
    BY <2>1, <2>2
  <2>3. ASSUME NEW topic \in AllTopics, PublishOk(topic, sent) PROVE Kept(t)
    <3>1. log'[t] = Append(log[t], sent) \/ log'[t] = log[t]
      BY <1>1, <2>1, <2>3, PersistAppends DEF Logged, BusIInv, LogInv, PublishOk
    <3> QED BY <2>1, <3>1
  <2>4. ASSUME NEW topic \in AllTopics, PublishRaises(topic) PROVE log' = log
    BY <1>1, <2>4, RaisesLogsNothing DEF BusIInv, LogInv
  <2>5. ASSUME NEW topic \in Topics, Publish(topic) PROVE Kept(t)
    BY <2>2, <2>3, <2>4, <2>5 DEF Publish, AllTopics
  <2>6. ASSUME NEW sub \in Subscriptions, HandlerExhausted(sub) PROVE Kept(t)
    <3>1. FailedTopic \in AllTopics
      BY DEF AllTopics
    <3> QED BY <2>2, <2>3, <2>4, <2>6, <3>1 DEF HandlerExhausted
  <2>7. ASSUME NEW sub \in Subscriptions,
               \/ Subscribe(sub) \/ Drain(sub) \/ StartDelivery(sub) \/ HandlerOk(sub)
               \/ HandlerRetries(sub)
        PROVE  log' = log
    BY <2>7 DEF Subscribe, Drain, StartDelivery, HandlerOk, HandlerRetries
  <2>8. CASE Restart
    BY <2>2, <2>8 DEF Restart
  <2>9. CASE UNCHANGED busVars
    BY <2>2, <2>9 DEF busVars
  <2> QED BY <1>1, <2>2, <2>5, <2>6, <2>7, <2>8, <2>9 DEF BusNext, DeliveryStep
<1>2. BusIInv /\ [BusNext]_busVars => \A t \in AllTopics : Kept(t)
  BY <1>1
<1>3. BusIInv /\ [BusNext]_busVars => [\A t \in AllTopics : Kept(t)]_busVars
  BY <1>2
<1> QED BY <1>3, BusInvariance, PTL DEF BusSpec, HistoryKept

-----------------------------------------------------------------------------
(* The store. *)

NoShortWrites == "short" \notin OsFaults

-----------------------------------------------------------------------------
(* The inductive invariant.  Only the holder of the lock is inside write(),*)
(* which is why what it saw and wrote stays true until it returns.         *)

InsideIsOpen == \A p \in Procs : pc[p] # "idle" => p \in open

\* Before the swap the file is the one the call found, and a write_once call
\* found none; at the swap the temporary file is the whole envelope.
BeforeSwap ==
  \A p \in Procs : pc[p] \in {"create", "write", "fsync", "replace"} =>
    /\ file[arg[p].key] = prior[p]
    /\ arg[p].key \in OnceKeys => prior[p] = Missing

TmpWhole ==
  \A p \in Procs : pc[p] \in {"fsync", "replace"} => tmp[arg[p].key] = arg[p].value

AfterSwap == \A p \in Procs : pc[p] = "emit" => file[arg[p].key] = arg[p].value

\* The report of an earlier call is gone while a call is under way.
NoStaleReport == \A p \in Procs : pc[p] # "idle" => outcome[p] = "none"

StoreIInv ==
  /\ StoreTypeOK
  /\ OneWriter
  /\ NeverTorn
  /\ InsideIsOpen
  /\ BeforeSwap
  /\ TmpWhole
  /\ AfterSwap
  /\ NoStaleReport
  /\ FailureLeavesPrior
  /\ CommitIsStored

LEMMA InitStoreIInv == StoreInit => StoreIInv
BY StoreAssumption
DEF StoreInit, StoreIInv, StoreTypeOK, OneWriter, NeverTorn, InsideIsOpen, BeforeSwap, TmpWhole,
    AfterSwap, NoStaleReport, FailureLeavesPrior, CommitIsStored, PCs, Outcomes

\* One step of any process keeps the invariant.
LEMMA NextStoreIInv ==
  ASSUME NoShortWrites, StoreIInv, [StoreNext]_storeVars
  PROVE  StoreIInv'
<1> USE StoreAssumption
<1> USE DEF StoreIInv, StoreTypeOK, OneWriter, NeverTorn, InsideIsOpen, BeforeSwap, TmpWhole,
        AfterSwap, NoStaleReport, FailureLeavesPrior, CommitIsStored, PCs, Outcomes,
        Calls, At, Goto
<1>1. ASSUME NEW p \in Procs, Open(p) PROVE StoreIInv'
  BY <1>1 DEF Open
<1>2. ASSUME NEW p \in Procs, Close(p) PROVE StoreIInv'
  BY <1>2 DEF Close
<1>3. ASSUME NEW p \in Procs, Crash(p) PROVE StoreIInv'
  BY <1>3 DEF Crash
<1>4. ASSUME NEW p \in Procs, CreateTmp(p) PROVE StoreIInv'
  BY <1>4 DEF CreateTmp
<1>5. ASSUME NEW p \in Procs, WriteTmp(p) PROVE StoreIInv'
  BY <1>5 DEF WriteTmp, NoShortWrites
<1>6. ASSUME NEW p \in Procs, Fsync(p) PROVE StoreIInv'
  BY <1>6 DEF Fsync
<1>7. ASSUME NEW p \in Procs, Replace(p) PROVE StoreIInv'
  BY <1>7 DEF Replace
<1>8. ASSUME NEW p \in Procs, OsError(p) PROVE StoreIInv'
  BY SMTT(30), <1>8 DEF OsError
<1>9. ASSUME NEW p \in Procs, Emit(p) PROVE StoreIInv'
  BY <1>9 DEF Emit
<1>10. ASSUME NEW p \in Procs, NEW k \in Keys, NEW v \in Values, Begin(p, k, v) PROVE StoreIInv'
  <2>0. /\ pc' \in [Procs -> PCs]
        /\ outcome' \in [Procs -> Outcomes]
    <3>1. CASE k \in OnceKeys /\ file[k] # Missing
      BY <1>10, <3>1 DEF Begin
    <3>2. CASE ~(k \in OnceKeys /\ file[k] # Missing)
      <4>1. /\ pc' = [pc EXCEPT ![p] = "create"]
            /\ outcome' = [outcome EXCEPT ![p] = "none"]
        BY <1>10, <3>2 DEF Begin
      <4> QED
        BY <4>1
    <3> QED
      BY <3>1, <3>2
  <2>1. StoreTypeOK' /\ OneWriter' /\ NeverTorn' /\ InsideIsOpen'
    BY <1>10, <2>0 DEF Begin
  <2>2. \A q \in Procs : q # p => pc[q] = "idle" /\ q \notin open
    BY <1>10 DEF Begin
  <2>3. BeforeSwap' /\ TmpWhole' /\ AfterSwap'
    BY <1>10, <2>2 DEF Begin
  <2>4. NoStaleReport' /\ FailureLeavesPrior' /\ CommitIsStored'
    BY <1>10, <2>2 DEF Begin
  <2> QED
    BY <2>1, <2>3, <2>4
<1>11. CASE RemoveStaleLock
  BY <1>11 DEF RemoveStaleLock
<1>12. CASE UNCHANGED storeVars
  BY <1>12 DEF storeVars
<1> QED
  BY <1>1, <1>2, <1>3, <1>4, <1>5, <1>6, <1>7, <1>8, <1>9, <1>10, <1>11, <1>12
  DEF StoreNext, WriteStep

\* Without short writes, Store keeps the inductive invariant.
THEOREM StoreInvariance == NoShortWrites => (StoreSpec => []StoreIInv)
<1> SUFFICES ASSUME NoShortWrites PROVE StoreSpec => []StoreIInv
  OBVIOUS
<1>1. StoreInit => StoreIInv
  BY InitStoreIInv
<1>2. StoreIInv /\ [StoreNext]_storeVars => StoreIInv'
  BY NextStoreIInv
<1> QED
  BY <1>1, <1>2, PTL DEF StoreSpec

\* Atomicity (store.py:6-8): no crash, error or interleaving of processes ever
\* leaves a torn file.
THEOREM NoTornFile == NoShortWrites => (StoreSpec => []NeverTorn)
<1>1. StoreIInv => NeverTorn
  BY DEF StoreIInv
<1> QED
  BY <1>1, StoreInvariance, PTL

\* The lock file of Store.__init__ admits one writer at a time, also across
\* crashes and the removal of stale locks.
THEOREM SingleWriter == NoShortWrites => (StoreSpec => []OneWriter)
<1>1. StoreIInv => OneWriter
  BY DEF StoreIInv
<1> QED
  BY <1>1, StoreInvariance, PTL

\* What write() reports is so: after "committed" the value is the file's, after
\* WriteFailedError the file is what it was before the call.
THEOREM ReportsAreTrue ==
  NoShortWrites => (StoreSpec => []ReportsTrue)
<1>1. StoreIInv => ReportsTrue
  BY DEF StoreIInv, ReportsTrue
<1> QED
  BY <1>1, StoreInvariance, PTL

\* Every step of the system calls of write() is a write of the abstract store
\* or leaves it alone.
LEMMA StepRefines ==
  ASSUME NoShortWrites, StoreIInv, [StoreNext]_storeVars
  PROVE  [Abstract!Next]_file
<1>1. ASSUME NEW p \in Procs, Replace(p) PROVE Abstract!Next
  <2> DEFINE k == arg[p].key
             v == arg[p].value
  <2>1. k \in Keys /\ v \in Values
    BY DEF StoreIInv, StoreTypeOK, Calls
  <2>2. k \in OnceKeys => file[k] = Missing
    BY <1>1 DEF StoreIInv, BeforeSwap, Replace, At
  <2>3. file' = [file EXCEPT ![k] = v]
    BY <1>1 DEF StoreIInv, TmpWhole, Replace, At
  <2> QED
    BY <2>1, <2>2, <2>3 DEF Abstract!Next, Abstract!Write
<1>2. ASSUME NEW p \in Procs, Open(p) \/ Close(p) \/ Crash(p) PROVE UNCHANGED file
  BY <1>2 DEF Open, Close, Crash
<1>3. ASSUME NEW p \in Procs,
             CreateTmp(p) \/ WriteTmp(p) \/ Fsync(p) \/ OsError(p) \/ Emit(p)
      PROVE  UNCHANGED file
  BY <1>3 DEF CreateTmp, WriteTmp, Fsync, OsError, Emit
<1>4. ASSUME NEW p \in Procs, NEW k \in Keys, NEW v \in Values, Begin(p, k, v)
      PROVE  UNCHANGED file
  BY <1>4 DEF Begin
<1>5. CASE RemoveStaleLock
  BY <1>5 DEF RemoveStaleLock
<1>6. CASE UNCHANGED storeVars
  BY <1>6 DEF storeVars
<1> QED
  BY <1>1, <1>2, <1>3, <1>4, <1>5, <1>6 DEF StoreNext, WriteStep

\* The store of temporary files, renames and locks implements the store that
\* changes one key at a time, and a write_once key only once.
THEOREM ImplementsAtomicStore == NoShortWrites => (StoreSpec => AtomicWrites)
<1> SUFFICES ASSUME NoShortWrites PROVE StoreSpec => AtomicWrites
  OBVIOUS
<1>1. StoreInit => Abstract!Init
  BY DEF StoreInit, Abstract!Init
<1>2. StoreIInv /\ [StoreNext]_storeVars => [Abstract!Next]_file
  BY StepRefines
<1> QED
  BY <1>1, <1>2, StoreInvariance, PTL DEF StoreSpec, AtomicWrites, Abstract!Spec

\* Locking, atomicity and reports together: what the run of the store checks, for
\* any processes, keys and values.
THEOREM StoreIsSound == NoShortWrites => (StoreSpec => []StoreSound)
<1> SUFFICES ASSUME NoShortWrites PROVE StoreSpec => []StoreSound
  OBVIOUS
<1>1. StoreSpec => []NeverTorn
  BY NoTornFile
<1>2. StoreSpec => []OneWriter
  BY SingleWriter
<1>3. StoreSpec => []ReportsTrue
  BY ReportsAreTrue
<1> QED
  BY <1>1, <1>2, <1>3, PTL DEF StoreSound

-----------------------------------------------------------------------------
(* Workflow: what a unit's state says of the units around it.              *)

\* Only an executing unit waits for a verdict.
ExecOkExecuting == \A u \in execOk : unit[u] = "executing"

\* Before activation nothing has run.
NothingRanBefore == status = "none" => \A u \in wf.units : unit[u] \in {"pending", "not_executed"}

WorkflowIInv ==
  /\ TypeOK
  /\ ExecOkExecuting
  /\ NothingRanBefore
  /\ DependencyIntegrity
  /\ UnselectedNeverRuns
  /\ StatusHonest
  /\ OutcomesAnnounced

\* The groups of a well-formed artifact.
LEMMA GroupFacts ==
  ASSUME WellFormed(wf)
  PROVE  /\ Len(wf.groups) \in Nat /\ Groups = 1..Len(wf.groups)
         /\ \A g \in Groups : /\ wf.groups[g] \in Seq(wf.units)
                             /\ wf.groups[g][1] \in Members(g)
                             /\ Members(g) \subseteq wf.units
<1>1. Len(wf.groups) \in Nat /\ Groups = 1..Len(wf.groups)
  BY LenProperties DEF WellFormed, Groups
<1>2. ASSUME NEW g \in Groups
      PROVE  /\ wf.groups[g] \in Seq(wf.units)
             /\ wf.groups[g][1] \in Members(g)
             /\ Members(g) \subseteq wf.units
  <2>1. PICK members : members = wf.groups[g]
    OBVIOUS
  <2>2. members \in Seq(wf.units) /\ members # <<>>
    BY <1>1, <2>1, ElementOfSeq DEF WellFormed, Groups
  <2>3. DOMAIN members = 1..Len(members) /\ 1 \in 1..Len(members)
    BY <2>2, LenProperties, EmptySeq
  <2>4. \A i \in 1..Len(members) : members[i] \in wf.units
    BY <2>2, ElementOfSeq
  <2> QED
    BY <2>1, <2>2, <2>3, <2>4 DEF Members, Range1
<1> QED
  BY <1>1, <1>2

\* A new WorkflowRun.
NewRun ==
  /\ status = "none"
  /\ unit = [u \in wf.units |-> "pending"]
  /\ execOk = {}
  /\ selected = [g \in Groups |-> NoUnit]
  /\ events = {}

LEMMA NewRunIInv == (WellFormed(wf) /\ NoUnit \notin wf.units /\ NewRun) => WorkflowIInv
<1> SUFFICES ASSUME WellFormed(wf), NoUnit \notin wf.units, NewRun PROVE WorkflowIInv
  OBVIOUS
<1>1. TypeOK
  <2>1. status \in Statuses /\ execOk \subseteq wf.units
    BY DEF NewRun, Statuses
  <2>2. unit \in [wf.units -> UnitStates]
    BY DEF NewRun, UnitStates
  <2>3. selected \in [Groups -> wf.units \cup {NoUnit}] /\ \A g \in Groups : selected[g] = NoUnit
    BY DEF NewRun
  <2> QED
    BY <2>1, <2>2, <2>3 DEF TypeOK
<1>2. \A u \in wf.units : unit[u] = "pending"
  BY DEF NewRun
<1>3. ExecOkExecuting /\ NothingRanBefore /\ DependencyIntegrity /\ UnselectedNeverRuns
  <2>1. \A g \in Groups : Members(g) \subseteq wf.units
    BY GroupFacts
  <2> QED
    BY <1>2, <2>1 DEF NewRun, ExecOkExecuting, NothingRanBefore, DependencyIntegrity,
                      UnselectedNeverRuns
<1>4. StatusHonest /\ OutcomesAnnounced
  BY <1>2 DEF NewRun, StatusHonest, OutcomesAnnounced
<1> QED
  BY <1>1, <1>3, <1>4 DEF WorkflowIInv

LEMMA InitWorkflowIInv == Init => WorkflowIInv
BY WorkflowAssumption, NewRunIInv DEF Init, NewRun

\* A unit that ran is not in a group without a selection, so selecting in such
\* groups turns only pending or not executed units into losers.
LEMMA SelectionKeeps ==
  ASSUME WorkflowIInv,
         NEW losers \in SUBSET wf.units,
         \A u \in losers : \E g \in Groups : u \in Members(g) /\ selected[g] = NoUnit,
         unit' = [u \in wf.units |-> IF u \in losers THEN "not_executed" ELSE unit[u]],
         UNCHANGED <<wf, execOk>>
  PROVE  /\ unit' \in [wf.units -> UnitStates]
         /\ \A u \in losers : unit[u] \in {"pending", "not_executed"}
         /\ \A u \in wf.units : unit[u] \in {"executing", "succeeded", "failed"} =>
                                  unit'[u] = unit[u]
         /\ \A u \in wf.units : unit'[u] \in {"executing", "succeeded", "failed"} =>
                                  unit'[u] = unit[u]
<1>1. \A u \in losers : unit[u] \in {"pending", "not_executed"}
  BY WorkflowAssumption DEF WorkflowIInv, TypeOK, UnselectedNeverRuns, UnitStates
<1> QED
  BY <1>1 DEF WorkflowIInv, TypeOK, UnitStates

LEMMA NextWorkflowIInv == WorkflowIInv /\ [Next]_vars => WorkflowIInv'
<1> SUFFICES ASSUME WorkflowIInv, [Next]_vars PROVE WorkflowIInv'
  OBVIOUS
<1> USE DEF WorkflowIInv
<1>1. ASSUME NEW g \in Groups, NEW u \in Members(g), SelectBranch(g, u) PROVE WorkflowIInv'
  <2> DEFINE losers == Members(g) \ {u}
  <2>1. losers \in SUBSET wf.units /\ Members(g) \subseteq wf.units
    BY GroupFacts DEF TypeOK
  <2>2. /\ unit' = [v \in wf.units |-> IF v \in losers THEN "not_executed" ELSE unit[v]]
        /\ selected[g] = NoUnit
        /\ selected' = [selected EXCEPT ![g] = u]
        /\ UNCHANGED <<wf, status, execOk, events>>
    BY <1>1 DEF SelectBranch
  <2>3. /\ unit' \in [wf.units -> UnitStates]
        /\ \A v \in losers : unit[v] \in {"pending", "not_executed"}
        /\ \A v \in wf.units : unit[v] \in {"executing", "succeeded", "failed"} =>
                                 unit'[v] = unit[v]
        /\ \A v \in wf.units : unit'[v] \in {"executing", "succeeded", "failed"} =>
                                 unit'[v] = unit[v]
    <3>1. \A v \in losers : \E h \in Groups : v \in Members(h) /\ selected[h] = NoUnit
      BY <2>2
    <3> HIDE DEF losers
    <3> QED
      BY <2>1, <2>2, <3>1, SelectionKeeps
  <2>4. TypeOK' /\ ExecOkExecuting'
    <3>1. Groups' = Groups /\ \A h \in Groups : Members(h)' = Members(h)
      BY <2>2 DEF Groups, Members
    <3>2. selected' \in [Groups -> wf.units \cup {NoUnit}]
      BY <2>1, <2>2 DEF TypeOK
    <3>3. \A h \in Groups : selected'[h] \in Members(h) \cup {NoUnit}
      BY <2>2 DEF TypeOK
    <3>4. TypeOK'
      BY <2>2, <2>3, <3>1, <3>2, <3>3 DEF TypeOK
    <3>5. ExecOkExecuting'
      BY <2>2, <2>3 DEF TypeOK, ExecOkExecuting
    <3> QED
      BY <3>4, <3>5
  <2>5. NothingRanBefore' /\ DependencyIntegrity'
    BY <2>2, <2>3 DEF NothingRanBefore, DependencyIntegrity, TypeOK, WellFormed
  <2>6. UnselectedNeverRuns'
    <3>1. /\ \A h \in Groups : h # g => selected'[h] = selected[h]
          /\ selected'[g] = u
      BY <2>2 DEF TypeOK
    <3>2. \A h \in Groups : \A v \in Members(h) :
            unit'[v] \in {"executing", "succeeded", "failed"} => selected'[h] = v
      <4>1. \A h \in Groups : Members(h) \subseteq wf.units
        BY GroupFacts DEF TypeOK
      <4> QED
        BY <2>2, <2>3, <3>1, <4>1 DEF UnselectedNeverRuns
    <3> QED
      BY <2>2, <3>2 DEF UnselectedNeverRuns, Groups, Members
  <2>7. StatusHonest'
    BY <2>2, <2>3 DEF StatusHonest, Blocking, Terminal, TypeOK, UnitStates
  <2>8. OutcomesAnnounced'
    BY <2>2, <2>3 DEF OutcomesAnnounced
  <2> QED
    BY <2>4, <2>5, <2>6, <2>7, <2>8
<1>2. CASE Activate
  <2>0. PICK n \in 0..Len(wf.groups) : ActivateFirst(n)
    BY <1>2 DEF Activate
  <2> DEFINE now  == 1..n
             best == [g \in Groups |-> wf.groups[g][1]]
  <2>1. /\ status = "none"
        /\ status' = "active"
        /\ selected' = [g \in Groups |-> IF g <= n THEN best[g] ELSE selected[g]]
        /\ unit' = [u \in wf.units |->
                      IF u \in Losers(now, best) THEN "not_executed" ELSE unit[u]]
        /\ events' = events \cup {<<NoUnit, "workflow.created">>}
                            \cup {<<u, "task.scheduled">> : u \in wf.units}
        /\ UNCHANGED <<wf, execOk>>
    BY <2>0, Zenon DEF ActivateFirst
  <2>2. now \subseteq Groups /\ \A g \in now : selected[g] = NoUnit
    <3>1. \A g \in 1..n : selected[g] = NoUnit
      BY <2>0 DEF ActivateFirst
    <3>2. Len(wf.groups) \in Nat /\ Groups = 1..Len(wf.groups)
      BY LenProperties DEF TypeOK, WellFormed, Groups
    <3> QED
      BY <3>1, <3>2
  <2>3. \A g \in Groups : best[g] \in Members(g)
    BY DEF TypeOK, WellFormed, Groups, Members, Range1
  <2> HIDE DEF now, best
  <2>4. /\ unit' \in [wf.units -> UnitStates]
        /\ \A v \in Losers(now, best) : unit[v] \in {"pending", "not_executed"}
        /\ \A v \in wf.units : unit[v] \in {"executing", "succeeded", "failed"} =>
                                 unit'[v] = unit[v]
        /\ \A v \in wf.units : unit'[v] \in {"executing", "succeeded", "failed"} =>
                                 unit'[v] = unit[v]
    <3>1. /\ Losers(now, best) \in SUBSET wf.units
          /\ \A v \in Losers(now, best) :
               \E h \in Groups : v \in Members(h) /\ selected[h] = NoUnit
      BY <2>2 DEF Losers
    <3> QED
      BY <2>1, <3>1, SelectionKeeps
  <2>5. TypeOK' /\ ExecOkExecuting'
    <3>1. Groups' = Groups /\ \A h \in Groups : Members(h)' = Members(h)
      BY <2>1 DEF Groups, Members
    <3>2. \A h \in Groups : Members(h) \subseteq wf.units
      BY GroupFacts DEF TypeOK
    <3>3. selected' \in [Groups -> wf.units \cup {NoUnit}]
      BY <2>1, <2>3, <3>2 DEF TypeOK
    <3>4. \A h \in Groups : selected'[h] \in Members(h) \cup {NoUnit}
      BY <2>1, <2>3 DEF TypeOK
    <3>5. TypeOK'
      BY <2>1, <2>4, <3>1, <3>3, <3>4 DEF TypeOK, Statuses
    <3>6. ExecOkExecuting'
      BY <2>1, <2>4 DEF TypeOK, ExecOkExecuting
    <3> QED
      BY <3>5, <3>6
  <2>6. \A u \in wf.units : unit'[u] \in {"pending", "not_executed"}
    BY <2>1, <2>4 DEF NothingRanBefore
  <2>7. NothingRanBefore' /\ DependencyIntegrity' /\ UnselectedNeverRuns' /\ StatusHonest'
    <3>1. \A h \in Groups : Members(h) \subseteq wf.units
      BY GroupFacts DEF TypeOK
    <3>2. UnselectedNeverRuns'
      BY <2>1, <2>6, <3>1 DEF UnselectedNeverRuns, Groups, Members
    <3> QED
      BY <2>1, <2>6, <3>2 DEF NothingRanBefore, DependencyIntegrity, StatusHonest, Blocking
  <2>8. OutcomesAnnounced'
    <3>1. \A u \in wf.units : unit[u] \in {"pending", "not_executed"}
      BY <2>1 DEF NothingRanBefore
    <3>2. \A u \in wf.units : <<u, "task.completed">> \notin events'
                             /\ <<u, "task.failed">> \notin events'
      BY <2>1, <3>1 DEF OutcomesAnnounced
    <3> QED
      BY <2>1, <2>6, <3>2 DEF OutcomesAnnounced
  <2> QED
    BY <2>5, <2>7, <2>8
<1>3. CASE Cancel
  BY <1>3 DEF Cancel, TypeOK, ExecOkExecuting, NothingRanBefore, DependencyIntegrity,
     UnselectedNeverRuns, StatusHonest, OutcomesAnnounced, Statuses, Groups, Members, Blocking
<1>4. ASSUME NEW u \in wf.units, NEW ok \in BOOLEAN, DispatchNext(u, ok) PROVE WorkflowIInv'
  <2>1. /\ status = "active"
        /\ unit[u] = "pending"
        /\ \A g \in Groups : u \in Members(g) => selected[g] = u
        /\ \A p \in wf.preds[u] : unit[p] = "succeeded"
        /\ UNCHANGED <<wf, selected>>
    BY <1>4 DEF DispatchNext, Ready, BranchAllows
  <2>2. u \notin wf.preds[u] /\ u \notin execOk
    BY <2>1 DEF ExecOkExecuting
  <2>3. CASE ok
    <3>1. /\ unit' = [unit EXCEPT ![u] = "executing"]
          /\ execOk' = execOk \cup {u}
          /\ events' = events \cup {<<u, "task.started">>, <<u, "verify.requested">>}
          /\ status' = status
      BY <1>4, <2>3 DEF DispatchNext
    <3>2. TypeOK' /\ ExecOkExecuting' /\ NothingRanBefore'
      BY <2>1, <3>1 DEF TypeOK, ExecOkExecuting, NothingRanBefore, UnitStates, Groups, Members
    <3>3. DependencyIntegrity' /\ UnselectedNeverRuns'
      BY <2>1, <3>1 DEF DependencyIntegrity, UnselectedNeverRuns, TypeOK, WellFormed,
                        Groups, Members
    <3>4. StatusHonest'
      BY <2>1, <3>1 DEF StatusHonest, Blocking, TypeOK
    <3>5. OutcomesAnnounced'
      BY <2>1, <3>1 DEF OutcomesAnnounced, TypeOK
    <3> QED
      BY <3>2, <3>3, <3>4, <3>5
  <2>4. CASE ~ok
    <3>1. /\ unit' = [unit EXCEPT ![u] = "failed"]
          /\ status' = Settled(status, unit')
          /\ execOk' = execOk
          /\ events' = events \cup {<<u, "task.started">>, <<u, "task.failed">>}
      BY <1>4, <2>4 DEF DispatchNext, Terminate
    <3>2. status' \in {"active", "completed", "failed"}
      BY <2>1, <3>1 DEF Settled
    <3>3. TypeOK' /\ ExecOkExecuting' /\ NothingRanBefore'
      BY <2>1, <2>2, <3>1, <3>2 DEF TypeOK, ExecOkExecuting, NothingRanBefore, UnitStates,
         Statuses, Groups, Members
    <3>4. DependencyIntegrity' /\ UnselectedNeverRuns'
      BY <2>1, <3>1 DEF DependencyIntegrity, UnselectedNeverRuns, TypeOK, WellFormed,
                        Groups, Members
    <3>5. StatusHonest'
      BY <2>1, <3>1, <3>3 DEF StatusHonest, Settled, Blocking, TypeOK, Terminal, ExecOkExecuting
    <3>6. OutcomesAnnounced'
      BY <2>1, <3>1 DEF OutcomesAnnounced, TypeOK
    <3> QED
      BY <3>3, <3>4, <3>5, <3>6
  <2> QED
    BY <2>3, <2>4
<1>5. ASSUME NEW u \in wf.units, NEW passed \in BOOLEAN, OnVerdict(u, passed) PROVE WorkflowIInv'
  <2>1. PICK out : /\ out \in {"succeeded", "failed"}
                   /\ unit' = [unit EXCEPT ![u] = out]
                   /\ events' = events \cup
                        {<<u, IF out = "succeeded" THEN "task.completed" ELSE "task.failed">>}
    BY <1>5 DEF OnVerdict, Terminate
  <2>2. /\ unit[u] = "executing"
        /\ status' = Settled(status, unit')
        /\ execOk' = execOk \ {u}
        /\ UNCHANGED <<wf, selected>>
    BY <1>5 DEF OnVerdict, Terminate, ExecOkExecuting
  <2>3. status # "none" /\ status' \in Statuses \ {"none"}
    BY <2>2 DEF Settled, NothingRanBefore, TypeOK, Statuses
  <2>4. TypeOK' /\ ExecOkExecuting' /\ NothingRanBefore'
    BY <2>1, <2>2, <2>3 DEF TypeOK, ExecOkExecuting, NothingRanBefore, UnitStates, Groups, Members
  <2>5. DependencyIntegrity' /\ UnselectedNeverRuns'
    BY <2>1, <2>2 DEF DependencyIntegrity, UnselectedNeverRuns, TypeOK, WellFormed,
                      Groups, Members
  <2>6. StatusHonest'
    BY <2>1, <2>2, <2>4 DEF StatusHonest, Settled, Blocking, TypeOK, Terminal,
       ExecOkExecuting, Statuses
  <2>7. OutcomesAnnounced'
    BY <2>1, <2>2 DEF OutcomesAnnounced, TypeOK
  <2> QED
    BY <2>4, <2>5, <2>6, <2>7
<1>6. CASE UNCHANGED vars
  BY <1>6 DEF vars, TypeOK, ExecOkExecuting, NothingRanBefore, DependencyIntegrity,
     UnselectedNeverRuns, StatusHonest, OutcomesAnnounced, Groups, Members, Blocking
<1> QED
  BY <1>1, <1>2, <1>3, <1>4, <1>5, <1>6 DEF Next, Dispatch, Verdict

\* Workflow keeps the inductive invariant.
THEOREM WorkflowInvariance == Spec => []WorkflowIInv
BY InitWorkflowIInv, NextWorkflowIInv, PTL DEF Spec

\* WS-E1, E2, E3: no unit is dispatched before the success of every predecessor
\* was verified (ready() of runtime.py), for every artifact.
THEOREM NoDependencyBypass == Spec => []DependencyIntegrity
<1>1. WorkflowIInv => DependencyIntegrity
  BY DEF WorkflowIInv
<1> QED
  BY <1>1, WorkflowInvariance, PTL

\* WS-E4: _branch_allows keeps the losers of a selection from running.
THEOREM LosersNeverRun == Spec => []UnselectedNeverRuns
<1>1. WorkflowIInv => UnselectedNeverRuns
  BY DEF WorkflowIInv
<1> QED
  BY <1>1, WorkflowInvariance, PTL

\* WS/02 10b: _settle completes a workflow exactly when it may, and its events
\* tell the outcomes of its units.
THEOREM StatusTellsTheTruth == Spec => [](StatusHonest /\ OutcomesAnnounced)
<1>1. WorkflowIInv => StatusHonest /\ OutcomesAnnounced
  BY DEF WorkflowIInv
<1> QED
  BY <1>1, WorkflowInvariance, PTL

\* WS-E1 to E4 and WS/02 10b together: what the run of the scheduler checks of
\* every WorkflowRun, here for every artifact.
THEOREM RunsAreLawful == Spec => []RunLawful
<1>1. WorkflowIInv => RunLawful
  BY DEF WorkflowIInv, RunLawful
<1> QED
  BY <1>1, WorkflowInvariance, PTL

-----------------------------------------------------------------------------
(* Workflow: what the journal rebuilds.                                    *)

LEMMA LeastNatural ==
  ASSUME NEW T \in SUBSET Nat, T # {}
  PROVE  \E x \in T : \A y \in T : x <= y
<1>1. IsWellFoundedOn({p \in Nat \X Nat : p[1] < p[2]}, Nat)
  BY NatLessThanWellFounded DEF OpToRel
<1>2. PICK x \in T : \A y \in T : ~(<<y, x>> \in {p \in Nat \X Nat : p[1] < p[2]})
  BY <1>1, WFMin
<1>3. ASSUME NEW y \in T PROVE x <= y
  <2>1. x \in Nat /\ y \in Nat /\ ~(x > y)
    BY <1>2
  <2> QED
    BY <2>1
<1> QED
  BY <1>3

\* Induction up to a bound, over a set.
LEMMA Ascend ==
  ASSUME NEW L \in Nat, NEW Good, 0 \in Good,
         \A n \in 1..L : n - 1 \in Good => n \in Good
  PROVE  \A n \in 0..L : n \in Good
<1> SUFFICES ASSUME NEW k \in 0..L, k \notin Good PROVE FALSE
  OBVIOUS
<1>1. PICK T : T = {n \in 0..L : n \notin Good}
  OBVIOUS
<1>2. T \in SUBSET Nat /\ T # {}
  BY <1>1
<1>3. PICK m \in T : \A y \in T : m <= y
  BY <1>2, LeastNatural
<1>4. m \in 1..L /\ m - 1 \in 0..L /\ ~(m <= m - 1)
  BY <1>1, <1>3
<1>5. m - 1 \in Good
  BY <1>1, <1>3, <1>4
<1> QED
  BY <1>1, <1>3, <1>4, <1>5

IsSeq(s) == \E S : s \in Seq(S)

LEMMA ConcatIsSeq ==
  ASSUME NEW a, IsSeq(a), NEW b, IsSeq(b)
  PROVE  IsSeq(a \o b) /\ a \o <<>> = a
<1>1. PICK A : a \in Seq(A)
  BY DEF IsSeq
<1>2. PICK B : b \in Seq(B)
  BY DEF IsSeq
<1>3. PICK S : S = A \cup B
  OBVIOUS
<1>4. a \in Seq(S) /\ b \in Seq(S)
  BY <1>1, <1>2, <1>3, SeqMonotonic
<1>5. a \o b \in Seq(S) /\ a \o <<>> = a
  BY <1>4, ConcatProperties, ConcatEmptySeq
<1> QED
  BY <1>5 DEF IsSeq

LEMMA ConcatRegroups ==
  ASSUME NEW a, IsSeq(a), NEW b, IsSeq(b), NEW c, IsSeq(c)
  PROVE  a \o (b \o c) = (a \o b) \o c
<1>1. PICK A : a \in Seq(A)
  BY DEF IsSeq
<1>2. PICK B : b \in Seq(B)
  BY DEF IsSeq
<1>3. PICK C : c \in Seq(C)
  BY DEF IsSeq
<1>4. PICK S : S = A \cup B \cup C
  OBVIOUS
<1>5. a \in Seq(S) /\ b \in Seq(S) /\ c \in Seq(S)
  BY <1>1, <1>2, <1>3, <1>4, SeqMonotonic
<1> QED
  BY <1>5, ConcatAssociative

LEMMA AppendIsSeq ==
  ASSUME NEW s, IsSeq(s), NEW x
  PROVE  /\ IsSeq(Append(s, x)) /\ Len(s) \in Nat /\ Len(Append(s, x)) = Len(s) + 1
         /\ \A i \in 1..Len(s) : Append(s, x)[i] = s[i]
         /\ Append(s, x)[Len(s) + 1] = x
         /\ Append(s, x) = s \o <<x>> /\ IsSeq(<<x>>)
<1>1. PICK A : s \in Seq(A)
  BY DEF IsSeq
<1>2. PICK S : S = A \cup {x}
  OBVIOUS
<1>3. s \in Seq(S) /\ x \in S
  BY <1>1, <1>2, SeqMonotonic
<1>4. Append(s, x) \in Seq(S) /\ Append(s, x) = s \o <<x>>
  BY <1>3, AppendProperties, AppendIsConcat
<1>5. <<x>> \in Seq(S)
  BY <1>3
<1> QED
  BY <1>3, <1>4, <1>5, AppendProperties, LenProperties DEF IsSeq

\* p is what ReplayFrom computes, record by record.
IsAfter(p, run, s) ==
  p = [n \in 0..Len(s) |-> IF n = 0 THEN run ELSE ReplayRecord(p[n - 1], s[n])]

LEMMA AfterExists ==
  ASSUME NEW s, IsSeq(s), NEW run
  PROVE  \E p : IsAfter(p, run, s) /\ ReplayFrom(run, s) = p[Len(s)]
<1>1. PICK L \in Nat : L = Len(s)
  BY AppendIsSeq
<1> DEFINE Step(p, n) == IF n = 0 THEN run ELSE ReplayRecord(p[n - 1], s[n])
           Upto(m) == \E p : p = [n \in 0..m |-> Step(p, n)]
<1>2. Upto(0)
  <2>1. PICK p : p = [n \in 0..0 |-> run]
    OBVIOUS
  <2>2. p = [n \in 0..0 |-> Step(p, n)]
    BY <2>1
  <2> QED
    BY <2>2
<1>3. ASSUME NEW m \in Nat, Upto(m) PROVE Upto(m + 1)
  <2>1. PICK p : p = [n \in 0..m |-> Step(p, n)]
    BY <1>3
  <2>2. PICK q : q = [n \in 0..m+1 |-> IF n = m + 1 THEN Step(p, n) ELSE p[n]]
    OBVIOUS
  <2>3. ASSUME NEW n \in 0..m+1 PROVE q[n] = Step(q, n)
    <3>1. n # 0 => n - 1 \in 0..m /\ q[n - 1] = p[n - 1]
      BY <2>2
    <3>2. Step(p, n) = Step(q, n)
      BY <3>1
    <3>3. n # m + 1 => n \in 0..m
      OBVIOUS
    <3>4. n # m + 1 => q[n] = Step(p, n)
      <4> HIDE DEF Step
      <4> QED
        BY <2>1, <2>2, <3>3
    <3>5. n = m + 1 => q[n] = Step(p, n)
      <4> HIDE DEF Step
      <4> QED
        BY <2>2
    <3> HIDE DEF Step
    <3> QED
      BY <3>2, <3>4, <3>5
  <2>4. q = [n \in 0..m+1 |-> Step(q, n)]
    <3> HIDE DEF Step
    <3> QED
      BY <2>2, <2>3
  <2> QED
    BY <2>4
<1>4. Upto(L)
  <2> HIDE DEF Upto
  <2>1. PICK Good : Good = {m \in 0..L : Upto(m)}
    OBVIOUS
  <2>2. 0 \in Good
    BY <1>2, <2>1
  <2>3. ASSUME NEW n \in 1..L, n - 1 \in Good PROVE n \in Good
    <3>1. n - 1 \in Nat /\ (n - 1) + 1 = n /\ Upto(n - 1)
      BY <2>1, <2>3
    <3>2. Upto((n - 1) + 1)
      BY <1>3, <3>1
    <3> QED
      BY <2>1, <3>1, <3>2
  <2> QED
    BY <2>1, <2>2, <2>3, Ascend
<1>5. \E p : IsAfter(p, run, s)
  BY <1>1, <1>4 DEF IsAfter
<1>6. PICK p : p = CHOOSE q : IsAfter(q, run, s)
  OBVIOUS
<1>7. IsAfter(p, run, s)
  BY <1>5, <1>6
<1>8. ReplayFrom(run, s) = p[Len(s)]
  BY <1>6 DEF ReplayFrom, IsAfter
<1> QED
  BY <1>7, <1>8

LEMMA AfterSteps ==
  ASSUME NEW s, NEW run, NEW p, IsAfter(p, run, s), NEW L \in Nat, L = Len(s)
  PROVE  p[0] = run /\ \A n \in 1..L : p[n] = ReplayRecord(p[n - 1], s[n])
<1>1. \A n \in 0..Len(s) : p[n] = IF n = 0 THEN run ELSE ReplayRecord(p[n - 1], s[n])
  BY Zenon DEF IsAfter
<1>2. 0 \in 0..L /\ \A n \in 1..L : n \in 0..L /\ n # 0
  OBVIOUS
<1> QED
  BY <1>1, <1>2

\* One record more is one step more.
LEMMA ReplayAppend ==
  ASSUME NEW s, IsSeq(s), NEW run, NEW r
  PROVE  ReplayFrom(run, Append(s, r)) = ReplayRecord(ReplayFrom(run, s), r)
<1>1. PICK t : t = Append(s, r)
  OBVIOUS
<1>2. PICK L \in Nat : L = Len(s)
  BY AppendIsSeq
<1>3. IsSeq(t) /\ Len(t) = L + 1 /\ t[L + 1] = r /\ \A n \in 1..L : t[n] = s[n]
  BY <1>1, <1>2, AppendIsSeq
<1>4. PICK p : IsAfter(p, run, s) /\ ReplayFrom(run, s) = p[L]
  BY <1>2, AfterExists
<1>5. PICK q : IsAfter(q, run, t) /\ ReplayFrom(run, t) = q[L + 1]
  BY <1>3, AfterExists
<1>6. p[0] = run /\ \A n \in 1..L : p[n] = ReplayRecord(p[n - 1], s[n])
  BY <1>2, <1>4, AfterSteps
<1>7. q[0] = run /\ \A n \in 1..(L + 1) : q[n] = ReplayRecord(q[n - 1], t[n])
  BY <1>3, <1>5, AfterSteps
<1>8. PICK Good : Good = {n \in 0..L : q[n] = p[n]}
  OBVIOUS
<1>9. 0 \in Good
  BY <1>6, <1>7, <1>8
<1>10. ASSUME NEW n \in 1..L, n - 1 \in Good PROVE n \in Good
  <2>1. n \in 1..(L + 1) /\ n \in 0..L /\ q[n - 1] = p[n - 1]
    BY <1>8, <1>10
  <2>2. q[n] = ReplayRecord(p[n - 1], s[n])
    BY <1>3, <1>7, <2>1
  <2> QED
    BY <1>6, <1>8, <2>1, <2>2
<1>11. L \in Good
  BY <1>9, <1>10, Ascend
<1>12. q[L] = p[L] /\ L + 1 \in 1..(L + 1) /\ (L + 1) - 1 = L
  BY <1>8, <1>11
<1>13. q[L + 1] = ReplayRecord(q[L], t[L + 1])
  BY <1>7, <1>12
<1> QED
  BY <1>1, <1>3, <1>4, <1>5, <1>12, <1>13

LEMMA ReplayNothing == ASSUME NEW run PROVE ReplayFrom(run, <<>>) = run
<1>1. <<>> \in Seq({}) /\ Len(<<>>) = 0
  BY EmptySeq
<1>2. IsSeq(<<>>)
  BY <1>1 DEF IsSeq
<1>3. PICK p : IsAfter(p, run, <<>>) /\ ReplayFrom(run, <<>>) = p[0]
  BY <1>1, <1>2, AfterExists
<1> QED
  BY <1>1, <1>3, AfterSteps

\* A run with these fields.
RunOf(st, us, ok, sel) == [status |-> st, unit |-> us, execOk |-> ok, selected |-> sel]

\* Wherever replay is at run a, the records X take it to run b.
Leads(a, X, b) ==
  IsSeq(X) /\ \A c, s : IsSeq(s) /\ ReplayFrom(c, s) = a => ReplayFrom(c, s \o X) = b

LEMMA LeadsNowhere == ASSUME NEW a PROVE Leads(a, <<>>, a)
<1>1. IsSeq(<<>>)
  BY EmptySeq DEF IsSeq
<1> QED
  BY <1>1, ConcatIsSeq DEF Leads

LEMMA LeadsConcat ==
  ASSUME NEW a, NEW b, NEW c, NEW X, NEW Y, Leads(a, X, b), Leads(b, Y, c)
  PROVE  Leads(a, X \o Y, c)
<1>1. IsSeq(X) /\ IsSeq(Y) /\ IsSeq(X \o Y)
  BY ConcatIsSeq DEF Leads
<1>2. ASSUME NEW d, NEW s, IsSeq(s), ReplayFrom(d, s) = a
      PROVE  ReplayFrom(d, s \o (X \o Y)) = c
  <2>1. ReplayFrom(d, s \o X) = b
    BY <1>2 DEF Leads
  <2>2. IsSeq(s \o X) /\ s \o (X \o Y) = (s \o X) \o Y
    BY <1>1, <1>2, ConcatIsSeq, ConcatRegroups
  <2>3. ReplayFrom(d, (s \o X) \o Y) = c
    BY <2>1, <2>2 DEF Leads
  <2> QED
    BY <2>2, <2>3
<1> QED
  BY <1>1, <1>2 DEF Leads

LEMMA LeadsRecord ==
  ASSUME NEW a, NEW r
  PROVE  Leads(a, <<r>>, ReplayRecord(a, r))
<1>1. IsSeq(<<r>>)
  BY EmptySeq, AppendIsSeq DEF IsSeq
<1>2. ASSUME NEW d, NEW s, IsSeq(s), ReplayFrom(d, s) = a
      PROVE  ReplayFrom(d, s \o <<r>>) = ReplayRecord(a, r)
  <2>1. Append(s, r) = s \o <<r>>
    BY <1>2, AppendIsSeq
  <2> QED
    BY <1>2, <2>1, ReplayAppend
<1> QED
  BY <1>1, <1>2 DEF Leads

LEMMA LeadsAppend ==
  ASSUME NEW a, NEW b, NEW X, Leads(a, X, b), NEW r
  PROVE  Leads(a, Append(X, r), ReplayRecord(b, r))
<1>1. Append(X, r) = X \o <<r>>
  BY AppendIsSeq DEF Leads
<1> QED
  BY <1>1, LeadsRecord, LeadsConcat

\* p is what SelectionRecords computes, member by member.
IsSelection(p, members, g, winner) ==
  p = [i \in 0..Len(members) |->
         IF i = 0 THEN <<Rec("selected", winner, g)>>
         ELSE IF members[i] = winner THEN p[i - 1]
         ELSE Append(p[i - 1], Rec("terminal", members[i], "not_executed"))]

LEMMA SelectionExists ==
  ASSUME NEW g, NEW winner, IsSeq(wf.groups[g])
  PROVE  \E p : /\ IsSelection(p, wf.groups[g], g, winner)
                /\ SelectionRecords(g, winner) = p[Len(wf.groups[g])]
<1>0. PICK members : members = wf.groups[g]
  OBVIOUS
<1>1. PICK L \in Nat : L = Len(members)
  BY <1>0, AppendIsSeq
<1> DEFINE Step(p, n) == IF n = 0 THEN <<Rec("selected", winner, g)>>
                         ELSE IF members[n] = winner THEN p[n - 1]
                         ELSE Append(p[n - 1], Rec("terminal", members[n], "not_executed"))
           Upto(m) == \E p : p = [n \in 0..m |-> Step(p, n)]
<1>2. Upto(0)
  <2>1. PICK p : p = [n \in 0..0 |-> <<Rec("selected", winner, g)>>]
    OBVIOUS
  <2>2. p = [n \in 0..0 |-> Step(p, n)]
    BY <2>1
  <2> QED
    BY <2>2
<1>3. ASSUME NEW m \in Nat, Upto(m) PROVE Upto(m + 1)
  <2>1. PICK p : p = [n \in 0..m |-> Step(p, n)]
    BY <1>3
  <2>2. PICK q : q = [n \in 0..m+1 |-> IF n = m + 1 THEN Step(p, n) ELSE p[n]]
    OBVIOUS
  <2>3. ASSUME NEW n \in 0..m+1 PROVE q[n] = Step(q, n)
    <3>1. n # 0 => n - 1 \in 0..m /\ q[n - 1] = p[n - 1]
      BY <2>2
    <3>2. Step(p, n) = Step(q, n)
      BY <3>1
    <3>3. n # m + 1 => n \in 0..m
      OBVIOUS
    <3>4. n # m + 1 => q[n] = Step(p, n)
      <4> HIDE DEF Step
      <4> QED
        BY <2>1, <2>2, <3>3
    <3>5. n = m + 1 => q[n] = Step(p, n)
      <4> HIDE DEF Step
      <4> QED
        BY <2>2
    <3> HIDE DEF Step
    <3> QED
      BY <3>2, <3>4, <3>5
  <2>4. q = [n \in 0..m+1 |-> Step(q, n)]
    <3> HIDE DEF Step
    <3> QED
      BY <2>2, <2>3
  <2> QED
    BY <2>4
<1>4. Upto(L)
  <2> HIDE DEF Upto
  <2>1. PICK Good : Good = {m \in 0..L : Upto(m)}
    OBVIOUS
  <2>2. 0 \in Good
    BY <1>2, <2>1
  <2>3. ASSUME NEW n \in 1..L, n - 1 \in Good PROVE n \in Good
    <3>1. n - 1 \in Nat /\ (n - 1) + 1 = n /\ Upto(n - 1)
      BY <2>1, <2>3
    <3>2. Upto((n - 1) + 1)
      BY <1>3, <3>1
    <3> QED
      BY <2>1, <3>1, <3>2
  <2> QED
    BY <2>1, <2>2, <2>3, Ascend
<1>5. \E p : IsSelection(p, members, g, winner)
  BY <1>1, <1>4 DEF IsSelection
<1>6. PICK p : p = CHOOSE q : IsSelection(q, members, g, winner)
  OBVIOUS
<1>7. IsSelection(p, members, g, winner)
  BY <1>5, <1>6
<1>8. SelectionRecords(g, winner) = p[Len(members)]
  BY <1>0, <1>6 DEF SelectionRecords, IsSelection
<1> QED
  BY <1>0, <1>7, <1>8

\* The units when, of the first n of these members, only the winner is left.
OneLeft(us, members, winner, n) ==
  [v \in DOMAIN us |-> IF \E i \in 1..n : members[i] = v /\ v # winner THEN "not_executed"
                                                                       ELSE us[v]]

\* The records of a selection rebuild it.
LEMMA SelectionRebuilt ==
  ASSUME NEW g, NEW winner, IsSeq(wf.groups[g]), NEW st, NEW us, NEW ok, NEW sel,
         us = [v \in DOMAIN us |-> us[v]]
  PROVE  Leads(RunOf(st, us, ok, sel), SelectionRecords(g, winner),
               RunOf(st, OneLeft(us, wf.groups[g], winner, Len(wf.groups[g])), ok,
                     [sel EXCEPT ![g] = winner]))
<1>1. PICK members : members = wf.groups[g]
  OBVIOUS
<1>2. PICK L \in Nat : L = Len(members)
  BY <1>1, AppendIsSeq
<1>3. PICK p : IsSelection(p, members, g, winner) /\ SelectionRecords(g, winner) = p[L]
  BY <1>1, <1>2, SelectionExists
<1>4. /\ p[0] = <<Rec("selected", winner, g)>>
      /\ \A n \in 1..L : p[n] = IF members[n] = winner THEN p[n - 1]
                                ELSE Append(p[n - 1], Rec("terminal", members[n], "not_executed"))
  <2>1. \A n \in 0..Len(members) :
          p[n] = IF n = 0 THEN <<Rec("selected", winner, g)>>
                 ELSE IF members[n] = winner THEN p[n - 1]
                 ELSE Append(p[n - 1], Rec("terminal", members[n], "not_executed"))
    BY <1>3, Zenon DEF IsSelection
  <2>2. 0 \in 0..L /\ \A n \in 1..L : n \in 0..L /\ n # 0
    OBVIOUS
  <2> QED
    BY <1>2, <2>1, <2>2
<1>5. PICK sel2 : sel2 = [sel EXCEPT ![g] = winner]
  OBVIOUS
<1>6. PICK run : run = RunOf(st, us, ok, sel)
  OBVIOUS
<1>7. PICK Good : Good = {n \in 0..L : Leads(run, p[n], RunOf(st, OneLeft(us, members, winner, n), ok, sel2))}
  OBVIOUS
<1>8. 0 \in Good
  <2>1. OneLeft(us, members, winner, 0) = us
    BY DEF OneLeft
  <2>2. ReplayRecord(RunOf(st, us, ok, sel), Rec("selected", winner, g))
          = RunOf(st, us, ok, [sel EXCEPT ![g] = winner])
    BY DEF ReplayRecord, Rec, RunOf
  <2>3. Leads(run, <<Rec("selected", winner, g)>>, ReplayRecord(run, Rec("selected", winner, g)))
    BY LeadsRecord
  <2>4. Leads(run, p[0], RunOf(st, us, ok, sel2))
    BY <1>4, <1>5, <1>6, <2>2, <2>3
  <2>5. Leads(run, p[0], RunOf(st, OneLeft(us, members, winner, 0), ok, sel2))
    BY <2>1, <2>4
  <2> QED
    BY <1>7, <2>5
<1>9. ASSUME NEW n \in 1..L, n - 1 \in Good PROVE n \in Good
  <2>1. PICK b : b = OneLeft(us, members, winner, n - 1)
    OBVIOUS
  <2>2. PICK a : a = OneLeft(us, members, winner, n)
    OBVIOUS
  <2>3. n \in 0..L /\ Leads(run, p[n - 1], RunOf(st, b, ok, sel2))
    BY <1>7, <1>9, <2>1
  <2>4. PICK m \in Nat : m = n - 1 /\ n = m + 1
    OBVIOUS
  <2>5. CASE members[n] = winner
    <3>1. a = b
      BY <2>1, <2>2, <2>4, <2>5 DEF OneLeft
    <3> QED
      BY <1>4, <1>7, <2>2, <2>3, <2>5, <3>1
  <2>6. CASE members[n] # winner
    <3>1. a = [b EXCEPT ![members[n]] = "not_executed"]
      BY <2>1, <2>2, <2>4, <2>6 DEF OneLeft
    <3>2. ReplayRecord(RunOf(st, b, ok, sel2), Rec("terminal", members[n], "not_executed"))
            = RunOf(st, [b EXCEPT ![members[n]] = "not_executed"], ok, sel2)
      BY DEF ReplayRecord, Rec, RunOf
    <3>3. p[n] = Append(p[n - 1], Rec("terminal", members[n], "not_executed"))
      BY <1>4, <2>6
    <3>4. Leads(run, p[n], RunOf(st, a, ok, sel2))
      BY <2>3, <3>1, <3>2, <3>3, LeadsAppend
    <3> QED
      BY <1>7, <2>2, <2>3, <3>4
  <2> QED
    BY <2>5, <2>6
<1>10. L \in Good
  BY <1>8, <1>9, Ascend
<1> QED
  BY <1>1, <1>2, <1>3, <1>5, <1>6, <1>7, <1>10

\* p is what ActivationRecords computes, group by group.
IsActivation(p, n) ==
  p = [g \in 0..n |-> IF g = 0 THEN <<Rec("activated", NoUnit, "active")>>
                      ELSE p[g - 1] \o SelectionRecords(g, wf.groups[g][1])]

LEMMA ActivationExists ==
  ASSUME NEW L \in Nat
  PROVE  \E p : IsActivation(p, L) /\ ActivationRecords(L) = p[L]
<1> DEFINE Step(p, n) == IF n = 0 THEN <<Rec("activated", NoUnit, "active")>>
                         ELSE p[n - 1] \o SelectionRecords(n, wf.groups[n][1])
           Upto(m) == \E p : p = [n \in 0..m |-> Step(p, n)]
<1>2. Upto(0)
  <2>1. PICK p : p = [n \in 0..0 |-> <<Rec("activated", NoUnit, "active")>>]
    OBVIOUS
  <2>2. p = [n \in 0..0 |-> Step(p, n)]
    BY <2>1
  <2> QED
    BY <2>2
<1>3. ASSUME NEW m \in Nat, Upto(m) PROVE Upto(m + 1)
  <2>1. PICK p : p = [n \in 0..m |-> Step(p, n)]
    BY <1>3
  <2>2. PICK q : q = [n \in 0..m+1 |-> IF n = m + 1 THEN Step(p, n) ELSE p[n]]
    OBVIOUS
  <2>3. ASSUME NEW n \in 0..m+1 PROVE q[n] = Step(q, n)
    <3>1. n # 0 => n - 1 \in 0..m /\ q[n - 1] = p[n - 1]
      BY <2>2
    <3>2. Step(p, n) = Step(q, n)
      BY <3>1
    <3>3. n # m + 1 => n \in 0..m
      OBVIOUS
    <3>4. n # m + 1 => q[n] = Step(p, n)
      <4> HIDE DEF Step
      <4> QED
        BY <2>1, <2>2, <3>3
    <3>5. n = m + 1 => q[n] = Step(p, n)
      <4> HIDE DEF Step
      <4> QED
        BY <2>2
    <3> HIDE DEF Step
    <3> QED
      BY <3>2, <3>4, <3>5
  <2>4. q = [n \in 0..m+1 |-> Step(q, n)]
    <3> HIDE DEF Step
    <3> QED
      BY <2>2, <2>3
  <2> QED
    BY <2>4
<1>4. Upto(L)
  <2> HIDE DEF Upto
  <2>1. PICK Good : Good = {m \in 0..L : Upto(m)}
    OBVIOUS
  <2>2. 0 \in Good
    BY <1>2, <2>1
  <2>3. ASSUME NEW n \in 1..L, n - 1 \in Good PROVE n \in Good
    <3>1. n - 1 \in Nat /\ (n - 1) + 1 = n /\ Upto(n - 1)
      BY <2>1, <2>3
    <3>2. Upto((n - 1) + 1)
      BY <1>3, <3>1
    <3> QED
      BY <2>1, <3>1, <3>2
  <2> QED
    BY <2>1, <2>2, <2>3, Ascend
<1>5. \E p : IsActivation(p, L)
  BY <1>4 DEF IsActivation
<1>6. PICK p : p = CHOOSE q : IsActivation(q, L)
  OBVIOUS
<1>7. IsActivation(p, L)
  BY <1>5, <1>6
<1>8. ActivationRecords(L) = p[L]
  BY <1>6 DEF ActivationRecords, IsActivation
<1> QED
  BY <1>7, <1>8

Best == [g \in Groups |-> wf.groups[g][1]]
Left(us, n) == [u \in wf.units |-> IF u \in Losers(1..n, Best) THEN "not_executed" ELSE us[u]]
Chosen(sel, n) == [g \in Groups |-> IF g <= n THEN Best[g] ELSE sel[g]]

\* The records of an activation rebuild it.
LEMMA ActivationRebuilt ==
  ASSUME WellFormed(wf), NEW L \in 0..Len(wf.groups), NEW us, NEW ok, NEW sel,
         us = [u \in wf.units |-> us[u]], sel = [g \in Groups |-> sel[g]]
  PROVE  Leads(RunOf("none", us, ok, sel), ActivationRecords(L),
               RunOf("active", Left(us, L), ok, Chosen(sel, L)))
<1>1. /\ Len(wf.groups) \in Nat /\ Groups = 1..Len(wf.groups)
      /\ \A g \in Groups : IsSeq(wf.groups[g])
  BY LenProperties DEF WellFormed, Groups, IsSeq
<1>2. L \in Nat /\ \A g \in 1..L : g \in Groups
  BY <1>1
<1>3. PICK p : IsActivation(p, L) /\ ActivationRecords(L) = p[L]
  BY <1>2, ActivationExists
<1>4. /\ p[0] = <<Rec("activated", NoUnit, "active")>>
      /\ \A n \in 1..L : p[n] = p[n - 1] \o SelectionRecords(n, wf.groups[n][1])
  <2>1. \A n \in 0..L :
          p[n] = IF n = 0 THEN <<Rec("activated", NoUnit, "active")>>
                 ELSE p[n - 1] \o SelectionRecords(n, wf.groups[n][1])
    BY <1>3, Zenon DEF IsActivation
  <2>2. 0 \in 0..L /\ \A n \in 1..L : n \in 0..L /\ n # 0
    BY <1>2
  <2> QED
    BY <2>1, <2>2
<1>5. PICK run : run = RunOf("none", us, ok, sel)
  OBVIOUS
<1>6. PICK Good : Good = {n \in 0..L : Leads(run, p[n], RunOf("active", Left(us, n), ok, Chosen(sel, n)))}
  OBVIOUS
<1>7. 0 \in Good
  <2>1. Left(us, 0) = us
    <3>1. Losers(1..0, Best) = {}
      BY DEF Losers
    <3> QED
      BY <3>1 DEF Left
  <2>2. Chosen(sel, 0) = sel
    <3>1. \A g \in Groups : ~(g <= 0)
      BY <1>1
    <3> QED
      BY <3>1 DEF Chosen
  <2>3. ReplayRecord(RunOf("none", us, ok, sel), Rec("activated", NoUnit, "active"))
          = RunOf("active", us, ok, sel)
    BY DEF ReplayRecord, Rec, RunOf
  <2>4. Leads(run, <<Rec("activated", NoUnit, "active")>>,
              ReplayRecord(run, Rec("activated", NoUnit, "active")))
    BY LeadsRecord
  <2>5. Leads(run, p[0], RunOf("active", us, ok, sel))
    BY <1>4, <1>5, <2>3, <2>4
  <2>6. Leads(run, p[0], RunOf("active", Left(us, 0), ok, Chosen(sel, 0)))
    BY <2>1, <2>2, <2>5
  <2> QED
    BY <1>2, <1>6, <2>6
<1>8. ASSUME NEW n \in 1..L, n - 1 \in Good PROVE n \in Good
  <2>1. PICK b : b = Left(us, n - 1)
    OBVIOUS
  <2>2. PICK c : c = Chosen(sel, n - 1)
    OBVIOUS
  <2>3. n \in 0..L /\ Leads(run, p[n - 1], RunOf("active", b, ok, c))
    BY <1>6, <1>8, <2>1, <2>2
  <2>4. PICK m \in Nat : m = n - 1 /\ n = m + 1
    OBVIOUS
  <2>5. n \in Groups /\ IsSeq(wf.groups[n]) /\ Best[n] = wf.groups[n][1]
    BY <1>1, <1>2 DEF Best
  <2>6. PICK w : w = wf.groups[n][1]
    OBVIOUS
  <2>7. b = [v \in DOMAIN b |-> b[v]] /\ DOMAIN b = wf.units
    BY <2>1 DEF Left
  <2>8. Leads(RunOf("active", b, ok, c), SelectionRecords(n, w),
              RunOf("active", OneLeft(b, wf.groups[n], w, Len(wf.groups[n])), ok,
                    [c EXCEPT ![n] = w]))
    BY <2>5, <2>7, SelectionRebuilt
  <2>9. OneLeft(b, wf.groups[n], w, Len(wf.groups[n])) = Left(us, n)
    <3>1. \A u \in wf.units : (\E i \in 1..Len(wf.groups[n]) : wf.groups[n][i] = u) <=> u \in Members(n)
      <4>1. DOMAIN wf.groups[n] = 1..Len(wf.groups[n])
        BY <2>5, LenProperties DEF IsSeq
      <4> QED
        BY <4>1 DEF Members, Range1
    <3>2. \A u \in wf.units : u \in Losers(1..n, Best)
            <=> u \in Losers(1..m, Best) \/ (u \in Members(n) /\ u # Best[n])
      <4>1. \A h : h \in 1..n <=> h \in 1..m \/ h = n
        BY <2>4
      <4> QED
        BY <4>1 DEF Losers
    <3>3. \A u \in wf.units : b[u] = IF u \in Losers(1..m, Best) THEN "not_executed" ELSE us[u]
      BY <2>1, <2>4 DEF Left
    <3>4. OneLeft(b, wf.groups[n], w, Len(wf.groups[n]))
            = [u \in wf.units |-> IF u \in Members(n) /\ u # w THEN "not_executed" ELSE b[u]]
      BY <2>7, <3>1 DEF OneLeft
    <3>5. PICK now, past : now = Losers(1..n, Best) /\ past = Losers(1..m, Best)
      OBVIOUS
    <3>6. Left(us, n) = [u \in wf.units |-> IF u \in now THEN "not_executed" ELSE us[u]]
      BY <3>5 DEF Left
    <3>7. \A u \in wf.units : /\ u \in now <=> u \in past \/ (u \in Members(n) /\ u # w)
                             /\ b[u] = IF u \in past THEN "not_executed" ELSE us[u]
      BY <2>5, <2>6, <3>2, <3>3, <3>5
    <3>8. \A u \in wf.units : (IF u \in Members(n) /\ u # w THEN "not_executed" ELSE b[u])
                               = (IF u \in now THEN "not_executed" ELSE us[u])
      BY <3>7
    <3>9. [u \in wf.units |-> IF u \in Members(n) /\ u # w THEN "not_executed" ELSE b[u]]
            = [u \in wf.units |-> IF u \in now THEN "not_executed" ELSE us[u]]
      BY <3>8, Zenon
    <3> QED
      BY <3>4, <3>6, <3>9
  <2>10. [c EXCEPT ![n] = w] = Chosen(sel, n)
    <3>1. \A g \in Groups : g <= n <=> g <= m \/ g = n
      BY <1>1, <2>4
    <3> QED
      BY <2>2, <2>4, <2>5, <2>6, <3>1 DEF Chosen
  <2>11. p[n] = p[n - 1] \o SelectionRecords(n, w)
    BY <1>4, <2>6
  <2>12. Leads(run, p[n], RunOf("active", Left(us, n), ok, Chosen(sel, n)))
    BY <2>3, <2>8, <2>9, <2>10, <2>11, LeadsConcat
  <2> QED
    BY <1>6, <2>3, <2>12
<1>9. L \in Good
  BY <1>2, <1>7, <1>8, Ascend
<1> QED
  BY <1>3, <1>5, <1>6, <1>9

\* The run in memory, as replay would return it.
Now == RunOf(status, unit, execOk, selected)

Rebuilt == IsSeq(journal) /\ Replay(journal) = Now

\* A step that logs records which lead replay from the run to the next run.
LEMMA StaysRebuilt ==
  ASSUME Rebuilt, wf' = wf, NEW X, journal' = journal \o X, Leads(Now, X, Now')
  PROVE  Rebuilt'
<1>1. PICK blank : blank = Blank
  OBVIOUS
<1>2. Blank' = blank
  BY <1>1 DEF Blank, Groups
<1>3. IsSeq(journal) /\ ReplayFrom(blank, journal) = Now /\ IsSeq(X)
  BY <1>1 DEF Rebuilt, Replay, Leads
<1>4. ReplayFrom(blank, journal \o X) = Now'
  BY <1>3 DEF Leads
<1>5. IsSeq(journal \o X)
  BY <1>3, ConcatIsSeq
<1>6. ReplayFrom(blank, journal') = Now' /\ IsSeq(journal')
  BY <1>4, <1>5
<1>7. Replay(journal)' = ReplayFrom(blank, journal')
  BY <1>2 DEF Replay
<1> QED
  BY <1>6, <1>7 DEF Rebuilt

\* _terminal and _settle, behind what their caller logged.
LEMMA TerminateRebuilt ==
  ASSUME Rebuilt, wf' = wf, selected' = selected, NEW us, NEW u, NEW out, NEW before,
         Leads(Now, before, RunOf(status, us, execOk', selected)),
         [us EXCEPT ![u] = out] = [unit EXCEPT ![u] = out],
         Terminate(u, out, before)
  PROVE  Rebuilt'
<1> DEFINE t == Rec("terminal", u, out)
           s == SettleRecord(status, status')
           mid == RunOf(status, unit', execOk', selected)
<1>1. unit' = [us EXCEPT ![u] = out] /\ journal' = journal \o before \o <<t>> \o s
  BY DEF Terminate
<1>2. ReplayRecord(RunOf(status, us, execOk', selected), t) = mid
  BY <1>1 DEF ReplayRecord, Rec, RunOf
<1>3. Leads(RunOf(status, us, execOk', selected), <<t>>,
            ReplayRecord(RunOf(status, us, execOk', selected), t))
  BY LeadsRecord
<1>4. Leads(mid, s, RunOf(status', unit', execOk', selected))
  <2>1. CASE status = status'
    <3>1. s = <<>> /\ RunOf(status', unit', execOk', selected) = mid
      BY <2>1 DEF SettleRecord
    <3> HIDE DEF s, mid
    <3> QED
      BY <3>1, LeadsNowhere
  <2>2. CASE status # status'
    <3>1. s = <<Rec("workflow_terminal", NoUnit, status')>>
      BY <2>2 DEF SettleRecord
    <3>2. ReplayRecord(mid, Rec("workflow_terminal", NoUnit, status'))
            = RunOf(status', unit', execOk', selected)
      BY DEF ReplayRecord, Rec, RunOf
    <3>3. Leads(mid, <<Rec("workflow_terminal", NoUnit, status')>>,
                ReplayRecord(mid, Rec("workflow_terminal", NoUnit, status')))
      BY LeadsRecord
    <3> HIDE DEF s, mid
    <3> QED
      BY <3>1, <3>2, <3>3
  <2> QED
    BY <2>1, <2>2
<1> HIDE DEF t, s, mid
<1>5. Leads(Now, before \o <<t>>, mid)
  BY <1>2, <1>3, LeadsConcat
<1>6. Leads(Now, (before \o <<t>>) \o s, RunOf(status', unit', execOk', selected))
  BY <1>4, <1>5, LeadsConcat
<1>7. Now' = RunOf(status', unit', execOk', selected)
  BY DEF Now
<1>8. IsSeq(journal) /\ IsSeq(before) /\ IsSeq(<<t>>) /\ IsSeq(s) /\ IsSeq(before \o <<t>>)
  BY <1>3, <1>4, <1>5 DEF Rebuilt, Leads
<1>9. journal' = (journal \o (before \o <<t>>)) \o s
  <2>1. journal \o (before \o <<t>>) = (journal \o before) \o <<t>>
    BY <1>8, ConcatRegroups
  <2> QED
    BY <1>1, <2>1
<1>10. journal' = journal \o ((before \o <<t>>) \o s)
  <2>1. journal \o ((before \o <<t>>) \o s) = (journal \o (before \o <<t>>)) \o s
    BY <1>8, ConcatRegroups
  <2> QED
    BY <1>9, <2>1
<1> QED
  BY <1>6, <1>7, <1>10, StaysRebuilt

LEMMA NextRebuilt == ASSUME WorkflowIInv, Rebuilt, [Next]_vars PROVE Rebuilt'
<1> USE DEF Now
<1>0. /\ WellFormed(wf) /\ unit = [u \in wf.units |-> unit[u]]
      /\ selected = [g \in Groups |-> selected[g]] /\ IsSeq(journal)
  <2>1. unit \in [wf.units -> UnitStates] /\ selected \in [Groups -> wf.units \cup {NoUnit}]
    BY DEF WorkflowIInv, TypeOK
  <2>2. WellFormed(wf) /\ IsSeq(journal)
    BY DEF WorkflowIInv, TypeOK, Rebuilt
  <2> QED
    BY <2>1, <2>2
<1>1. ASSUME NEW g \in Groups, NEW u \in Members(g), SelectBranch(g, u) PROVE Rebuilt'
  <2>1. /\ wf' = wf /\ status' = status /\ execOk' = execOk
        /\ selected' = [selected EXCEPT ![g] = u]
        /\ unit' = [v \in wf.units |-> IF v \in Members(g) \ {u} THEN "not_executed" ELSE unit[v]]
        /\ journal' = journal \o SelectionRecords(g, u)
    BY <1>1 DEF SelectBranch
  <2>2. IsSeq(wf.groups[g])
    BY <1>0 DEF WellFormed, Groups, IsSeq
  <2>3. unit = [v \in DOMAIN unit |-> unit[v]] /\ DOMAIN unit = wf.units
    BY <1>0
  <2>4. unit' = OneLeft(unit, wf.groups[g], u, Len(wf.groups[g]))
    <3>1. DOMAIN wf.groups[g] = 1..Len(wf.groups[g])
      BY <2>2, LenProperties DEF IsSeq
    <3>2. \A v \in wf.units : (\E i \in 1..Len(wf.groups[g]) : wf.groups[g][i] = v) <=> v \in Members(g)
      BY <3>1 DEF Members, Range1
    <3> QED
      BY <2>1, <2>3, <3>2 DEF OneLeft
  <2>5. Leads(RunOf(status, unit, execOk, selected), SelectionRecords(g, u),
              RunOf(status, OneLeft(unit, wf.groups[g], u, Len(wf.groups[g])), execOk,
                    [selected EXCEPT ![g] = u]))
    BY <2>2, <2>3, SelectionRebuilt
  <2>6. Leads(Now, SelectionRecords(g, u), Now')
    BY <2>1, <2>4, <2>5
  <2> QED
    BY <2>1, <2>6, StaysRebuilt
<1>2. CASE Activate
  <2>1. PICK n \in 0..Len(wf.groups) : ActivateFirst(n)
    BY <1>2 DEF Activate
  <2>2. /\ wf' = wf /\ status = "none" /\ status' = "active" /\ execOk' = execOk
        /\ selected' = Chosen(selected, n) /\ unit' = Left(unit, n)
        /\ journal' = journal \o ActivationRecords(n)
    BY <2>1 DEF ActivateFirst, Chosen, Left, Best
  <2>3. Leads(RunOf("none", unit, execOk, selected), ActivationRecords(n),
              RunOf("active", Left(unit, n), execOk, Chosen(selected, n)))
    BY <1>0, ActivationRebuilt
  <2>4. Leads(Now, ActivationRecords(n), Now')
    BY <2>2, <2>3
  <2> QED
    BY <2>2, <2>4, StaysRebuilt
<1>3. CASE Cancel
  <2>1. /\ journal' = Append(journal, Rec("cancelled", NoUnit, "cancelled"))
        /\ status' = "cancelled" /\ UNCHANGED <<wf, unit, execOk, selected>>
    BY <1>3 DEF Cancel
  <2>2. ReplayRecord(Now, Rec("cancelled", NoUnit, "cancelled")) = Now'
    BY <2>1 DEF ReplayRecord, Rec, RunOf
  <2>3. Leads(Now, <<Rec("cancelled", NoUnit, "cancelled")>>,
              ReplayRecord(Now, Rec("cancelled", NoUnit, "cancelled")))
    BY LeadsRecord
  <2>4. journal' = journal \o <<Rec("cancelled", NoUnit, "cancelled")>>
    BY <1>0, <2>1, AppendIsSeq
  <2> QED
    BY <2>1, <2>2, <2>3, <2>4, StaysRebuilt
<1>4. ASSUME NEW u \in wf.units, NEW ok \in BOOLEAN, DispatchNext(u, ok) PROVE Rebuilt'
  <2> DEFINE d == Rec("dispatched", u, "executing")
             x == Rec("exec_result", u, ok)
             ran == [unit EXCEPT ![u] = "executing"]
  <2>1. wf' = wf /\ selected' = selected
    BY <1>4 DEF DispatchNext
  <2>2. Leads(Now, <<d>>, RunOf(status, ran, execOk, selected))
    <3>1. ReplayRecord(Now, d) = RunOf(status, ran, execOk, selected)
      BY DEF ReplayRecord, Rec, RunOf
    <3>2. Leads(Now, <<d>>, ReplayRecord(Now, d))
      BY LeadsRecord
    <3> QED
      BY <3>1, <3>2
  <2>3. <<d, x>> = <<d>> \o <<x>>
    OBVIOUS
  <2>4. CASE ok
    <3>1. /\ unit' = ran /\ execOk' = execOk \cup {u} /\ status' = status
          /\ journal' = journal \o <<d, x>>
      BY <1>4, <2>4 DEF DispatchNext
    <3>2. ReplayRecord(RunOf(status, ran, execOk, selected), x)
            = RunOf(status, ran, execOk \cup {u}, selected)
      BY <2>4 DEF ReplayRecord, Rec, RunOf
    <3>3. Leads(RunOf(status, ran, execOk, selected), <<x>>,
                ReplayRecord(RunOf(status, ran, execOk, selected), x))
      BY LeadsRecord
    <3> HIDE DEF d, x, ran
    <3>4. Leads(Now, <<d>> \o <<x>>, RunOf(status, ran, execOk \cup {u}, selected))
      BY <2>2, <3>2, <3>3, LeadsConcat
    <3>5. Leads(Now, <<d, x>>, Now')
      BY <2>1, <2>3, <3>1, <3>4
    <3> QED
      BY <2>1, <3>1, <3>5, StaysRebuilt
  <2>5. CASE ~ok
    <3>1. Terminate(u, "failed", <<d, x>>) /\ execOk' = execOk
      BY <1>4, <2>5 DEF DispatchNext
    <3>2. ReplayRecord(RunOf(status, ran, execOk, selected), x)
            = RunOf(status, ran, execOk, selected)
      BY <2>5 DEF ReplayRecord, Rec, RunOf
    <3>3. Leads(RunOf(status, ran, execOk, selected), <<x>>,
                ReplayRecord(RunOf(status, ran, execOk, selected), x))
      BY LeadsRecord
    <3>4. [ran EXCEPT ![u] = "failed"] = [unit EXCEPT ![u] = "failed"]
      BY <1>0
    <3> HIDE DEF d, x, ran
    <3>5. Leads(Now, <<d>> \o <<x>>, RunOf(status, ran, execOk, selected))
      BY <2>2, <3>2, <3>3, LeadsConcat
    <3>6. Leads(Now, <<d, x>>, RunOf(status, ran, execOk, selected))
      BY <2>3, <3>5
    <3> QED
      BY <2>1, <3>1, <3>4, <3>6, TerminateRebuilt
  <2> QED
    BY <2>4, <2>5
<1>5. ASSUME NEW u \in wf.units, NEW passed \in BOOLEAN, OnVerdict(u, passed) PROVE Rebuilt'
  <2> DEFINE v == Rec("verdict", u, passed)
             out == IF passed THEN "succeeded" ELSE "failed"
  <2>1. /\ wf' = wf /\ selected' = selected /\ execOk' = execOk \ {u}
        /\ Terminate(u, out, <<v>>)
    BY <1>5 DEF OnVerdict
  <2>2. ReplayRecord(Now, v) = RunOf(status, unit, execOk \ {u}, selected)
    BY DEF ReplayRecord, Rec, RunOf
  <2>3. Leads(Now, <<v>>, ReplayRecord(Now, v))
    BY LeadsRecord
  <2> HIDE DEF v, out
  <2>4. Leads(Now, <<v>>, RunOf(status, unit, execOk', selected))
    BY <2>1, <2>2, <2>3
  <2> QED
    BY <2>1, <2>4, TerminateRebuilt
<1>6. CASE UNCHANGED vars
  BY <1>6 DEF vars, Rebuilt, Replay, Blank, Groups
<1> QED
  BY <1>1, <1>2, <1>3, <1>4, <1>5, <1>6 DEF Next, Dispatch, Verdict

\* runtime.py:3-7: every state change of a WorkflowRun is one journal record, so
\* that replay of the journal is the run in memory, for every artifact and after
\* any calls, verdicts and failures.
THEOREM JournalIsTheRun == Spec => []ReplayIdentical
<1>1. Init => WorkflowIInv /\ Rebuilt
  <2> SUFFICES ASSUME Init PROVE Rebuilt
    BY InitWorkflowIInv
  <2>1. journal = <<>> /\ IsSeq(journal)
    BY EmptySeq DEF Init, IsSeq
  <2>2. Replay(journal) = Blank
    BY <2>1, ReplayNothing DEF Replay
  <2>3. Blank = Now
    BY DEF Init, Blank, Now, RunOf
  <2> QED
    BY <2>1, <2>2, <2>3 DEF Rebuilt
<1>2. (WorkflowIInv /\ Rebuilt) /\ [Next]_vars => (WorkflowIInv /\ Rebuilt)'
  BY NextWorkflowIInv, NextRebuilt
<1>3. WorkflowIInv /\ Rebuilt => ReplayIdentical
  BY DEF Rebuilt, ReplayIdentical, Now, RunOf
<1> QED
  BY <1>1, <1>2, <1>3, PTL DEF Spec
=============================================================================
