-------------------------------- MODULE Bus ---------------------------------
(***************************************************************************)
(* The Communication bus (src/communication/bus.py): per-topic FIFO        *)
(* queues, an append-only log per topic in Storage, backpressure, and push *)
(* delivery with bounded retries and dead letters.                         *)
(*                                                                         *)
(* Messages are numbered in the order in which publish is called.  push    *)
(* delivery is modelled call by call of the handler, because the handler   *)
(* may itself publish; the drained messages live in a local variable of    *)
(* deliver_with (`batch').  Restart is a new Bus over the same Storage.    *)
(***************************************************************************)
EXTENDS Naturals, Sequences, FiniteSets

CONSTANTS
  Topics,           \* registered topics other than delivery.failed
  Subscribers,      \* subscriber ids
  Subscriptions,    \* the (topic, subscriber) pairs of the instance
  FailedTopic,      \* delivery.failed
  HasStorage,       \* a Storage port is injected
  MaxQueueDepth,    \* max_queue_depth
  MaxAttempts,      \* max_attempts
  Unknown,          \* the topic is not a key of _log_seq
  StorageFaults,    \* subset of {"write"}: what Storage may refuse
  MaxPublishes,     \* bound: publish calls
  MaxRestarts       \* bound: restarts

AllTopics == Topics \cup {FailedTopic}

ASSUME BusAssumption ==
  /\ FailedTopic \notin Topics
  /\ Subscriptions \subseteq AllTopics \X Subscribers
  /\ HasStorage \in BOOLEAN
  /\ MaxQueueDepth \in Nat \ {0}
  /\ MaxAttempts \in Nat \ {0}
  /\ MaxPublishes \in Nat /\ MaxRestarts \in Nat
  /\ StorageFaults \subseteq {"write"}
ASSUME UnknownAssumption == Unknown \notin Nat

VARIABLES
  queues,       \* _queues: the pending messages of each subscription
  subscribed,   \* the keys of _queues
  log,          \* Storage: the persisted messages of each topic
  log_seq,      \* _log_seq: the cached next sequence number of each topic
  dead_letters, \* dead_letters: subscription and message
  batch,        \* deliver_with: the drained messages left, per subscription
  attempt,      \* deliver_with: failed calls of the handler for this message
  sent,         \* publish calls so far; numbers the messages (environment)
  restarts,     \* restarts so far (environment)
  accepted,     \* history: what publish put in each queue
  handled,      \* history: what a drain returned, a handler took or was dead-lettered
  aborted       \* history: subscriptions whose deliver_with was left by an exception

queueVars == <<queues, subscribed, log, log_seq, dead_letters, batch, attempt>>
histVars == <<accepted, handled, aborted>>
busVars == <<queues, subscribed, log, log_seq, dead_letters, batch, attempt, sent,
          restarts, accepted, handled, aborted>>

-----------------------------------------------------------------------------
SubscribersOf(topic) == {s \in Subscriptions : s \in subscribed /\ s[1] = topic}

\* Some subscriber of the topic has a full queue.
Backpressure(topic) == \E s \in SubscribersOf(topic) : Len(queues[s]) >= MaxQueueDepth

\* Mutant: the probe is off by one and stops at the last entry.
SeqFloorStopsEarly(topic) ==
  IF log_seq[topic] # Unknown THEN log_seq[topic]
  ELSE IF Len(log[topic]) > 0 THEN Len(log[topic]) - 1 ELSE 0
\* _seq_floor: cached, or a forward probe that stops at the first read that
\* raises, which is past the end of a log whose entries are all readable.
SeqFloor(topic) == IF log_seq[topic] # Unknown THEN log_seq[topic] ELSE Len(log[topic])

\* Storage.write of message m at sequence number n.
Written(entries, n, m) ==
  IF n < Len(entries) THEN [entries EXCEPT ![n + 1] = m] ELSE Append(entries, m)

\* The log write of publish.
Persist(topic, m) ==
  IF HasStorage
    THEN /\ log' = [log EXCEPT ![topic] = Written(@, SeqFloor(topic), m)]
         /\ log_seq' = [log_seq EXCEPT ![topic] = SeqFloor(topic) + 1]
    ELSE UNCHANGED <<log, log_seq>>

Added(f, topic, m) ==
  [s \in Subscriptions |-> IF s \in SubscribersOf(topic) THEN Append(f[s], m) ELSE f[s]]

\* Mutant: enqueue to the subscribers that have room, without a signal.
EnqueueWhereRoom(topic, m) ==
  LET room == {s \in SubscribersOf(topic) : Len(queues[s]) + 1 < MaxQueueDepth}
  IN /\ queues' = [s \in Subscriptions |-> IF s \in room THEN Append(queues[s], m)
                                                         ELSE queues[s]]
     /\ accepted' = [s \in Subscriptions |-> IF s \in room THEN Append(accepted[s], m)
                                                           ELSE accepted[s]]
Enqueue(topic, m) ==
  /\ queues' = Added(queues, topic, m)
  /\ accepted' = Added(accepted, topic, m)

\* publish(topic, m) when it returns.
PublishOk(topic, m) ==
  /\ ~Backpressure(topic)
  /\ Persist(topic, m)
  /\ Enqueue(topic, m)

\* publish(topic, m) when Storage.write raises: the probe is cached, nothing
\* is enqueued, and the publisher sees the exception.
PublishWriteFails(topic) ==
  /\ ~Backpressure(topic)
  /\ HasStorage
  /\ "write" \in StorageFaults
  /\ log_seq' = [log_seq EXCEPT ![topic] = SeqFloor(topic)]
  /\ UNCHANGED <<log, queues, accepted>>

\* publish(topic, m) when it raises.
PublishRaises(topic) ==
  \/ Backpressure(topic) /\ UNCHANGED <<log, log_seq, queues, accepted>>
  \/ PublishWriteFails(topic)

-----------------------------------------------------------------------------
(* Operations.                                                             *)

\* subscribe; a durable subscription without Storage and a second one raise.
Subscribe(sub) ==
  /\ sub \notin subscribed
  /\ subscribed' = subscribed \cup {sub}
  /\ queues' = [queues EXCEPT ![sub] = <<>>]
  /\ UNCHANGED <<log, log_seq, dead_letters, batch, attempt, sent, restarts, histVars>>

Publish(topic) ==
  /\ sent < MaxPublishes
  /\ PublishOk(topic, sent) \/ PublishRaises(topic)
  /\ sent' = sent + 1
  /\ UNCHANGED <<subscribed, dead_letters, batch, attempt, restarts, handled, aborted>>

\* drain, the pull side; a handler does not drain its own subscription.
Drain(sub) ==
  /\ sub \in subscribed
  /\ batch[sub] = <<>>
  /\ queues' = [queues EXCEPT ![sub] = <<>>]
  /\ handled' = [handled EXCEPT ![sub] = @ \o queues[sub]]
  /\ UNCHANGED <<subscribed, log, log_seq, dead_letters, batch, attempt, sent,
                 restarts, accepted, aborted>>

\* deliver_with: drain into the loop variable.  A failing delivery.failed
\* handler causes another delivery.failed, hence the bound on that topic.
StartDelivery(sub) ==
  /\ \A s \in Subscriptions : batch[s] = <<>>
  /\ sub \in subscribed
  /\ sub[1] = FailedTopic => sent < MaxPublishes
  /\ batch' = [batch EXCEPT ![sub] = queues[sub]]
  /\ attempt' = 0
  /\ queues' = [queues EXCEPT ![sub] = <<>>]
  /\ UNCHANGED <<subscribed, log, log_seq, dead_letters, sent, restarts, histVars>>

\* The loop is done with the head of the batch.
Done(sub) ==
  /\ batch' = [batch EXCEPT ![sub] = Tail(@)]
  /\ attempt' = 0

HandlerOk(sub) ==
  /\ batch[sub] # <<>>
  /\ Done(sub)
  /\ handled' = [handled EXCEPT ![sub] = Append(@, Head(batch[sub]))]
  /\ UNCHANGED <<queues, subscribed, log, log_seq, dead_letters, sent, restarts,
                 accepted, aborted>>

\* The handler raises and will be called again.
HandlerRetries(sub) ==
  /\ batch[sub] # <<>>
  /\ attempt + 1 < MaxAttempts
  /\ attempt' = attempt + 1
  /\ UNCHANGED <<queues, subscribed, log, log_seq, dead_letters, batch, sent,
                 restarts, histVars>>

\* Mutant: the attempts start again instead of ending in a dead letter.
HandlerExhaustedRetries(sub) ==
  /\ batch[sub] # <<>>
  /\ attempt + 1 = MaxAttempts
  /\ attempt' = 0
  /\ UNCHANGED <<queues, subscribed, log, log_seq, dead_letters, batch, sent,
                 restarts, histVars>>
\* The handler raises for the last time: dead letter, delivery.failed, go on.
\* When that publish raises, the exception leaves deliver_with and the rest of
\* the drained messages goes with it.
HandlerExhausted(sub) ==
  /\ batch[sub] # <<>>
  /\ attempt + 1 = MaxAttempts
  /\ sent' = sent + 1
  /\ dead_letters' = Append(dead_letters, <<sub, Head(batch[sub])>>)
  /\ handled' = [handled EXCEPT ![sub] = Append(@, Head(batch[sub]))]
  /\ \/ /\ PublishOk(FailedTopic, sent)
        /\ Done(sub)
        /\ UNCHANGED aborted
     \/ /\ PublishRaises(FailedTopic)
        /\ batch' = [batch EXCEPT ![sub] = <<>>]
        /\ attempt' = 0
        /\ aborted' = aborted \cup (IF Len(batch[sub]) > 1 THEN {sub} ELSE {})
  /\ UNCHANGED <<subscribed, restarts>>

\* A new Bus over the same Storage.
Restart ==
  /\ restarts < MaxRestarts
  /\ restarts' = restarts + 1
  /\ queues' = [s \in Subscriptions |-> <<>>]
  /\ subscribed' = {}
  /\ log_seq' = [t \in AllTopics |-> Unknown]
  /\ dead_letters' = <<>>
  /\ batch' = [s \in Subscriptions |-> <<>>]
  /\ attempt' = 0
  /\ accepted' = [s \in Subscriptions |-> <<>>]
  /\ handled' = [s \in Subscriptions |-> <<>>]
  /\ aborted' = {}
  /\ UNCHANGED <<log, sent>>

BusInit ==
  /\ queues = [s \in Subscriptions |-> <<>>]
  /\ subscribed = {}
  /\ log = [t \in AllTopics |-> <<>>]
  /\ log_seq = [t \in AllTopics |-> Unknown]
  /\ dead_letters = <<>>
  /\ batch = [s \in Subscriptions |-> <<>>]
  /\ attempt = 0
  /\ sent = 0
  /\ restarts = 0
  /\ accepted = [s \in Subscriptions |-> <<>>]
  /\ handled = [s \in Subscriptions |-> <<>>]
  /\ aborted = {}

DeliveryStep(sub) == HandlerOk(sub) \/ HandlerRetries(sub) \/ HandlerExhausted(sub)

BusNext ==
  \/ \E sub \in Subscriptions :
       Subscribe(sub) \/ Drain(sub) \/ StartDelivery(sub) \/ DeliveryStep(sub)
  \/ \E t \in Topics : Publish(t)
  \/ Restart

\* deliver_with is a loop: it does not stop between two handler calls.
BusFairness == WF_busVars(\E sub \in Subscriptions : DeliveryStep(sub))

BusSpec == BusInit /\ [][BusNext]_busVars
BusFairSpec == BusSpec /\ BusFairness

-----------------------------------------------------------------------------
(* Properties.                                                             *)

\* INVARIANT (Ordering and Delivery of the module's header): nothing is lost,
\* duplicated or reordered on the way to a subscriber.  What publish accepted for
\* it is what was handled, then what is being delivered, then what is queued;
\* except where an exception left deliver_with.
FifoNoLoss ==
  \A s \in Subscriptions \ aborted : accepted[s] = handled[s] \o batch[s] \o queues[s]

\* INVARIANT (persist-before-ack, Replay): with Storage, whatever a subscriber was
\* given is in the log of the topic, in the same order.
PersistedBeforeAck ==
  HasStorage => \A s \in Subscriptions :
    \A i \in 1..Len(accepted[s]) : \E k \in 1..Len(log[s[1]]) :
      /\ log[s[1]][k] = accepted[s][i]
      /\ i < Len(accepted[s]) => \E l \in k+1..Len(log[s[1]]) : log[s[1]][l] = accepted[s][i+1]

\* ACTION PROPERTY (_seq_floor): a Bus, also a fresh one over an existing log,
\* continues the log of a topic and never overwrites an entry of it, whichever
\* publishes were refused, failed or cut off before.
HistoryKept ==
  [][\A t \in AllTopics : /\ Len(log'[t]) >= Len(log[t])
                          /\ \A i \in 1..Len(log[t]) : log'[t][i] = log[t][i]]_busVars

\* INVARIANT: publish is all or nothing; two subscribers of a topic have received
\* the same messages since the later one subscribed.
SubscribersAgree ==
  \A s, r \in subscribed : s[1] = r[1] =>
    LET a == accepted[s] b == accepted[r] IN
      Len(a) <= Len(b) => a = SubSeq(b, Len(b) - Len(a) + 1, Len(b))

\* INVARIANT: queues, log and subscribers agree on what was published, and in which
\* order (publish, drain and deliver_with together).
DeliverySound == FifoNoLoss /\ SubscribersAgree /\ PersistedBeforeAck

\* LIVENESS: a poison message cannot hold up deliver_with; every delivery ends.
DeliveryEnds ==
  \A s \in Subscriptions : (batch[s] # <<>>) ~> (batch[s] = <<>>)
=============================================================================
