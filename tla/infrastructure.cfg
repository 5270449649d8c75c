SPECIFICATION InfrastructureSpec
CONSTANTS
  Topics = {t1}
  Subscribers = {a, b}
  FailedTopic = failed
  Monitor = a
  Subscriptions <- WatchedTopics
  HasStorage = TRUE
  MaxQueueDepth = 2
  MaxAttempts = 2
  Unknown = Unknown
  StorageFaults <- WriteFails
  MaxPublishes = 3
  MaxRestarts = 1
  Procs = {p, q}
  Keys = {kv, entry}
  OnceKeys = {entry}
  Values = {v1, v2}
  Missing = Missing
  Torn = Torn
  NoOne = NoOne
  OsFaults <- ErrorsAndBus
  MaxWrites = 3
INVARIANTS DeliverySound StoreSound
PROPERTIES  DeliveryEnds AtomicWrites
CHECK_DEADLOCK FALSE
