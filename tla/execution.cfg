SPECIFICATION FairSpec
CONSTANTS
  RetryBudgets <- OneRetry
  Faults <- AnyFault
  MaxSubmits = 2
  MaxBoots = 1
INVARIANT JournalSound
PROPERTY RunReturns
CHECK_DEADLOCK FALSE
