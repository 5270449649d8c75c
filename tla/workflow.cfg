SPECIFICATION SchedulerFairSpec
CONSTANTS
  InputGraphs <- AllGraphs
  Drafts <- MCDrafts
  Requests <- MCRequests
  Commands <- MCCommands
  Artifacts <- Compiled
  NoUnit = NoUnit
INVARIANTS CompilesExactly RunLawful 
PROPERTY Settles
CHECK_DEADLOCK FALSE
