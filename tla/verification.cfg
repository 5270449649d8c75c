SPECIFICATION FairSpec
CONSTANTS
  Artifacts = {a}
  Delegated = {run}
  Static = {shape}
  LevelOf <- Levels
  Versions = {1, 2}
  Deadline <- OneDeadline
  Outcomes = {"success", "timeout"}
  None = None
  ModerateMin <- Half
  StrongMin <- NineTenths
  MaxDemands = 2
  MaxClock = 1
  MaxCrashes = 1
  MaxUnacked = 1
  MaxItems = 3
 
PROPERTY JudgmentEnds
CHECK_DEADLOCK FALSE
