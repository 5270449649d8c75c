SPECIFICATION Spec
CONSTANTS
  Rids = {r1}
  Families <- SomeFamilies
  CheckpointN = 2
  RetentionWindow = 1
  None = None
  MaxEvents = 4
  MaxTime = 1
  MaxCrashes = 2
INVARIANT RecordsSound
PROPERTY StepsKeepRecords
