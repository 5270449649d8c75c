SPECIFICATION RecoverySpec
CONSTANTS
  Rids = {r1}
  Types = {Alpha}
  Alpha = Alpha
  Planning = Planning
  Targets = {Planning}
  NoType = NoType
  NoTarget = NoTarget
  NoEvent = NoEvent
  NoSnapshot = NoSnapshot
  Snapshots <- TwoVersions
  InitialSnapshot <- MCInitial
  DownChoices <- LogRefused
  PeerEvents <- Peers
  MaxEvents = 4
  MaxFaults = 1
  MaxRedeliveries = 0
  MaxCrashes = 2
INVARIANTS Recovered NoLostEmission
CHECK_DEADLOCK FALSE
