SPECIFICATION Spec
CONSTANTS
  Rids = {r1, r2}
  Types = {Alpha}
  Alpha = Alpha
  Planning = Planning
  Targets = {Planning}
  NoType = NoType
  NoTarget = NoTarget
  NoEvent = NoEvent
  NoSnapshot = NoSnapshot
  Snapshots <- TwoVersions
  InitialSnapshot <- MCInitial
  DownChoices <- BusOutages
  PeerEvents <- Peers
  MaxEvents = 4
  MaxFaults = 1
  MaxRedeliveries = 1
INVARIANTS LedgerSound LogSound
PROPERTY StepsLawful
CHECK_DEADLOCK FALSE
