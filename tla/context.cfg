SPECIFICATION Spec
CONSTANTS
  None = None
  PathInfo <- MCPathInfo
  Stem <- MCStem
  Substring <- MCSubstring
  NameRank <- MCNameRank
  ModuleRank <- MCModuleRank
  TokenCaps <- MCTokenCaps
  MaxCandidates <- MCMaxCandidates
  MaxLayerPasses = 3
  Weights <- MCWeights
  DepthCap = 2
  Contents <- MCContents
  Specs <- MCSpecs
  SliceSize = 2
  MaxEdits = 2
  MaxFaults = 1
  MaxUpdates = 1
INVARIANTS FreshMeansCurrent ArchitectureCurrent  ContextSound
CHECK_DEADLOCK FALSE
