SPECIFICATION Spec
CONSTANTS
  Providers = {"p1", "p2"}
  Capabilities = {"a1"}
  Declarations <- MCDeclarations
  Mutations <- MCMutations
  Messages <- MCMessages
  AdminActs <- MCAdminActs
  AdminBarred = {}
  Preferences <- MCPreferences
  Rank <- MCRank
  DegradeAfter = 1
  QuarantineAfter = 2
  RecoverAfter = 3
  LoadRequests <- MCLoadRequests
  MaxWork = 4
  MaxBinds = 1
INVARIANTS RegistrySound RecordsSuffice EarnedRecovery EvidenceKept
CHECK_DEADLOCK FALSE
