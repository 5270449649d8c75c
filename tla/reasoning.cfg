SPECIFICATION Spec
CONSTANTS
  None = None
  Injected <- MCInjected
  Mutations <- MCMutations
  SealedInputs <- MCSealedInputs
  Tasks <- MCTasks
  Schemas = {"sv"}
  Policies <- MCPolicies
  PolicyVersion = 1
  Returns <- MCReturns
  Plans <- MCPlans
  Rank <- MCRank
  MaxVersions = 7
  MaxPriors = 1
  MaxDecisions = 1
  MaxPrepared = 2
  MaxEvents = 2
INVARIANTS ResolutionSound EnvelopeHonoured  ChainDurable
CHECK_DEADLOCK FALSE
