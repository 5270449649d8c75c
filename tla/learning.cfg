SPECIFICATION Spec
CONSTANTS
  None = None
  TermRank <- MCTermRank
  HashRank <- MCHashRank
  Records <- MCRecords
  Rulings <- MCRulings
  Rulesets <- MCRulesets
  FirstRuleset <- MCFirstRuleset
  FirstTerms <- MCFirstTerms
  NewTerms <- MCNewTerms
  MaxLedger = 3
  MaxOverlay = 1
INVARIANTS OneRecordPerAttestation LayerReproducible  PublicationHeals
CHECK_DEADLOCK FALSE
