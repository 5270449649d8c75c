SPECIFICATION Spec
CONSTANTS
  run = run
  exec = exec
  tokens = tokens
  level = level
  stop = stop
  r1 = r1
  alice = alice
  None = None
  Conditions <- Nodes
  Numbers = {0, 1, 2, 5}
  Vocabularies <- Words
  Drafts <- Docs
  Questions <- Asks
  Requests = {r1}
  PrincipalOf <- Everyone
  MaxVersions = 1
  MaxCatalog = 7
  MaxLedger = 2
  MaxConsults = 2
  MaxFaults = 1
INVARIANTS PrecedenceHolds WorldFrozen ReplayMatches RevocationBites
CHECK_DEADLOCK FALSE
