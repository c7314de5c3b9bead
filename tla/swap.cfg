SPECIFICATION OneSpec
CONSTANTS
  Callers <- MCCallers
  Domains <- MCDomains
  DomainsWanted <- MCWanted
  Rank <- MCRank
CHECK_DEADLOCK FALSE
INVARIANTS SwapsExclude LocksInOrder ChainInTurn
PROPERTIES KeepsPromise
