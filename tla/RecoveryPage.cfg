SPECIFICATION Spec
CONSTANTS
  c1 = c1
  c2 = c2
  Codes <- MCCodes
  NoCode = NoCode
  MaxDeadline = 2
  MaxTroubles = 1
  MaxCalls = 2
INVARIANTS TypeOK FinishChain
PROPERTIES  StalePageLeaves CountdownFollows
