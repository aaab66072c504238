SPECIFICATION FairSpec
CONSTANTS
  Ops <- MCOps
  Stops <- MCStops
  MaxRequests = 4
  MaxAttempts = 3
  MaxOutput = 1
  Corrupts = TRUE
INVARIANTS
  AnswersInOrder
  LagIsExact
PROPERTY
  TransactEnds
