SPECIFICATION Spec
CONSTANTS
  s1 = s1
  s2 = s2
  s3 = s3
  Session <- MCSession
  NoSession = NoSession
  MaxEpoch = 3
  MaxAnalyses = 2
PROPERTY FinishedMeansBuilt
CHECK_DEADLOCK FALSE
