SPECIFICATION WindowSpec
CONSTANTS
  s1 = s1
  s2 = s2
  s3 = s3
  main = main
  second = second
  modules = modules
  console = console
  Session <- MCSession
  NoSession = NoSession
  MaxEpoch = 2
  MaxAnalyses = 2
  debugDocks_ <- MCDebugDocks
  OtherDocks <- MCOtherDocks
  Screens <- MCScreens
  Primary = main
  MaxStarts = 2
INVARIANTS TypeOK FreedOnceByMaker ViewsCurrent OneAnalysis DebugDocksFollowKind
PROPERTY ProgressEnds
CHECK_DEADLOCK FALSE
