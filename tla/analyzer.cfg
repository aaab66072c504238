SPECIFICATION FairSpec
CONSTANTS
  LastAddr = 4
  Insns <- MCInsns
  Pcs <- MCPcs
  SymbolSets <- MCSymbolSets
INVARIANTS LeadersTraced Coverage CfgSound ReferencesSound
PROPERTY AnalysisEnds
CHECK_DEADLOCK FALSE
