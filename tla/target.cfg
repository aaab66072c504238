SPECIFICATION Spec
CONSTANTS
  NPages = 2
  PageSize = 2
  Byte <- MCByte
  RegVal = {r1, r2}
  InitMem <- MCInitMem
  NoRegs = NoRegs
  ReadLens <- MCReadLens
  Ranges <- MCRanges
  MaxMoves = 2
INVARIANTS
  TypeOK
  LiveSnapshot
  PreviousGeneration
  ChangeIsReal
  NoChangeMissed
PROPERTY
  ImplementsStopEpoch
