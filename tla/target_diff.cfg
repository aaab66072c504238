SPECIFICATION Spec
CONSTANTS
  NPages = 2
  PageSize = 2
  Byte <- MCByte
  RegVal = {r1, r2}
  InitMem <- MCInitMem
  NoRegs = NoRegs
  ReadLens <- MCFullReads
  Ranges <- MCLowRanges
  MaxMoves = 2
INVARIANT
  DiffAccurate
