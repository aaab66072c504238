SPECIFICATION Spec
CONSTANTS
  Opcodes <- MCOpcodes
  MinLen = 2
  MaxInsnBytes = 3
  Alignment = 8
  Files <- MCFiles
  Bases <- MCBases
  Stops <- MCStops
  Stacks <- MCStacks
  FramePointers <- MCFramePointers
  Lengths <- MCLengths
  ScanData <- MCScanData
  Counts <- MCCounts
  MaxBacktraceFrames = 2
  StringsScanCap = 18
INVARIANT TargetsAnnotated
