SPECIFICATION FairSpec
CONSTANTS
  NAddr = 2
  Thread = {t1, t2}
  BreakIn = BreakIn
  NoAddr = NoAddr
  NoEvent = NoEvent
  Incidents <- MCNone
  HwSlots = 0
  Faults <- MCNone
  MaxCalls = 2
INVARIANTS
  BreakpointsSound
  NoSilentSkip
  SteppedOver
PROPERTY
  StepOverEnds
