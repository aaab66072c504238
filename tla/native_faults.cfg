SPECIFICATION Spec
CONSTANTS
  NAddr = 2
  Thread = {t1}
  BreakIn = BreakIn
  NoAddr = NoAddr
  NoEvent = NoEvent
  Incidents <- MCIncidents
  HwSlots = 1
  Faults <- MCFaults
  MaxCalls = 3
INVARIANTS
  BreakpointsSound
