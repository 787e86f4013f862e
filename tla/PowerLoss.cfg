SPECIFICATION PowerSpec
CONSTANTS
  h1 = h1
  h2 = h2
  e1 = e1
  e2 = e2
  Handler = {h1, h2}
  NoHandler = NoHandler
  NoEvent = NoEvent
  Event = {e1, e2}
  TooLong = {}
  Refused = {}
  RotateAfter = 1
  Faults <- AllFaults
  MaxEmits = 3
  MaxRotates = 1
  MaxCrashes = 2
SYMMETRY Symmetry
INVARIANTS
  KeptIsNeverHidden
CHECK_DEADLOCK FALSE
