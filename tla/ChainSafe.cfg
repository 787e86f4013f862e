SPECIFICATION Spec
CONSTANTS
  h1 = h1
  h2 = h2
  e1 = e1
  e2 = e2
  Handler = {h1, h2}
  NoHandler = NoHandler
  NoEvent = NoEvent
  Event = {e1, e2, e3}
  TooLong = {e3}
  Refused = {e3}
  RotateAfter = 1
  Faults <- SafeFaults
  MaxEmits = 4
  MaxRotates = 2
  MaxCrashes = 2
SYMMETRY Symmetry
INVARIANTS
  NoEquivocation
  HonestLogVerifies
PROPERTIES
  ImplementsLog
