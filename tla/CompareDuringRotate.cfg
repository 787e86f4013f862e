SPECIFICATION ReadersSpec
CONSTANTS
  h1 = h1
  e1 = e1
  e2 = e2
  r1 = r1
  Handler = {h1}
  NoHandler = NoHandler
  NoEvent = NoEvent
  Event = {e1, e2}
  TooLong = {}
  Refused = {}
  RotateAfter = 1
  Faults = {}
  MaxEmits = 2
  MaxRotates = 1
  MaxCrashes = 0
  Reader = {r1}
  PageLimit = 1
  MaxReads = 1
SYMMETRY Symmetry
INVARIANTS
  FreshCheckpointMatches

