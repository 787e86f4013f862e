SPECIFICATION Spec
CONSTANTS
  h1 = h1
  h2 = h2
  e1 = e1
  e2 = e2
  Handler = {h1, h2}
  NoHandler = NoHandler
  NoEvent = NoEvent
  Event = {e1, e2, e3}
  TooLong = {e3}
  Refused = {}
  RotateAfter = 1
  Faults <- AllFaults
  MaxEmits = 3
  MaxRotates = 2
  MaxCrashes = 1
SYMMETRY Symmetry
INVARIANTS
  TypeOK
  ValidHidesNothing
  ManifestIsAChain
  ListedSegmentsAreSigned
PROPERTIES
  SealedForever
CHECK_DEADLOCK FALSE
