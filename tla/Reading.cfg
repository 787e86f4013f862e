SPECIFICATION ReadingSpec
CONSTANTS
  h1 = h1
  e1 = e1
  e2 = e2
  r1 = r1
  Handler = {h1}
  NoHandler = NoHandler
  NoEvent = NoEvent
  Event = {e1, e2, e3}
  TooLong = {e3}
  Refused = {e3}
  RotateAfter = 1
  Faults = {}
  MaxEmits = 2
  MaxRotates = 2
  MaxCrashes = 0
  Reader = {r1}
  PageLimit = 1
  MaxReads = 1
  MaxRecords = 3
  MaxEdits = 2
SYMMETRY Symmetry
INVARIANTS
  ClosedFormIsTheLoop
  OnlyTheTailCanGo
  ReadersTypeOK
  QuietWalkIsCurrent
  PagesAscend
  QuietQueryIsComplete

