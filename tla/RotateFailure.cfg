SPECIFICATION Spec
CONSTANTS
  h1 = h1
  h2 = h2
  e1 = e1
  e2 = e2
  Handler = {h1, h2}
  NoHandler = NoHandler
  NoEvent = NoEvent
  Event = {e1}
  TooLong = {}
  Refused = {}
  RotateAfter = 1
  Faults = {"checkpoint", "manifest"}
  MaxEmits = 2
  MaxRotates = 1
  MaxCrashes = 0
INVARIANTS
  FailedRotateIsVerifiable
