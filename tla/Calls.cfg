SPECIFICATION CallsSpec
CONSTANTS
  h1 = h1
  h2 = h2
  c1 = c1
  c2 = c2
  e1 = e1
  e2 = e2
  Handler = {h1, h2}
  NoHandler = NoHandler
  NoEvent = NoEvent
  Event = {e1, e2}
  TooLong = {}
  Refused = {e2}
  RotateAfter = 1
  Faults <- AllFaults
  MaxEmits = 2
  MaxRotates = 1
  MaxCrashes = 1
  Client = {c1, c2}
  Nobody = nobody
  NoPem = "none"
  Pem <- Pems
  KeyOf <- Keys
  Operator = "operator"
  MaxHead = 1
  MaxCalls = 2
INVARIANTS
  AuditorsAgree
  ReceiptsVerify
PROPERTIES
  EveryCallReturns
  EmitNeverWaitsForRekor
  AnchorReturns
CHECK_DEADLOCK FALSE
