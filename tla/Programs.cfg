SPECIFICATION Spec
CONSTANTS
  p1 = p1
  p2 = p2
  e1 = e1
  e2 = e2
  Proc = {p1, p2}
  Rotators = {p1}
  Event = {e1, e2}
  TooLong = {}
  RotateAfter = 1
  MaxStarts = 3
  MaxEmits = 3
  MaxRotates = 2
  Width = 2
  Far = 5
  MaxRecords = 2
  Codes <- ReturnCodes
  MaxInstalls = 2
  MaxOperations = 1
  Lines <- FiveLines
  Docs <- OneDocument
  Arguments <- OneArgument
  MaxLines = 5
INVARIANTS
  AloneIsHonest
  DamageIsSeen
  SocketRecordsRecompute
  RecordsSayWhatWasSent
  HooksTypeOK
  ReportedInstallIsComplete
  PromisedGuards
  ReportIsExact
  ExitIsTheVerdict
CHECK_DEADLOCK FALSE
