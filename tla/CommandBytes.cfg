SPECIFICATION EncodingSpec
CONSTANTS
  Width = 2
  Far = 5
  MaxRecords = 2
INVARIANTS
  ContentBinding
CHECK_DEADLOCK FALSE
