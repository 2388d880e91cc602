CONSTANTS
  Commands = {"demo", "dogfood", "other"}
  LedgerSize <- MCLedgerSize
  MaxActive = 1
  MaxStarts = 3
SPECIFICATION Spec
INVARIANTS
  TypeOK
  OneLedgerPerFile
  TornOnlyAtTheEnd
  ReportedMeansDurable
CHECK_DEADLOCK FALSE
