CONSTANTS
  Commands = {"demo", "dogfood", "other"}
  LedgerSize <- MCLedgerSize
  MaxActive = 2
  MaxStarts = 1
SPECIFICATION Spec
INVARIANT
  DocumentsMonotonic
CHECK_DEADLOCK FALSE
