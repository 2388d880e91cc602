CONSTANTS
  Sessions <- MCSessions
  Repositories <- MCRepositories
  Hosts <- MCHosts
  FirstSegment <- MCFirstSegment
  IdContains <- MCIdContains
SPECIFICATION Spec
INVARIANTS
  JourneyTypeOK
  ReceiptTellsWhatHappened
  ReloadedReceiptIsReported
  ApprovedIsPlanned
  ChecksSettle
  OverlayPrecedence
PROPERTIES
  ImplementsRunLifecycle
  EveryCommandEnds
CHECK_DEADLOCK FALSE
