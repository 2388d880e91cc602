CONSTANTS
  Sessions <- MCSessions
  Repositories <- MCRepositories
  Hosts <- MCHosts
  FirstSegment <- MCFirstSegment
  IdContains <- MCIdContains
SPECIFICATION Spec
INVARIANTS
  NoPartialReceipt
CHECK_DEADLOCK FALSE
