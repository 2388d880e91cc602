CONSTANTS
  Identities <- MCIdentities
  Tokens <- MCTokens
  Enrollments <- MCEnrollments
  Envelopes <- MCEnvelopes
  Submissions <- MCSubmissions
  Times = {0, 1}
  SpoolItems <- MCSpoolItems
  MaxTokens = 2
  MaxEnrollments = 2
  MaxEnqueued = 2
  MaxSpooled = 1
  MaxRejections = 1
SPECIFICATION CpSpec
INVARIANTS
  TypeOK
  AcceptedOncePerEnvelope
  AcceptedAnswersPulled
  QueueIsFifoPerNode
  LedgerExplainsState
PROPERTIES
  IdentityNeverChanges
  ImplementsTaskExchange
CHECK_DEADLOCK FALSE
