CONSTANTS
  Identities <- MCIdentities
  Tokens <- MCTokens
  Enrollments <- MCEnrollments
  Envelopes <- MCEnvelopes
  Submissions <- MCSubmissions
  Times = {0, 1}
  SpoolItems <- MCSpoolItems
  MaxTokens = 2
  MaxEnrollments = 2
  MaxEnqueued = 1
  MaxSpooled = 0
  MaxRejections = 0
SPECIFICATION CpSpec
INVARIANT AgentsEnrollOnce
CHECK_DEADLOCK FALSE
