CONSTANTS
  Identities <- MCIdentities
  Tokens <- MCTokens
  Enrollments <- MCEnrollments
  Envelopes <- MCEnvelopes
  Submissions <- MCSubmissions
  SpoolItems = {}
  Times = {0, 1}
  MaxTokens = 1
  MaxEnrollments = 2
  MaxEnqueued = 2
  MaxSpooled = 0
  MaxRejections = 9
  MaxClock = 1
  MaxInFlight = 1
  Statuses <- MCStatuses
  Fleet <- MCFleet
SPECIFICATION FairSpec
INVARIANTS
  ProtocolTypeOK
  ReplayMeansAccepted
  ResultNeverLost
PROPERTIES
  ResultSettles
  TaskHandedOut
CHECK_DEADLOCK FALSE
