CONSTANTS
  Requests <- MCRequests
  HelperActions = {"ServiceRestart", "ServiceReload"}
  NodeOf <- MCNodeOf
  Actors = {"operator"}
  Chats = {"chat1", "chat2"}
  ActorOf <- MCActorOf
  Entries = {"entry1"}
  Nonces = {"x1"}
  Times = {0, 1, 2}
  MaxRequests = 3
  MaxAdapterRejections = 1
  HelperNodes = {"n1", "n2"}
  Targets = {"n1/sshd", "n1/web", "n2/web"}
  Allowlist <- MCAllowlist
  MaxExecutions = 2
SPECIFICATION GateSpec
INVARIANTS
  AsTypeOK
  LeasedOnce
  LeaseIsWhatWasApproved
  DecisionsExplainStates
  ExecutedAsApproved
PROPERTIES
  DecisionIsFinal
  ImplementsGatedAction
CHECK_DEADLOCK FALSE
