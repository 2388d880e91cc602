CONSTANTS
  Requests <- MCRequests
  HelperActions = {"ServiceRestart", "ServiceReload"}
  NodeOf <- MCNodeOf
  Actors = {"operator"}
  Chats = {"chat1"}
  ActorOf <- MCActorOf
  Entries = {"entry1"}
  Nonces = {"x1"}
  Times = {0, 1}
  MaxRequests = 3
  MaxAdapterRejections = 0
  HelperNodes = {"n1", "n2"}
  Targets = {"n1/sshd", "n1/web", "n2/web"}
  Allowlist <- MCAllowlist
  MaxExecutions = 2
SPECIFICATION GateSpec
INVARIANTS
  NonceUsedOnce
CHECK_DEADLOCK FALSE
