CONSTANTS
  Tasks <- MCTasks
  Resources = {"service", "node", "app"}
  Paths <- MCPaths
SPECIFICATION FairSpec
INVARIANTS
  TypeOK
  LeasesCompatible
  WritersAreSerialised
  NoMutationAboveDisruption
PROPERTIES
  EveryTaskCompletes
CHECK_DEADLOCK FALSE
