CONSTANTS
  Paths <- MCPaths
  AbsolutePaths <- MCAbsolutePaths
  ConfigPath = "agent.yaml"
  NodeIds = {"n1", "n2"}
  DetectedSystem = "linux"
  InitialFiles <- MCInitialFiles
  Commands <- MCCommands
  Processes = {"p1", "p2"}
  MaxCommands = 3
  Beginnings <- MCBeginnings
  Splices <- MCSplices
SPECIFICATION AfSpec
INVARIANTS
  AgentFilesTypeOK
  StartedAgentIsConsistent
PROPERTIES
  UnforcedIsHarmless
CHECK_DEADLOCK FALSE
