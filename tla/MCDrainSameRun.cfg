CONSTANTS
  Tasks <- MCTasks
  Resources = {"service", "node", "app"}
  Paths <- MCPaths
SPECIFICATION Spec
INVARIANT
  RebootJoinsDrainOfSameRun
CHECK_DEADLOCK FALSE
