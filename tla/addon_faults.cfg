SPECIFICATION Spec
CONSTANTS
  AddOns = {1, 2, 3}
  Priority <- MCPriority
  Optional = {2}
  RepoAddOns = {3}
  MaxAttempts = 2
  MaxCommands = 3
  MaxFaults = 2
  MaxKills = 1
CHECK_DEADLOCK FALSE
INVARIANTS
  DeployInstalls
  NoLeftovers
PROPERTIES
  WorkingKept
