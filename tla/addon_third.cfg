SPECIFICATION Spec
CONSTANTS
  AddOns = {1, 2}
  Priority <- MCPriority
  Optional = {2}
  RepoAddOns = {}
  MaxAttempts = 2
  MaxCommands = 3
  MaxFaults = 0
  MaxKills = 0
CHECK_DEADLOCK FALSE
INVARIANTS
  InstallIdempotent
