SPECIFICATION FairSpec
CONSTANTS
  Terminals = {t1, t2}
  Clusters = {c1}
  Pids = {p1, p2, p3}
  NoOne = NoOne
  LastPort = 2
  Together = TRUE
  MaxCommands = 2
  MaxFaults = 1
  MaxKills = 0
  MaxOthers = 1
INVARIANTS
  ShellLeavesNothing
  FailedStartLeavesNothing
PROPERTIES
  CommandReturns
CHECK_DEADLOCK FALSE
