SPECIFICATION Spec
CONSTANTS
  Terminals = {t1}
  Clusters = {c1}
  Pids = {p1, p2, p3}
  NoOne = NoOne
  LastPort = 2
  Together = FALSE
  MaxCommands = 3
  MaxFaults = 0
  MaxKills = 0
  MaxOthers = 0
SYMMETRY Symmetry
INVARIANTS
  EnvrcNamesForwarder
CHECK_DEADLOCK FALSE
