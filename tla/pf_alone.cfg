SPECIFICATION Spec
CONSTANTS
  Terminals = {t1, t2}
  Clusters = {c1, c2}
  Pids = {p1, p2, p3}
  NoOne = NoOne
  LastPort = 2
  Together = FALSE
  MaxCommands = 3
  MaxFaults = 0
  MaxKills = 1
  MaxOthers = 1
SYMMETRY Symmetry
INVARIANTS
  StaleForwardsAreAvoided
PROPERTIES
  TeardownFreesPort
CHECK_DEADLOCK FALSE
