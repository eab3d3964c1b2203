SPECIFICATION Spec
CONSTANTS
  Terminals = {t1, t2}
  Clusters = {c1, c2}
  Pids = {p1, p2, p3, p4}
  NoOne = NoOne
  LastPort = 2
  Together = FALSE
  MaxCommands = 2
  MaxFaults = 0
  MaxKills = 0
  MaxOthers = 0
SYMMETRY Symmetry
INVARIANTS
  BannerLeadsToCentral
CHECK_DEADLOCK FALSE
