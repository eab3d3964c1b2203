SPECIFICATION Spec
CONSTANTS
  Terminals = {t1, t2}
  Clusters = {c1, c2}
  Pids = {p1, p2, p3}
  NoOne = NoOne
  LastPort = 2
  Together = TRUE
  MaxCommands = 4
  MaxFaults = 0
  MaxKills = 0
  MaxOthers = 0
SYMMETRY Symmetry
\* refuted as well with Together = FALSE and MaxOthers = 1
INVARIANTS
  EndpointIsMine
CHECK_DEADLOCK FALSE
