SPECIFICATION Spec
CONSTANTS
  MaxDeploys = 1
  MaxFaults = 0
  Expires = TRUE
PROPERTIES
  LeavesOthersAlone
