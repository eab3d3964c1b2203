SPECIFICATION Spec
CONSTANTS
  MaxDeploys = 2
  MaxFaults = 1
  Expires = TRUE
INVARIANTS
  DeployLasts
