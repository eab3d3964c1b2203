SPECIFICATION Spec
CONSTANTS
  MaxDeploys = 1
  MaxFaults = 1
  Expires = TRUE
PROPERTIES
  OperatorGoesLast
