SPECIFICATION Spec
CONSTANTS
  MaxVersion = 2
  Crds = {crd1, crd2}
  MaxFaults = 2
  MaxGiveUps = 1
  Impatient = FALSE
  OLMInstalled = FALSE
INVARIANTS
  DeployRepairs
PROPERTIES
  CommandReturns
