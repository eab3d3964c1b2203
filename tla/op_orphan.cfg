SPECIFICATION Spec
CONSTANTS
  MaxVersion = 2
  Crds = {crd1}
  MaxFaults = 0
  MaxGiveUps = 1
  Impatient = FALSE
  OLMInstalled = TRUE
INVARIANTS
  DeployEstablishesPlan
