SPECIFICATION Spec
CONSTANTS
  MaxVersion = 2
  Crds = {crd1}
  MaxFaults = 0
  MaxGiveUps = 1
  Impatient = TRUE
  OLMInstalled = FALSE
INVARIANTS
  DeployEstablishesPlan
