SPECIFICATION Spec
CONSTANTS
  MaxVersion = 3
  Crds = {crd1, crd2}
  MaxFaults = 0
  MaxGiveUps = 0
  Impatient = FALSE
  OLMInstalled = TRUE
INVARIANTS
  CrdsAtNewestVersion
  TeardownLeavesNothing
  DeployEstablishesPlan
PROPERTIES
  DeployIsIdempotent
