SPECIFICATION Spec
CONSTANTS
  MaxVersion = 3
  Crds = {crd1, crd2}
  MaxFaults = 0
  MaxGiveUps = 1
  Impatient = FALSE
  OLMInstalled = FALSE
INVARIANTS
  CrdsAtNewestVersion
