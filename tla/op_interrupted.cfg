SPECIFICATION Spec
CONSTANTS
  MaxVersion = 2
  Crds = {crd1, crd2}
  MaxFaults = 0
  MaxGiveUps = 2
  Impatient = TRUE
  OLMInstalled = TRUE
INVARIANTS
  NoDoubleReconcile
PROPERTIES
  HandoverSpec
