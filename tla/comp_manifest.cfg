SPECIFICATION Spec
CONSTANTS
  MaxDeploys = 2
  MaxFaults = 0
  Expires = TRUE
INVARIANTS
  ManifestOpensCentral
