SPECIFICATION Spec
CONSTANTS
  MaxAttempts = 3
  MaxGenerations = 4
  MaxDeploys = 2
\* refuted as well: SecretsSurvive, NamespaceSurvives
INVARIANTS
  NamespaceIsLabelled
CHECK_DEADLOCK FALSE
