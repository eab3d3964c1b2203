SPECIFICATION Spec
CONSTANTS
  MaxAttempts = 3
  MaxGenerations = 4
  MaxDeploys = 2
INVARIANTS
  DeployApplies
  RetriesAreHarmless
CHECK_DEADLOCK FALSE
