SPECIFICATION Spec
CONSTANTS
  MaxDeploys = 2
  MaxFaults = 1
  Expires = TRUE
INVARIANTS
  NoStaleOwner
  FreshDatabase
  DeployDelivers
  TeardownDelivers
  DeployRecordsPassword
  DeadlineFreesCommand
PROPERTIES
  OperatorGoesLastWithoutErrors
