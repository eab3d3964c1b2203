SPECIFICATION FairSpec
CONSTANTS
  CentralWait = 3
  SensorWait = 2
  DefaultWait = 3
  Margin = 3
  Padding = 3
  Poll = 2
  RetryDelay = 1
  MaxAttempts = 3
  LoadBalancerWait = 3
  BalancerPoll = 2
  Probe = 2
  MaxLook = 1
  MaxBusy = 4
  MaxOverhead = 2
  MaxFaults = 2
  MaxPassedOver = 1
  MaxTime = 22
INVARIANTS
  NotClamped
  AvailableInTimeSucceeds
  SuccessIsRecorded
PROPERTIES
  DeployEnds
CHECK_DEADLOCK FALSE
