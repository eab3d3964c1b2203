\* The wait for the load balancer alone uses up the margin: a wait is cut short.
SPECIFICATION Spec
CONSTANTS
  CentralWait = 3
  SensorWait = 2
  DefaultWait = 3
  Margin = 3
  Padding = 3
  Poll = 2
  RetryDelay = 1
  MaxAttempts = 3
  LoadBalancerWait = 3
  BalancerPoll = 2
  Probe = 2
  MaxLook = 1
  MaxBusy = 4
  MaxOverhead = 0
  MaxFaults = 2
  MaxPassedOver = 1
  MaxTime = 22
INVARIANTS
  WaitIsNeverCut
CHECK_DEADLOCK FALSE
