\* The retries of kubectl get alone use up the padding: no check of the progress takes time, and the
\* margin is never used up.
SPECIFICATION Spec
CONSTANTS
  CentralWait = 3
  SensorWait = 2
  DefaultWait = 3
  Margin = 20
  Padding = 3
  Poll = 2
  RetryDelay = 1
  MaxAttempts = 3
  LoadBalancerWait = 3
  BalancerPoll = 2
  Probe = 2
  MaxLook = 0
  MaxBusy = 0
  MaxOverhead = 0
  MaxFaults = 2
  MaxPassedOver = 1
  MaxTime = 40
INVARIANTS
  AvailableAlwaysSucceeds
CHECK_DEADLOCK FALSE
