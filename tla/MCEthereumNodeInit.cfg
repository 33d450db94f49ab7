SPECIFICATION Spec
CONSTANTS
  RetryCount = 2
  MaxCalls = 6
  MaxFaults = 3
PROPERTY InitReturns
CHECK_DEADLOCK FALSE
