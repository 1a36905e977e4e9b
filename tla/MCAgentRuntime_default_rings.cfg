SPECIFICATION Spec
CONSTANTS
  Capacity = 10
  MaxAttempts = 2
  CompletedCap = 0
  ExpiredCap = 0
  NAgents = 1
  DeadlineTicks <- MCDeadlineTicks
  ExpireFirst = TRUE
  BridgeFaults = FALSE
  MaxDecisions = 3
  EnqueueUntil = 6
  MaxTick = 8
INVARIANT NoFaultForIssuedRequest
CHECK_DEADLOCK FALSE
