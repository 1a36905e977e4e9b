SPECIFICATION Spec
CONSTANTS
  Capacity = 10
  MaxAttempts = 2
  CompletedCap = 10
  ExpiredCap = 10
  NAgents = 1
  DeadlineTicks <- MCDeadlineTicks
  ExpireFirst = FALSE
  BridgeFaults = FALSE
  MaxDecisions = 3
  EnqueueUntil = 6
  MaxTick = 8
INVARIANT OneOpenDecisionPerAgent
CHECK_DEADLOCK FALSE
