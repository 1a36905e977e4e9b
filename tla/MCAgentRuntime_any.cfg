SPECIFICATION Spec
CONSTANTS
  Capacity = 2
  MaxAttempts = 2
  CompletedCap = 0
  ExpiredCap = 1
  NAgents = 2
  DeadlineTicks <- MCDeadlineTicks
  ExpireFirst = FALSE
  BridgeFaults = TRUE
  MaxDecisions = 3
  EnqueueUntil = 3
  MaxTick = 4
INVARIANTS OneOutstandingPerAgent AppliedAtMostOnce FreshRequests
PROPERTIES KeepsPromise
CHECK_DEADLOCK FALSE
