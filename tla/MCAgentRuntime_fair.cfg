SPECIFICATION FairSpec
CONSTANTS
  Capacity = 2
  MaxAttempts = 2
  CompletedCap = 10
  ExpiredCap = 10
  NAgents = 2
  DeadlineTicks <- MCDeadlineTicks
  ExpireFirst = TRUE
  BridgeFaults = FALSE
  MaxDecisions = 3
  EnqueueUntil = 4
  MaxTick = 11
INVARIANTS InSync GivenUpAfterAllAttempts LedgerTellsWhatHappened
PROPERTIES EveryDecisionSettles
CHECK_DEADLOCK FALSE
