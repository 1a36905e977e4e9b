SPECIFICATION RuntimeSpec
CONSTANTS
  Slots <- MCSlots
  Buckets <- MCBuckets
  NTransforms = 2
  Scenes <- MCScenes
  MaxTick = 10
  MaxOutstanding = 2
  MaxPause = 3
  Proposals <- MCProposals
INVARIANT StorageNeverOverfilled
CHECK_DEADLOCK FALSE
