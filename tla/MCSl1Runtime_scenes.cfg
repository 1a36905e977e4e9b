SPECIFICATION RuntimeSpec
CONSTANTS
  Slots <- MCSlots
  Buckets <- MCBuckets
  NTransforms = 2
  Scenes <- MCScenes
  MaxTick = 10
  MaxOutstanding = 2
  MaxPause = 3
  Proposals <- MCProposals
INVARIANTS
  ReservationsMatchRunning
  WithinLimits
  SlotEndsInTime
  EverySlotAccounted
  FreshnessTellsAge
  PressureFollowsWindow
  DemandConserved
  OutcomeIsJust
  ReadersKeepTime
PROPERTIES
  RetriesRunToTheEnd
  OutcomeStands
  DemandIsServedExactly
  TransformsRunUnderPressure
CHECK_DEADLOCK FALSE
