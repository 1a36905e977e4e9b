SPECIFICATION Spec
CONSTANTS
  Ids = {"a", "b", "c", "d", "p", "q", "r", "s"}
  SpeedLimit = 3
  AmountLimit = 4
  IntervalLimit = 3
  PaletteLimit = 3
  PieceLimit = 4
  Whole = 2
  Loggable <- MCLoggable
  RingCap = 2
  Setups <- MCSetups
  MaxTick = 4
INVARIANT
  ConsumersTakeWhatIsThere
CHECK_DEADLOCK FALSE
