SPECIFICATION Spec
CONSTANTS
  s1 = s1
  s2 = s2
  original = original
  changed = changed
  broken = broken
  Scenes <- MCScenes
  InitialScene = s1
  Contents <- MCContents
  Loadable <- MCLoadable
  InitialDisk <- MCInitialDisk
  TicksPerSnapshot = 3
  TickOutcomes = {"ok", "panic"}
  SpeedRequests <- MCSlowest
  MaxTick = 3
  MaxRequests = 4
  MaxEdits = 0
PROPERTIES PanickedWorldDoesNotResume
CHECK_DEADLOCK FALSE
