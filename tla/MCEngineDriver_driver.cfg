SPECIFICATION FairSpec
CONSTANTS
  s1 = s1
  s2 = s2
  original = original
  changed = changed
  broken = broken
  Scenes <- MCScenes
  InitialScene = s1
  Contents <- MCContents
  Loadable <- MCLoadable
  InitialDisk <- MCBrokenDisk
  TicksPerSnapshot = 3
  TickOutcomes = {"ok", "agent_fault", "panic"}
  SpeedRequests <- MCSlowest
  MaxTick = 3
  MaxRequests = 3
  MaxEdits = 2
INVARIANTS PauseAgrees StreamDescribesWorld ActiveSceneIsRunning
PROPERTIES EveryRequestAnswered SeenChangesAreLoaded
CHECK_DEADLOCK FALSE
