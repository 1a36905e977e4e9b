SPECIFICATION FairShellSpec
CONSTANTS
  s1 = s1
  s2 = s2
  s3 = s3
  original = original
  changed = changed
  broken = broken
  Scenes <- MCScenes
  InitialScene = s1
  Contents <- MCContents
  Loadable <- MCLoadable
  InitialDisk <- MCBrokenDisk
  TicksPerSnapshot = 1
  TickOutcomes = {"ok"}
  SpeedRequests = {}
  MaxTick = 0
  MaxRequests = 3
  MaxEdits = 0
  RingCap = 2
  Controls = {"reload", "toggle_pause", "step"}
INVARIANTS SnapshotsMatchScene SelectedSceneRuns
PROPERTIES ScreenFollowsDriver
CHECK_DEADLOCK FALSE
