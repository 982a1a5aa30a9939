SPECIFICATION FairSpec
CONSTANTS
  MaxSpawns = 4
  MaxRestarts = 2
  MaxControlDeaths = 1
  SnapshotMayFail = FALSE
  KillMayFail = TRUE
INVARIANTS OneKnownInstance
PROPERTIES  NoResurrection ExitIsHandled
