SPECIFICATION FairSpec
CONSTANTS
  Scripts <- MCScripts
  MaxSends = 2
  MaxSpawns = 2
  MaxTrouble = 1
INVARIANTS CommandsAreKept
PROPERTIES DoneIsFinal RollbackOwnsSpawn ReadyIsFresh CommandsGoOn
CHECK_DEADLOCK FALSE
