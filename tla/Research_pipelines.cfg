SPECIFICATION FairSpec
CONSTANTS
  Keys = {k1, k2}
  Callers = {c1, c2}
  MaxData = 2
  MaxAttempts = 2
  MaxTrouble = 1
INVARIANTS OneExecutor
PROPERTIES  RacedRunsPass
CHECK_DEADLOCK FALSE
