SPECIFICATION FairSpec
CONSTANTS
  Signals = {s1}
  Workers = {w1, w2}
  ExitEntry = "OUT"
INVARIANTS AtMostOnce
PROPERTIES RowsAreTrue KillSwitchHolds ImplementsPromise OrdersComeToAnEnd
