SPECIFICATION FairSpec
CONSTANTS
  Signals = {s1}
  Workers = {w1}
  ExitEntry = "1"
PROPERTY AcknowledgedExitCloses
