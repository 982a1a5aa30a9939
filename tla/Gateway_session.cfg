SPECIFICATION FairSpec
CONSTANTS
  Workers = {w1, w2, w3}
  Diagnostic = diagnostic
  Engine = engine
  NoTask = none
INVARIANTS CallsAreSound
PROPERTIES CallsComeToAnEnd
CHECK_DEADLOCK FALSE
