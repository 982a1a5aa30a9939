SPECIFICATION FairSpec
CONSTANTS
  MaxCandles = 3
  Lookback = 2
  MaxFaults = 3
  MaxDeaths = 1
INVARIANTS FeedIsSound
PROPERTIES  RuntimeRecovers
CHECK_DEADLOCK FALSE
