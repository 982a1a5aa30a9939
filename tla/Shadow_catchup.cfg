SPECIFICATION FairSpec
CONSTANTS
  Contexts <- MCContexts
  Market <- MCMarket
  Capacity = 1  PageSize = 2  Batch = 2  Horizon = 1  OutcomeLimit = 10
  MaxSnapshot = 3  MaxTrouble = 1
 
PROPERTIES DecisionsAreFinal CatchesUp
CHECK_DEADLOCK FALSE
