SPECIFICATION FairSpec
CONSTANTS
  Times <- MCTimes
  Zones <- MCZones
  Findings <- MCFindings
  Overlap = 1
  Delay = 1
  MaxAttempts = 2
  MaxTime = 2
  MaxRounds = 1
  MaxCycles = 2
  MaxTrouble = 1
INVARIANTS AlertsAreSound OutcomeIsKept
PROPERTIES  ReportsGoOn
CHECK_DEADLOCK FALSE
