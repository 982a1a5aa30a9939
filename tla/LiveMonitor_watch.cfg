SPECIFICATION FairSpec
CONSTANTS
  Tickets = {p1}
  MaxEvents = 3
CHECK_DEADLOCK FALSE
INVARIANTS StoriesAreTrue
PROPERTIES RecordsConverge FreshnessIsTold DeadIsReported
