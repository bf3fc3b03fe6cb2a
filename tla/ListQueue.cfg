SPECIFICATION ListSpec
CONSTANTS
  Jobs = {j1, j2, j3}
  MaxThread = 1
  MaxCapacity = 1
  JoinPushers = TRUE
  NoJob = NoJob
  MaxLen = 1
  Pushers = 1
INVARIANT ListWithinMax
