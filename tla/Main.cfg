SPECIFICATION MainFairSpec
CONSTANTS
  Jobs = {j1, j2}
  MaxThread = 1
  MaxCapacity = 1
  JoinPushers = FALSE
  NoJob = NoJob
  MaxBatch = 2
  ChanCap = 1
  NoRow = NoRow
  Expected = {c1}
  Written = {c1}
  Foreign = {c2}
  Absent = Absent
INVARIANTS MainTypeOK ServesOnCheckedSchema OwedJobsRun
PROPERTIES WaitCoversCounted StartupDecides ShutdownEndsUnlessStalled
