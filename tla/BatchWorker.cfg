SPECIFICATION FairSpec
CONSTANTS
  UIDs = {u1, u2}
  MaxBatch = 3
  ChanCap = 2
  MaxSends = 4
  NoRow = NoRow
INVARIANTS TypeOK HealthyBatchAccepted StopSubmitsBuffer PendingIsNewer
PROPERTIES RefinesStore EventuallySubmitted StopEnds
