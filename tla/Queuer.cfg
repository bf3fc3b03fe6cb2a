SPECIFICATION QueuerSpec
CONSTANTS
  Jobs = {j1, j2, j3, j4}
  MaxThread = 2
  MaxCapacity = 1
  JoinPushers = TRUE
  NoJob = NoJob
  MaxLen = 1
  Pushers = 2
INVARIANTS QueuerTypeOK NoPanic TerminateDrains ChannelsLentOnce ListBounded
PROPERTIES RefinesService AcceptedJobsRun TerminateReleases
