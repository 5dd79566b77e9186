SPECIFICATION FairSpec
CONSTANTS
  Concurrency = 2
  Threads = 2
  Requests = 1
  Configs <- MCConfigs
  kMaxRetryPerSession = 1
  MaxStray <- MCMaxStray
  MaxSends = 1
INVARIANTS
  EveryRequestAccounted
  FinalReportExact
  RetryBudget
PROPERTIES
  ImplementsRun
  StopReachesWorkers
  RunEnds
