SPECIFICATION FairSpec
CONSTANTS
  w1 = w1
  w2 = w2
  c1 = c1
  c2 = c2
  j1 = j1
  j2 = j2
  j3 = j3
  NoJob = NoJob
  Workers <- MCWorkers
  Conns <- MCConns
  Jobs <- MCJobs
  ConnOf <- MCConnOf
  Capacity = 1
INVARIANTS
  NoLostWakeup
  NoStrandedJob
  BlockedPushHasWorker
  PushNeverRefused
PROPERTIES
  ImplementsCompletionService
  JobSettled
  ShutdownCompletes
