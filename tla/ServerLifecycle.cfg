SPECIFICATION FairSpec
CONSTANTS
  Tls = {TRUE, FALSE}
  MaxJobs = 2
  MaxHups = 2
INVARIANTS ListensWhole WakeupsReachReload CleanExit
PROPERTY StopEnds
