SPECIFICATION FairSpec
CONSTANTS
  c1 = c1
  c2 = c2
  j1 = j1
  j2 = j2
  NoJob = NoJob
  Conns <- MCConns
  Jobs <- MCJobs
  ConnOf <- MCConnOf
  MaxSocket = 2
  MaxReplies = 3
  MaxUnread = 2
  Configs <- MCConfigs
INVARIANTS RightAnswer SocketOwnedOnce PooledIsClean
PROPERTIES ImplementsCompletionService RequestSettled
