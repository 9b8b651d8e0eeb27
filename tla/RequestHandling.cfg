CONSTANTS
  MaxRequestLine = 14
  MaxHeaderField = 10
  MaxHeaderCount = 5
  MaxTotalHeader = 26
  MaxBodyBytes = 8
  MaxExchanges = 2
  MaxDeploys = 1
  InitialFiles <- MCInitialFiles
  Deployable <- MCDeployable
  Configs <- MCConfigs
  Messages <- MCMessages
  Followups <- MCFollowups
  Segmented <- MCSegmented
  Outcomes <- MCOutcomes
SPECIFICATION Spec
INVARIANTS
  ParsesAsSent
  ForwardedAsAsked
  FilesStayInRoot
  BodiesDelimited
  AdminReloadGuarded
