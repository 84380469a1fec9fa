SPECIFICATION FairSpec
INVARIANTS
  TypeOK
  NodesAreSeparate
  RunningIsReachable
  NobodyLeftBehind
  OneServicePerNode
PROPERTIES
  InstancesKeepDirs
  TakenSignalEnds
  RestartsComplete
  NodesFollowPanel
CONSTANTS
  Ids = {1, 2}
  Incs = {1, 2, 3}
  Files <- AllFiles
  Env <- NoEnv
  MaxInstances = 2
  MaxNodes = 2
  Scenarios <- Cases
CHECK_DEADLOCK FALSE
