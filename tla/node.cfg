SPECIFICATION FairSpec
INVARIANTS
  TypeOK
  MemoryIsServed
  KernelSuitsConfig
PROPERTIES
  CollapseOnlyByRemove
  RollbackKeepsAgreement
  UsersReachInbound
CONSTANTS
  Ids = {1, 2, 3}
  Uuids = {"a", "b", "c", "d"}
  Limits = {1, 2}
  DropMin = 3
  Malformed = Malformed
  Configs = {"s1", "x1", "h1", "bad", "worse"}
  NoConfig = NoConfig
  Protocols = {"p", "q"}
  ProtocolOf <- ProtocolsOf
  Rigid = {"h1"}
  KernelOf <- KernelsOf
  BadRuntime = {"bad"}
  BadSpec = {"worse"}
  PollAttempts = 1
  EventCap = 1
  StatusCap = 1
  PanelTables <- NodeTables
  PushKinds = {"config", "users", "add", "remove", "devices"}
  Starts <- NodeStarts
CHECK_DEADLOCK FALSE
