SPECIFICATION Spec
PROPERTIES
  UuidChangeIsServed
CONSTANTS
  Ids = {1, 2, 3}
  Uuids = {"a", "b", "c", "d"}
  Limits = {1, 2}
  DropMin = 10
  Malformed = Malformed
  Configs = {"s1", "x1"}
  NoConfig = NoConfig
  Protocols = {"p", "q"}
  ProtocolOf <- ProtocolsOf
  Rigid = {}
  KernelOf <- KernelsOf
  BadRuntime = {}
  BadSpec = {}
  PollAttempts = 2
  EventCap = 1
  StatusCap = 1
  PanelTables <- SoleTables
  PushKinds = {"add"}
  Starts <- UuidStarts
CHECK_DEADLOCK FALSE
