SPECIFICATION MachineSpec
INVARIANTS
  MachineTypeOK
  NoLostWakeup
  SettledIsCurrent
  MemoryIsServed
CONSTANTS
  Ids = {1, 2}
  Uuids = {"a", "c"}
  Limits = {1}
  DropMin = 10
  Malformed = Malformed
  Configs = {"s1", "x1"}
  NoConfig = NoConfig
  Protocols = {"p"}
  ProtocolOf <- ProtocolsOf
  Rigid = {}
  KernelOf <- KernelsOf
  BadRuntime = {}
  BadSpec = {}
  PollAttempts = 1
  EventCap = 1
  StatusCap = 1
  PanelTables <- Tables
  PushKinds = {}
  Starts <- MachineStarts
CHECK_DEADLOCK FALSE
