SPECIFICATION FairSpec
INVARIANTS
  TypeOK
  Conservation
  AddressesKnown
PROPERTIES
  KeepsLedger
  EventuallyBilled
  AddressesArrive
CONSTANTS
  Counters = {"up", "down"}
  Users = {1}
  UserOf <- OneUser
  Views = {"none", "v", "vx"}
  NoView = "none"
  DigestOf <- Digest
  IsXray = TRUE
  WriteCap = 1
  Budgets <- Bounds
CHECK_DEADLOCK FALSE
