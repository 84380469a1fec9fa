SPECIFICATION Spec
INVARIANTS
  TypeOK
  CountsAreExact
  CellsNeverInvent
  BucketIsShared
PROPERTIES
  RefusalsAreJust
CONSTANTS
  Conns = {c1, c2, c3}
  Ips = {1, 2}
  Limits = {0, 1}
  Cells = {1, 2, 3, 4}
  Profiles <- Capped
  Kernels = {"xray", "singbox"}
  Buckets = {b1, b2, b3, b4}
  Budgets <- Bounds
SYMMETRY Symmetry
CHECK_DEADLOCK FALSE
