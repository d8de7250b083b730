SPECIFICATION DFairSpec
CONSTANTS
  Node = {n1}
  Client = {}
  Agg = {a1}
  Ev = {e1, e2, e3}
  Ops = {"append_async"}
  HasOutbox = TRUE
  DbFails = FALSE
  MaxLog = 0
  MaxCrash = 2
  Relay = {r1}
  Limit = 2
  MaxId = 3
  BusFails = TRUE
INVARIANTS StagedIsDurable StagedBarCrash
PROPERTIES ReturnedIsDelivered
CHECK_DEADLOCK FALSE
