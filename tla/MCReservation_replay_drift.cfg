SPECIFICATION Spec
CONSTANTS
  Sku = {s1}
  Caller = {c1}
  Hold = {h1, h2}
  Calls = {"receive", "reserve_or_backorder", "fulfill_backorders"}
  WithCache = FALSE
  CacheFails = FALSE
  Qty = {1}
  Ttl = {1}
  MaxStock = 1
  MaxTime = 0
  FarFuture = 99
  WordSize = 16
  None = None
INVARIANTS ReplayMatchesLive
CHECK_DEADLOCK FALSE
