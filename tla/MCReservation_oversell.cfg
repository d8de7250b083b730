SPECIFICATION Spec
CONSTANTS
  Sku = {s1}
  Caller = {c1, c2}
  Hold = {h1, h2, h3, h4}
  Calls = {"receive", "reserve_or_backorder"}
  WithCache = FALSE
  CacheFails = FALSE
  Qty = {1, 2}
  Ttl = {1}
  MaxStock = 2
  MaxTime = 0
  FarFuture = 99
  WordSize = 16
  None = None
INVARIANTS NoOversell
CHECK_DEADLOCK FALSE
