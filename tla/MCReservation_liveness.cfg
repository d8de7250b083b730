SPECIFICATION FairSpec
CONSTANTS
  Sku = {s1}
  Caller = {c1, c2}
  Hold = {h1, h2}
  Calls = {"receive", "reserve", "reserve_or_backorder", "sweep_expired", "release"}
  WithCache = TRUE
  CacheFails = TRUE
  Qty = {1}
  Ttl = {0}
  MaxStock = 2
  MaxTime = 0
  FarFuture = 99
  WordSize = 16
  None = None
PROPERTIES CallsReturn
