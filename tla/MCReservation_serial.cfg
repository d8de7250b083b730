SPECIFICATION Spec
CONSTANTS
  Sku = {s1, s2}
  Caller = {c1}
  Hold = {h1, h2, h3}
  Calls = {"receive", "return_stock", "reserve", "reserve_or_backorder", "fulfill_backorders", "sweep_expired", "confirm", "release"}
  WithCache = TRUE
  CacheFails = FALSE
  Qty = {1, 2}
  Ttl = {1}
  MaxStock = 3
  MaxTime = 2
  FarFuture = 99
  WordSize = 16
  None = None
SYMMETRY Symmetry
INVARIANTS IndexMatchesHolds
PROPERTIES PlacedKeepsPromise
CHECK_DEADLOCK FALSE
