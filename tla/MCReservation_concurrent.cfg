SPECIFICATION Spec
CONSTANTS
  Sku = {s1}
  Caller = {c1, c2}
  Hold = {h1, h2, h3}
  Calls = {"receive", "return_stock", "reserve", "sweep_expired", "confirm", "release"}
  WithCache = FALSE
  CacheFails = FALSE
  Qty = {1, 2}
  Ttl = {1}
  MaxStock = 3
  MaxTime = 2
  FarFuture = 99
  WordSize = 16
  None = None
SYMMETRY Symmetry
INVARIANTS NoOversell ReplayMatchesLive DueHoldsCleared
PROPERTIES PoolRefinement
