SPECIFICATION Spec
CONSTANTS
  b1 = b1 b2 = b2 l1 = l1 l2 = l2 s1 = s1
  Picker = {c1, c2}
  Bin = {b1, b2}
  Lot = {l1, l2}
  Serial = {s1}
  NoBin = NoBin
  Receipts <- MCReceipts
  Loads <- MCLoads
  Movements <- MCMovements
  PickSizes = {2}
  Counts = {2}
  Today = 2
  ReorderPoint = 1
  MaxStockCalls = 4
  PickLists <- MCPickLists
  Legs = {1, 2, 4}
  Stops = 4
  MaxPasses = 3
  Fences <- MCFences
  Spots <- MCSpots
  MaxFixes = 3
  Lengths = {1, 16, 70}
  Gaps <- MCGaps
  MaxIntervals = 4
  MaxRounds = 1
  Clerk = {c1, c2}
  Customer = {u1}
  Syncer = {y1, y2}
  NoCustomer = NoCustomer
  Baskets <- MCBaskets
  Offers <- MCOffers
  ReturnLists <- MCReturnLists
  Redemptions = {0, 1000}
  Loaded = TRUE
  Tier = 1500
  MaxCalls = 3
  MaxSyncs = 2
  Order = {c1, c2}
  Ware = {"a", "b"}
  Carts <- MCCarts
  Deliveries = {2}
  Promotion = TRUE
  Plenty = 4
  Some = 2
  MaxDeliveries = 2
  MaxLapses = 1
  MaxRuns = 3
SYMMETRY Symmetry
INVARIANTS
  StockAccounted RoutesSound SalesAccounted
PROPERTIES
  HoursStand 
CHECK_DEADLOCK FALSE
