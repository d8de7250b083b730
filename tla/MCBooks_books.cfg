SPECIFICATION Spec
CONSTANTS
  Account = {1, 2, 3, 4}
  Kind <- MCKind
  Poster = {c1, c2}
  Period = {"p1"}
  Shard = {0, 1, 2, 3}
  ShardMaps <- MCMaps
  Offered <- MCOffered
  Retained = 3
  MaxTx = 2
  MaxRebuild = 1
  WithBalanceCache = TRUE
  Nobody = Nobody
  KindOf <- MCKindOf
  Rows <- MCRows
  Tags <- MCTags
  Totals <- MCTotals
  MaxPairs = 2
  Date = {1, 2}
  Rate = {1, 2, 3}
  Foreign <- MCForeign
  TaxKey <- MCKeys
  TaxRate = {1, 3}
  Base <- MCBase
  MaxInserts = 3
  MaxWalks = 3
  Tenant = {"t", "u"}
  Reader = {r1}
  LedgerAccount = {"a", "b"}
  Bodies <- MCBodies
  ZSquared = 9
  MinSamples = 3
  MaxPosts = 4
  MaxReads = 1
SYMMETRY Symmetry
INVARIANTS
  LedgerHolds GroupBalances ServerTellsTruth
PROPERTIES
  ConversionsSettle
CHECK_DEADLOCK FALSE
