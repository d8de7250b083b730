SPECIFICATION Spec
CONSTANTS
  SessionId = {1, 2}
  CacheTenant = {"t", "u"}
  ViewKey <- MCViews
  CacheTtls = {NoTtl, 1}
  NoTtl = NoTtl
  MaxCacheTime = 3
  MaxPuts = 2
  q1 = q1 q2 = q2
  RTask = {q1, q2}
  RSession = {"s1", "s2"}
  RTenantOf <- MCTenantOf
  RLife = 3
  Grain = 2
  RKey = {"k1", "k2"}
  RPattern = {"k1", "k2"}
  MaxRTime = 4
  MaxRCalls = 3
  NoSession = NoSession
  Req = {q1, q2}
  Conn = {c1}
  Asks <- MCAsks
  Folded <- MCFolded
  ValidSlugs = {"acme", "globex"}
  JwtKey = "k"
  Issuer = "erp"
  Audience = "api"
  Anyone = Anyone
  Nothing = Nothing
  MaxClock = 1
  MaxStatements = 2
  MaxAbandoned = 1
  EntityId = {1, 2, 3}
  Bodies <- MCBodies
  TypeOf <- MCTypes
  Directives <- MCDirectives
  TextFacts <- MCFacts
  Filters <- MCFilters
  Unset = Unset
  Backend = "postgres"
  AuthPolicies = {"StaffAuth", "CustomerAuth"}
  PerPage = 3
  MaxPerPage = 2
  MaxRequests = 4
  Batches = {0, 1, 2}
  MaxFrames = 5
  MaxOutages = 2
  FindingLists <- MCFindingLists
  MaxSteps = 8
  Nodes = {1, 2, 3, 4, 5}
  Trees <- MCTrees
  Demands = {1, 3}
  MaxSamples = 4
  Sender = {p1, p2}
  Subject = {"a", "b"}
  Patterns = {"a", "all"}
  Matching <- MCMatching
  Capacity = 1
  MaxSubs = 2
  MaxMsgs = 2
  MaxStored = 3
  MaxCrashes = 2
  Flows = {"f1", "f2"}
  BusNames = {"x", "y"}
  Ordered <- MCOrdered
  UnitCost <- MCUnitCost
  Strangers <- MCStrangers
  Publisher = {"acme"}
  SigningKey = {"k1", "k2"}
  PluginName = {"dispatch"}
  Code = {"good", "spin", "junk"}
  Behaviour <- MCBehaviour
  TooLarge = {}
  StepsOf <- MCStepsOf
  Stop = {"s1"}
  StopDemands = {1, 2}
  Weights = {500}
  Fuel = 5
  MaxEpoch = 2
  MaxRuns = 2
  MaxEdits = 5
  NoCode = NoCode
  NoValue = NoValue
INVARIANTS
  TenantsConfined
PROPERTIES
  CacheKeepsApart RemoteCacheHolds ApiTruthful EventsReachBus FloorSound BusDelivers HandledOrPending FlowsComplete PluginsContained
CHECK_DEADLOCK FALSE
