SPECIFICATION BothSpec
CONSTANTS
  Stager = {s1}
  Relay = {r1, r2}
  Msg = {m1, m2, m3, m4}
  Poison = {}
  Limit = 2
  MaxId = 4
  InMemory = TRUE
  StoreFails = FALSE
  BusFails = TRUE
  RelayCrashes = TRUE
  PgStager = {s1, s2}
  PgRelay = {r1}
  PgMsg = {m1, m2, m3}
  PgMaxId = 4
INVARIANTS FirstSendInOrder
PROPERTIES ChannelRefinement AllDelivered CommittedIsDelivered NoRowTwice
CHECK_DEADLOCK FALSE
