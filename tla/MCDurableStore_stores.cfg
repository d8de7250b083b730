SPECIFICATION BothSpec
CONSTANTS
  Node = {n1, n2}
  Client = {c1}
  Agg = {a1}
  Ev = {e1, e2, e3}
  Ops = {"append", "append_versioned"}
  HasOutbox = FALSE
  DbFails = TRUE
  MaxLog = 2
  MaxCrash = 1
  OwnNode = {n3}
  OwnClient = {c2, c3}
  OwnAgg = {a2, a3}
  OwnEv = {e4, e5, e6}
SYMMETRY Symmetry
INVARIANTS Contiguous VersionedDurable FailuresCounted AnsweredSurvives TableIsMirror
PROPERTIES ExtendsWhatWasRead
