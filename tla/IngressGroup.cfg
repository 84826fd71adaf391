CONSTANTS
  Ingresses = {1, 2}
  Groups = {"a", "b", ""}
  FirstGroup = "a"
  Backends <- BackendsDef
  TLS = {2}
  Editors = {1}
  Versions = {1, 2}
  Moves <- MovesDef
  Faults = {"failed-call", "late-lb", "late-listener", "listener-lost"}
  StaleReads = FALSE
  MaxEvents = 2
  LbIds = {1, 2, 3}
  VipIds = {1, 2, 3, 4, 5}
  VsIds = {1, 2, 3, 4, 5, 6, 7, 8, 9, 10}
  ChildIds = {1, 2, 3, 4, 5, 6, 7, 8, 9, 10, 11, 12, 13, 14, 15, 16}
  CertIds = {1, 2, 3}
SPECIFICATION FairSpec
INVARIANTS TypeOK GroupsApart OneCertificate
PROPERTIES RouteKept LastCleansUp PoolsOutlastRules GroupConverges
CHECK_DEADLOCK FALSE
