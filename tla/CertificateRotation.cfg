CONSTANTS
  Ingresses = {1}
  Groups = {"a"}
  FirstGroup = "a"
  Backends <- BackendsDef
  TLS = {1}
  Editors = {}
  Versions = {1, 2}
  Moves = {}
  Faults = {}
  StaleReads = FALSE
  MaxEvents = 2
  LbIds = {1, 2}
  VipIds = {1, 2}
  VsIds = {1, 2, 3, 4}
  ChildIds = {1, 2, 3, 4, 5, 6, 7, 8}
  CertIds = {1, 2}
SPECIFICATION FairSpec
PROPERTIES CertificatesCurrent
CHECK_DEADLOCK FALSE
