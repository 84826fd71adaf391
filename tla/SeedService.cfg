CONSTANTS
  Services = {"s1"}
  LbIds = {1}
  VipIds = {1, 2, 3, 4}
  VsIds = {1, 2, 3, 4}
  Ports = {1, 2}
  Digests = {1, 2}
  Born = {"pending", "ready"}
  UserLBs = {}
  UserVIPs = {}
  UserVIPParent = 0
  VIPGroup = {}
  StaleReads = FALSE
  Faults = {"failed-call", "vs-fails", "vs-lost", "port-change", "backend-change", "type-change", "delete"}
  MaxFaults = 2
  MaxRepairs = 3
SPECIFICATION SeedFairSpec
INVARIANTS OneListenerPerPort OneVIPPerDisturbance
PROPERTIES PublishedServes RecordedGoneBeforeRelease DeletedServiceGone SeedConverges
CHECK_DEADLOCK FALSE
