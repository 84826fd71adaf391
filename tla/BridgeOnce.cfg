CONSTANTS
  Services = {"s1"}
  LbIds = {1, 2}
  VipIds = {1, 2}
  VsIds = {1, 2, 3}
  Ports = {1}
  Digests = {1, 2}
  Born = {"pending", "ready", "failed"}
  UserLBs = {}
  UserVIPs = {}
  UserVIPParent = 0
  VIPGroup = {}
  StaleReads = TRUE
  Faults = {"failed-call", "lb-fails", "vip-fails", "vs-fails", "lb-lost", "vip-lost", "vs-lost", "backend-change", "type-change", "delete"}
  MaxFaults = 1
  MaxRepairs = 3
SPECIFICATION Spec
INVARIANTS TypeOK OneLBPerService OneListenerPerPort
PROPERTIES PublishedServes
CHECK_DEADLOCK FALSE
