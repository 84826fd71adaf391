CONSTANTS
  Services = {"s1"}
  LbIds = {1, 2}
  VipIds = {1, 2, 3, 4}
  VsIds = {1, 2, 3, 4}
  Ports = {1, 2}
  Digests = {1, 2}
  Born = {"pending", "ready"}
  UserLBs = {1}
  UserVIPs = {1}
  UserVIPParent = 1
  VIPGroup = {}
  StaleReads = FALSE
  Faults = {"delete", "vs-lost", "vs-fails", "failed-call", "port-change"}
  MaxFaults = 1
  MaxRepairs = 3
SPECIFICATION FairSpec
PROPERTIES CleanBeforeRelease DeletedServiceGone Converges
CHECK_DEADLOCK FALSE
