CONSTANTS
  Services = {"s1"}
  LbIds = {1, 2}
  VipIds = {1, 2}
  VsIds = {1, 2, 3}
  Ports = {1}
  Digests = {1, 2}
  Born = {"pending", "ready"}
  UserLBs = {}
  UserVIPs = {}
  UserVIPParent = 0
  VIPGroup = {}
  StaleReads = FALSE
  Faults = {"backend-change"}
  MaxFaults = 1
  MaxRepairs = 3
SPECIFICATION FairSpec
PROPERTIES Settles
CHECK_DEADLOCK FALSE
