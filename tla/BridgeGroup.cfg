CONSTANTS
  s1 = s1
  s2 = s2
  Services = {s1, s2}
  LbIds = {1, 2, 3}
  VipIds = {1, 2}
  VsIds = {1, 2}
  Ports = {1}
  Digests = {1}
  Born = {"hidden", "ready"}
  UserLBs = {1}
  UserVIPs = {1}
  UserVIPParent = 1
  VIPGroup = {s1, s2}
  StaleReads = FALSE
  Faults = {"delete"}
  MaxFaults = 0
  MaxRepairs = 3
SPECIFICATION Spec
INVARIANTS RecordedOwned
PROPERTIES ListenerIsolation SharedParentKept
SYMMETRY ServiceSymmetry
CHECK_DEADLOCK FALSE
