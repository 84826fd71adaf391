CONSTANTS
  Services = {"s1"}
  LbIds = {1, 2}
  VipIds = {1, 2}
  VsIds = {1, 2}
  Ports = {1}
  Digests = {1}
  Born = {"pending", "ready"}
SPECIFICATION Spec
INVARIANTS NoDuplicate
CHECK_DEADLOCK FALSE
