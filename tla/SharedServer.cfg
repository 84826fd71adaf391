CONSTANTS
  Shoots = {"s1", "s2"}
  Projects = {"p1"}
  Project <- InProject1
  Ids = {1, 2}
  AppIds = {}
  AppProject = "p1"
  NoId = 0
  NoShoot = "none"
  Specs <- CmpSpecs
  StaleReads = FALSE
  StaleConfigs = FALSE
  PromptGC = TRUE
  Faults = {}
  MaxFaults = 0
  MaxRequests = 2
SPECIFICATION Spec
INVARIANTS OwnVirtualServer
CHECK_DEADLOCK FALSE
