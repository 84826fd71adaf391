CONSTANTS
  Shoots = {"s1"}
  Projects = {"p1"}
  Project <- InProject1
  Ids = {1, 2}
  AppIds = {}
  AppProject = "p1"
  NoId = 0
  NoShoot = "none"
  Specs <- ReachSpecs
  StaleReads = FALSE
  StaleConfigs = FALSE
  PromptGC = TRUE
  Faults = {"api", "cmp", "auth", "shoot", "crash"}
  MaxFaults = 1
  MaxRequests = 3
SPECIFICATION FairSpec
INVARIANTS StatusOfGeneration CleanRelease
PROPERTIES RequestHandled DeletionEnds
CHECK_DEADLOCK FALSE
