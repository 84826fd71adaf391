CONSTANTS
  Shoots = {"s1"}
  Projects = {"p1"}
  Project <- InProject1
  Ids = {1, 2}
  AppIds = {}
  AppProject = "p1"
  NoId = 0
  NoShoot = "none"
  Specs <- MixedSpecs
  StaleReads = TRUE
  StaleConfigs = TRUE
  PromptGC = FALSE
  Faults = {"api", "cmp", "shoot", "crash", "patch"}
  MaxFaults = 1
  MaxRequests = 3
SPECIFICATION Spec
INVARIANTS ExtTypeOK SettledAgrees OneControlPlaneLB SuccessIsRecorded
PROPERTIES AppAfterControlPlane
CHECK_DEADLOCK FALSE
