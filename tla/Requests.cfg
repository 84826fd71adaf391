CONSTANTS
  Callers = {"service", "ingress"}
  CanRefresh = TRUE
  Interval = 2
  Validity = 3
  Timeout = 2
  DefaultWait = 1
  RetryAfters <- SomeHeaders
  MaxTroubles = 2
SPECIFICATION FairSpec
INVARIANTS TypeOK OneInFlight ExecutedOnce NeverUnauthorized
PROPERTIES WorkGetsDone ImplementsCalls
CHECK_DEADLOCK TRUE
