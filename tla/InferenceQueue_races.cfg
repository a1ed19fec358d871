SPECIFICATION FairSpec
CONSTANTS
  Request = {1, 2}
  Principal = {"alice", "bob"}
  Workload = {"fast", "deep"}
  PrincipalOf <- TwoPrincipalOf
  WorkloadOf <- TwoWorkloadOf
  PriorityOf <- MCPriorityOf
  GlobalLimit = 1
  WorkloadLimit <- MCWorkloadLimit
  LeaseTTL = 5
  RenewEvery = 1
  MaxWait = 2
  Window = 64
  MaxDelay = 1
  PriorityScale = 100
  LastArrival = 2
  LastFault = 4
  MaxClock = 11
  Counts = {4, 7}
  Prompt = TRUE
  None = None
INVARIANTS TypeOK LeaseLimit LeaseHeld
PROPERTIES ImplementsLimiter BoundedWait CapacityReturns
CHECK_DEADLOCK FALSE
