SPECIFICATION Spec
CONSTANTS
  Request = {1, 2}
  Principal = {"alice", "bob"}
  Workload = {"fast", "deep"}
  PrincipalOf <- TwoPrincipalOf
  WorkloadOf <- TwoWorkloadOf
  PriorityOf <- MCPriorityOf
  GlobalLimit = 1
  WorkloadLimit <- MCWorkloadLimit
  LeaseTTL = 2
  RenewEvery = 1
  MaxWait = 3
  Window = 64
  MaxDelay = 0
  PriorityScale = 100
  LastArrival = 1
  LastFault = 5
  MaxClock = 5
  Counts = {}
  Prompt = FALSE
  None = None
INVARIANTS ServingWithinLimits
CHECK_DEADLOCK FALSE
