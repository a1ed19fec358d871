SPECIFICATION Spec
CONSTANTS
  Request = {1, 2}
  Principal = {"alice"}
  Workload = {"fast"}
  PrincipalOf <- OnePrincipalOf
  WorkloadOf <- OneWorkloadOf
  PriorityOf <- MCPriorityOf
  GlobalLimit = 2
  WorkloadLimit <- MCWorkloadLimit
  LeaseTTL = 2
  RenewEvery = 1
  MaxWait = 3
  Window = 64
  MaxDelay = 0
  PriorityScale = 100
  LastArrival = 1
  LastFault = 5
  MaxClock = 5
  Counts = {4}
  Prompt = FALSE
  None = None
INVARIANTS ReleasedIsGone LeasesAgree
PROPERTIES ServedInOrder
CHECK_DEADLOCK FALSE
