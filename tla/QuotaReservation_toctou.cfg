SPECIFICATION Spec
CONSTANTS
  Request = {q1, q2}
  Window = {"hour"}
  Limit <- MCLimit
  Amount <- MCAmount
  Reported = {3}
  KeyTTL = 2
  LastStart = 1
  MaxClock = 1
  MaxEpoch = 0
  Moving = {"hour"}
  Credits = 0
  AdminResets = FALSE
  Faulty = FALSE
PROPERTIES AdmittedWithinQuota
CHECK_DEADLOCK FALSE
