SPECIFICATION FairSpec
CONSTANTS
  Request = {q1}
  Window = {"hour"}
  Limit <- MCLimit
  Amount <- MCAmount
  Reported = {3}
  KeyTTL = 2
  LastStart = 1
  MaxClock = 4
  MaxEpoch = 2
  Moving = {"hour"}
  Credits = 1
  AdminResets = TRUE
  Faulty = TRUE
PROPERTIES HeadroomReturns
CHECK_DEADLOCK FALSE
