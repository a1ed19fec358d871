SPECIFICATION Spec
CONSTANTS
  Request = {q1, q2}
  Window = {"hour", "week"}
  Limit <- MCLimit
  Amount <- MCAmount
  Reported = {1}
  KeyTTL = 2
  LastStart = 1
  MaxClock = 4
  MaxEpoch = 1
  Moving = {"hour"}
  Credits = 0
  AdminResets = FALSE
  Faulty = FALSE
SYMMETRY Interchangeable
INVARIANTS TypeOK NeverUncounted PendingTracksReservations
PROPERTIES ReservesWithinLimit
CHECK_DEADLOCK FALSE
