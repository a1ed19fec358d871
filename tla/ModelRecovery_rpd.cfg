SPECIFICATION Spec
CONSTANTS
  Request = {r1, r2}
  Model = {m1, m2}
  m1 = m1
  m2 = m2
  r1 = r1
  r2 = r2
  None = None
  Primary = m1
  Pool <- MCPool
  Settings <- MCSettings
  DayLimit = 3
  Jobs <- MCJobs
  Reports <- MCReports
  Faulty = {r2}
PROPERTIES ExhaustedStaysExhausted
CHECK_DEADLOCK FALSE
