SPECIFICATION Spec
CONSTANTS
  Run = {1, 2}
  Resumable = {}
  Client = {c1}
  Worker = {w1, w2}
  MaxMessages = 3
  MaxTexts = 3
  DBFails = FALSE
  None = None
SYMMETRY Interchangeable
INVARIANTS TypeOK
PROPERTIES StopIsHonoured AnswersCurrentText
CHECK_DEADLOCK FALSE
