SPECIFICATION Spec
CONSTANTS
  Run = {1}
  Resumable = {1}
  Client = {c1, c2}
  Worker = {w1, w2}
  MaxMessages = 2
  MaxTexts = 1
  DBFails = TRUE
  None = None
SYMMETRY Interchangeable
INVARIANTS CompletedIsAnswered CancelsAreCurrent
CHECK_DEADLOCK FALSE
