SPECIFICATION FairSpec
CONSTANTS
  Run = {1}
  Resumable = {1}
  Client = {c1}
  Worker = {w1, w2}
  MaxMessages = 2
  MaxTexts = 2
  DBFails = FALSE
  None = None
INVARIANTS ActiveHasWorker
PROPERTIES RunsSettle
CHECK_DEADLOCK FALSE
