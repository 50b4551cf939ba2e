SPECIFICATION LiveSpec
CONSTANTS
  Jobs = {1, 2, 3}
  Clients = {c1, c2}
  Workers = {w1, w2}
  None = None
  MaxHistory = 2
CHECK_DEADLOCK FALSE
INVARIANTS
  TypeOK
  CancelledNeverRuns
PROPERTIES
  OutcomeIsFinal
  PrunesOldestFinished
  JobsSettle
