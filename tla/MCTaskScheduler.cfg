SPECIFICATION LiveSpec
CONSTANTS
  Names = {t1, t2}
  Flows = {t1}
  Loop = loop
  Runners = {r1}
  None = None
  Due = {0, 1, 2}
  Gap = 1
  OnceTimes = {1}
  MaxRetries = 1
  MaxTime = 2
  MaxObjects = 2
  MaxOps = 1
  MaxCrashes = 1
INVARIANTS
  TypeOK
  GivesUp
PROPERTIES
  LoopRunsAreSpaced
  OverdueIsRun
CHECK_DEADLOCK FALSE
