SPECIFICATION LiveSpec
CONSTANTS
  Tasks = {t1}
  Actors = {loop, caller}
  Loop = loop
  Workers = {w1, w2}
  None = None
  PlanLength = 1
  MaxSteps = 2
  MaxApprovals = 1
  MaxOps = 2
  MaxCrashes = 1
CHECK_DEADLOCK FALSE
INVARIANTS
  TypeOK
  OneSliceAtATime
  StepRunsOnce
PROPERTIES
  RunnableIsRun
  DecisionReachesTask
