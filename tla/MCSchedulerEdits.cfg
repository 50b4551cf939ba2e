SPECIFICATION Spec
CONSTANTS
  Names = {t1}
  Flows = {}
  Loop = loop
  Runners = {r1}
  None = None
  Due = {1, 2}
  Gap = 1
  OnceTimes = {1}
  MaxRetries = 2
  MaxTime = 2
  MaxObjects = 3
  MaxOps = 1
  MaxCrashes = 1
PROPERTIES
  EditsSurviveRestart
