SPECIFICATION Spec
CONSTANTS
  Keys = {t1, g1}
  Threads = {t1}
  Modes = {assistant, admin}
  DefaultMode = assistant
  Runs = {r1}
  Callers = {c1, c2}
  None = None
  Reports = {"running", "completed"}
  Counts = {0}
  MaxTimeline = 2
  MaxCalls = 2
  MaxMissed = 0
  MaxClock = 1
INVARIANTS
  TimelineInTimeOrder
