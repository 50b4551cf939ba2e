SPECIFICATION Spec
CONSTANTS
  Keys = {t1, g1}
  Threads = {t1}
  Modes = {assistant, admin}
  DefaultMode = assistant
  Runs = {r1}
  Callers = {c1, c2}
  None = None
  Reports = {"running"}
  Counts = {0}
  MaxTimeline = 2
  MaxCalls = 3
  MaxMissed = 1
  MaxClock = 1
SYMMETRY Symmetry
INVARIANTS
  TypeOK
  RestartKeepsTheNewest
  RunShownOnce
PROPERTIES
  OnlySwitchDemotes
