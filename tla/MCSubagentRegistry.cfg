SPECIFICATION Spec
CONSTANTS
  Runs = {r1, r2, r3}
  Keys = {k1, k2}
  Waiters = {w1}
  Limits = {1, 2}
  DepthLimits = {1, 2}
  MaxSteering = 1
  NoRun = NoRun
  NoKey = NoKey
SYMMETRY Symmetry
INVARIANTS
  TypeOK
  IndexNamesActive
  OrphansAreShadowed
  WaitIsTruthful
PROPERTIES
  TerminalIsFinal
  AdmissionBound
CHECK_DEADLOCK FALSE
