SPECIFICATION RuntimeSpec
CONSTANTS
  Runs = {r1, r2, r3}
  Keys = {k1, k2}
  Waiters = {}
  Limits = {2}
  DepthLimits = {1}
  MaxSteering = 1
  Threads = {t1, t2}
  Approvals = {a1, a2}
  NoRun = NoRun
  NoKey = NoKey
  NoApproval = NoApproval
SYMMETRY Symmetry
INVARIANTS
  RuntimeTypeOK
  NoStrandedRun
  GraphIsExclusive
PROPERTIES
  OutcomeReachesOwnRun
CHECK_DEADLOCK FALSE
