SPECIFICATION Spec
CONSTANTS
  n1 = n1
  n2 = n2
  n3 = n3
  n4 = n4
  Nodes = {n1, n2, n3, n4}
  Flows <- OneSignal
  Runners = {t1}
  MaxCrashes = 0
  MaxRetries = 0
  NoNode = NoNode
INVARIANT PausedIsWaiting
CHECK_DEADLOCK FALSE
