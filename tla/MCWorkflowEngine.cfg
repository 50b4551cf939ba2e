SPECIFICATION Spec
CONSTANTS
  n1 = n1
  n2 = n2
  n3 = n3
  n4 = n4
  Nodes = {n1, n2, n3, n4}
  Flows <- AllFlows
  Runners = {t1}
  MaxCrashes = 1
  MaxRetries = 1
  NoNode = NoNode
INVARIANTS
  TypeOK
  DependenciesFirst
  SkipsAreJustified
  NothingIsRedone
  ApprovalIsForTheNode
PROPERTIES
  RejectionHolds
  CallsReturn
CHECK_DEADLOCK FALSE
