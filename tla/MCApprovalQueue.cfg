SPECIFICATION Spec
CONSTANTS
  Requests = {a1, a2}
  Subjects = {s1, s2}
  Resolvers = {t1, t2}
  MaxCrashes = 1
  NoRequest = NoRequest
  NoSubject = NoSubject
SYMMETRY Symmetry
INVARIANTS
  TypeOK
  AnswerIsDurable
  OnePendingPerSubject
PROPERTIES
  ResumeIsNotRepeated
  ImplementsLedger
CHECK_DEADLOCK FALSE
