\* Three requests; the system stops when all are answered.
SPECIFICATION Spec
CONSTANTS
  r1 = r1
  r2 = r2
  r3 = r3
  Hole = Hole
  Requests <- MCRequests
  Kind <- MCKind
  Chunks = 2
INVARIANTS
  TypeOK
  AloneSendsOwn
  FailsWithReason
CHECK_DEADLOCK FALSE
