\* Two /speak requests; the system stops when both are answered.
SPECIFICATION Spec
CONSTANTS
  r1 = r1
  r2 = r2
  r3 = r3
  Hole = Hole
  Requests <- TwoSpeaks
  Kind <- TwoKind
  Chunks = 2
INVARIANTS
  SpeaksOwnText
CHECK_DEADLOCK FALSE
