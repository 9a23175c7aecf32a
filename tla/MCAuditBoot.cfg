\* A stored entry is altered while no process runs.  TLC stops at the bounds.
SPECIFICATION Spec
CONSTANTS
  p1 = p1
  p2 = p2
  Corrupt = Corrupt
  Payloads <- MCPayloads
  MaxLines = 3
  MaxFaults = 2
  MaxDamage = 1
PROPERTIES
  RefusesBrokenChain
CHECK_DEADLOCK FALSE
