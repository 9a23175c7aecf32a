\* The log under failures of its process and machine, and one alteration of a stored
\* entry from outside.  The process may stop for good; TLC also stops at the bounds.
SPECIFICATION Spec
CONSTANTS
  p1 = p1
  p2 = p2
  Corrupt = Corrupt
  Payloads <- MCPayloads
  MaxLines = 4
  MaxFaults = 4
  MaxDamage = 1
INVARIANTS
  TypeOK
  OnlyRetriesBreak
  VerifiedIsHistory
PROPERTIES
  NeverLaundered
  ImplementsTrail
CHECK_DEADLOCK FALSE
