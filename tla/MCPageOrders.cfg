\* Two commands that overlap each other and the greeting.  The person may stop doing
\* anything.
SPECIFICATION FairSpec
CONSTANTS
  Cmds <- TwoCmds
  MaxClaps = 1
  MaxUnlocks = 1
  MaxSent = 0
INVARIANTS
  LockedOnlyWhileWaiting
  DeafOnlyMeanwhile
PROPERTIES
  DeafForAReason
CHECK_DEADLOCK FALSE
