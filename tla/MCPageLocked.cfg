\* Whisper mode hears a command while the page is locked.
SPECIFICATION Spec
CONSTANTS
  Cmds <- OneCmd
  MaxClaps = 1
  MaxUnlocks = 1
  MaxSent = 1
INVARIANTS
  CommandsOnlyUnlocked
CHECK_DEADLOCK FALSE
