\* One command, two welcome sequences: a welcome that is cancelled and begun again,
\* whisper mode with a transcription on its way.  The person may stop doing anything.
SPECIFICATION Spec
CONSTANTS
  Cmds <- OneCmd
  MaxClaps = 2
  MaxUnlocks = 1
  MaxSent = 1
INVARIANTS
  TypeOK
  SilencedOnlyBySpeech
  EscapeHatch
  NoCipherAfterUnlock
CHECK_DEADLOCK FALSE
