--------------------------- MODULE VoicePageProofs ---------------------------
(***************************************************************************)
(* Proofs about VoicePage for any number of commands, welcome sequences,   *)
(* unlocks and transcriptions: the safety properties, that a deaf page has *)
(* something under way, and how alone a locked page can take a command.    *)
(***************************************************************************)
EXTENDS VoicePage, TLAPS

PageType ==
  [unlocked : BOOLEAN, welcome : BOOLEAN,
   state : {"idle", "unlocked", "processing", "speaking"},
   typing : 0 .. MaxClaps, pin : SUBSET {"link", "panel"}, asking : BOOLEAN,
   claps : 0 .. MaxClaps, unlocks : 0 .. MaxUnlocks, due : 0 .. MaxUnlocks]

EarsType ==
  [kind : Kinds, status : {"off", "starting", "on", "stopping"},
   old : SUBSET Kinds, timers : SUBSET Timers, whisper : BOOLEAN,
   password : BOOLEAN, inUtterance : BOOLEAN, sent : 0 .. MaxSent]

MouthType == [tts : BOOLEAN, asked : SUBSET Speeches, playing : Speeches \cup {Nobody}]

CmdsType == [Cmds -> Flying \cup {"none", "say", "done"}]

LostType == SUBSET {"cut", "typed", "error", "refused"}

\* A typewriter belongs to a welcome, and a greeting that is due to an unlock.
Counts == page.typing <= page.claps /\ page.due <= page.unlocks

\* The inductive invariant, by the part of the state it is about.
PageInv  == page \in PageType /\ Counts /\ EscapeHatch
EarsInv  == ears \in EarsType
MouthInv == mouth \in MouthType /\ SilencedOnlyBySpeech
CmdsInv  == cmds \in CmdsType /\ LockedOnlyWhileWaiting
LostInv  == lost \in LostType /\ NoCipherAfterUnlock

IInv == PageInv /\ EarsInv /\ MouthInv /\ CmdsInv /\ LostInv

LEMMA TypeParts ==
  TypeOK <=> /\ page \in PageType
             /\ ears \in EarsType
             /\ mouth \in MouthType
             /\ cmds \in CmdsType
             /\ lost \in LostType
BY Zenon DEF TypeOK, PageType, EarsType, MouthType, CmdsType, LostType

-----------------------------------------------------------------------------
(* What the functions of the ears return, and leave alone.                 *)

LEMMA StoppedType ==
  ASSUME NEW e \in EarsType
  PROVE  /\ Stopped(e) \in EarsType
         /\ Stopped(e).password = e.password
BY DEF Stopped, EarsType

LEMMA FreshType ==
  ASSUME NEW e \in EarsType, NEW k \in Kinds
  PROVE  /\ Fresh(e, k) \in EarsType
         /\ Fresh(e, k).password = e.password
BY DEF Fresh, EarsType

LEMMA StartedType ==
  ASSUME NEW e \in EarsType, NEW k \in Kinds
  PROVE  /\ Started(e, k) \in EarsType
         /\ Started(e, k).password = e.password
BY DEF Started, EarsType, Kinds, Timers

LEMMA SwitchType ==
  ASSUME NEW e \in EarsType
  PROVE  SwitchToWhisperPassword(e) \in EarsType
BY DEF SwitchToWhisperPassword, EarsType

LEMMA WhisperType ==
  ASSUME NEW e \in EarsType
  PROVE  /\ StartWhisperListening(e) \in EarsType
         /\ StartWhisperListening(e).password = e.password
BY DEF StartWhisperListening, EarsType

LEMMA StartPasswordType ==
  ASSUME NEW e \in EarsType
  PROVE  StartPasswordListening(e) \subseteq EarsType
<1>1. "pw" \in Kinds
  BY DEF Kinds
<1>2. Fresh(e, "pw") \in EarsType
  BY <1>1, FreshType
<1> QED
  BY <1>1, <1>2, SwitchType, StartedType DEF StartPasswordListening

LEMMA StartCommandType ==
  ASSUME NEW e \in EarsType, NEW f \in StartCommandListening(e)
  PROVE  f \in EarsType /\ f.password = e.password
<1>1. "cmd" \in Kinds
  BY DEF Kinds
<1>2. Fresh(e, "cmd") \in EarsType /\ Fresh(e, "cmd").password = e.password
  BY <1>1, FreshType
<1> QED
  BY <1>1, <1>2, WhisperType, StartedType DEF StartCommandListening

LEMMA UnlockPassphraseType ==
  ASSUME NEW e \in EarsType
  PROVE  UnlockPassphrase(e) \in EarsType
BY DEF UnlockPassphrase, EarsType

LEMMA WithoutPassword ==
  ASSUME NEW e \in EarsType
  PROVE  [e EXCEPT !.password = FALSE] \in EarsType
BY DEF EarsType

LEMMA WithoutTimer ==
  ASSUME NEW e \in EarsType, NEW t
  PROVE  [e EXCEPT !.timers = @ \ {t}] \in EarsType
BY DEF EarsType

LEMMA Heard ==
  ASSUME NEW e \in EarsType, e.sent > 0
  PROVE  [e EXCEPT !.sent = @ - 1] \in EarsType
BY BoundsAssumption DEF EarsType

LEMMA SpeechTypes ==
  /\ \A n \in 1 .. MaxClaps : <<"welcome", n>> \in Speeches
  /\ \A n \in 1 .. MaxUnlocks : <<"greet", n>> \in Speeches
  /\ \A c \in Cmds : <<"cmd", c>> \in Speeches
  /\ Nobody \notin Speeches
  /\ \A s \in Speeches : s[1] = "cmd" => s[2] \in Cmds
<1>1. ASSUME NEW n \in 1 .. MaxClaps PROVE <<"welcome", n>> \in Speeches
  BY DEF Speeches
<1>2. ASSUME NEW n \in 1 .. MaxUnlocks PROVE <<"greet", n>> \in Speeches
  BY DEF Speeches
<1>3. ASSUME NEW c \in Cmds PROVE <<"cmd", c>> \in Speeches
  BY DEF Speeches
<1>4. Nobody \notin Speeches
  BY DEF Speeches, Nobody
<1>5. ASSUME NEW s \in Speeches, s[1] = "cmd" PROVE s[2] \in Cmds
  BY <1>5 DEF Speeches
<1> QED
  BY <1>1, <1>2, <1>3, <1>4, <1>5

LEMMA SpeakType ==
  ASSUME NEW m \in MouthType, NEW s \in Speeches
  PROVE  /\ Speak(m, s) \in MouthType
         /\ s \in Speak(m, s).asked
BY DEF Speak, MouthType
-----------------------------------------------------------------------------
(* Every step keeps the invariant.                                         *)

LEMMA OnDoubleClapStep ==
  ASSUME IInv, OnDoubleClap
  PROVE  IInv'
<1>1. PageInv'
  <2>1. page.claps + 1 \in 0 .. MaxClaps /\ page.typing + 1 \in 0 .. MaxClaps
    BY BoundsAssumption DEF IInv, OnDoubleClap, PageInv, PageType, Counts
  <2>2. page' \in PageType
    BY <2>1 DEF IInv, OnDoubleClap, PageInv, PageType
  <2>3. Counts' /\ EscapeHatch'
    BY BoundsAssumption DEF IInv, OnDoubleClap, PageInv, PageType, Counts, EscapeHatch
  <2> QED
    BY <2>2, <2>3 DEF PageInv
<1>2. EarsInv'
  BY DEF IInv, OnDoubleClap, EarsInv, EarsType
<1>3. MouthInv'
  <2>1. page.claps + 1 \in 1 .. MaxClaps
    BY BoundsAssumption DEF IInv, OnDoubleClap, PageInv, PageType
  <2>2. <<"welcome", page.claps + 1>> \in Speeches
    BY <2>1, SpeechTypes
  <2> QED
    BY <2>2, SpeakType DEF IInv, OnDoubleClap, MouthInv, SilencedOnlyBySpeech
<1>4. CmdsInv'
  BY DEF IInv, OnDoubleClap, CmdsInv, CmdsType, LockedOnlyWhileWaiting, PageInv, PageType
<1>5. LostInv'
  BY
  DEF IInv, OnDoubleClap, LostInv, LostType, NoCipherAfterUnlock, PageInv, PageType,
      EarsInv, EarsType
<1> QED
  BY <1>1, <1>2, <1>3, <1>4, <1>5 DEF IInv

LEMMA ShowPinFallbackStep ==
  ASSUME IInv, ShowPinFallback
  PROVE  IInv'
<1>1. PageInv'
  BY DEF IInv, ShowPinFallback, PageInv, PageType, Counts, EscapeHatch
<1>2. EarsInv'
  BY StoppedType, WithoutPassword DEF IInv, ShowPinFallback, EarsInv
<1>3. MouthInv'
  BY DEF IInv, ShowPinFallback, MouthInv, MouthType, SilencedOnlyBySpeech
<1>4. CmdsInv'
  BY DEF IInv, ShowPinFallback, CmdsInv, CmdsType, LockedOnlyWhileWaiting, PageInv, PageType
<1>5. LostInv'
  BY
  DEF IInv, ShowPinFallback, LostInv, LostType, NoCipherAfterUnlock, PageInv, PageType,
      EarsInv, EarsType
<1> QED
  BY <1>1, <1>2, <1>3, <1>4, <1>5 DEF IInv

LEMMA CancelAuthStep ==
  ASSUME IInv, CancelAuth
  PROVE  IInv'
<1>1. PageInv'
  BY DEF IInv, CancelAuth, PageInv, PageType, Counts, EscapeHatch
<1>2. EarsInv'
  BY StoppedType, WithoutPassword DEF IInv, CancelAuth, EarsInv
<1>3. MouthInv'
  BY DEF IInv, CancelAuth, MouthInv, MouthType, SilencedOnlyBySpeech
<1>4. CmdsInv'
  BY DEF IInv, CancelAuth, CmdsInv, CmdsType, LockedOnlyWhileWaiting, PageInv, PageType
<1>5. LostInv'
  BY StoppedType, WithoutPassword
  DEF IInv, CancelAuth, LostInv, LostType, NoCipherAfterUnlock, PageInv, PageType, EarsInv,
      EarsType
<1> QED
  BY <1>1, <1>2, <1>3, <1>4, <1>5 DEF IInv

LEMMA UnlockWithPinStep ==
  ASSUME IInv, UnlockWithPin
  PROVE  IInv'
<1>1. PageInv'
  BY DEF IInv, UnlockWithPin, PageInv, PageType, Counts, EscapeHatch
<1>2. EarsInv'
  BY DEF IInv, UnlockWithPin, EarsInv, EarsType
<1>3. MouthInv'
  BY DEF IInv, UnlockWithPin, MouthInv, MouthType, SilencedOnlyBySpeech
<1>4. CmdsInv'
  BY DEF IInv, UnlockWithPin, CmdsInv, CmdsType, LockedOnlyWhileWaiting, PageInv, PageType
<1>5. LostInv'
  BY
  DEF IInv, UnlockWithPin, LostInv, LostType, NoCipherAfterUnlock, PageInv, PageType,
      EarsInv, EarsType
<1> QED
  BY <1>1, <1>2, <1>3, <1>4, <1>5 DEF IInv

LEMMA SpeechBeginsStep ==
  ASSUME IInv, SpeechBegins
  PROVE  IInv'
<1>1. PageInv'
  BY DEF IInv, SpeechBegins, PageInv, PageType, Counts, EscapeHatch
<1>2. EarsInv'
  <2>1. PICK sent \in {ears.sent, ears.sent + 1} :
          sent <= MaxSent /\ ears' = [ears EXCEPT !.inUtterance = TRUE, !.sent = sent]
    BY DEF SpeechBegins
  <2>2. sent \in 0 .. MaxSent
    BY <2>1, BoundsAssumption DEF IInv, EarsInv, EarsType
  <2> QED
    BY <2>1, <2>2 DEF IInv, EarsInv, EarsType
<1>3. MouthInv'
  BY DEF IInv, SpeechBegins, MouthInv, MouthType, SilencedOnlyBySpeech
<1>4. CmdsInv'
  BY DEF IInv, SpeechBegins, CmdsInv, CmdsType, LockedOnlyWhileWaiting, PageInv, PageType
<1>5. LostInv'
  BY
  DEF IInv, SpeechBegins, LostInv, LostType, NoCipherAfterUnlock, PageInv, PageType,
      EarsInv, EarsType
<1> QED
  BY <1>1, <1>2, <1>3, <1>4, <1>5 DEF IInv

LEMMA SpeechIsOverStep ==
  ASSUME IInv, SpeechIsOver
  PROVE  IInv'
<1>1. PageInv'
  BY DEF IInv, SpeechIsOver, PageInv, PageType, Counts, EscapeHatch
<1>2. EarsInv'
  <2>1. ears.sent + 1 \in 0 .. MaxSent
    BY BoundsAssumption DEF IInv, SpeechIsOver, EarsInv, EarsType
  <2> QED
    BY <2>1 DEF IInv, SpeechIsOver, EarsInv, EarsType
<1>3. MouthInv'
  BY DEF IInv, SpeechIsOver, MouthInv, MouthType, SilencedOnlyBySpeech
<1>4. CmdsInv'
  BY DEF IInv, SpeechIsOver, CmdsInv, CmdsType, LockedOnlyWhileWaiting, PageInv, PageType
<1>5. LostInv'
  BY
  DEF IInv, SpeechIsOver, LostInv, LostType, NoCipherAfterUnlock, PageInv, PageType,
      EarsInv, EarsType
<1> QED
  BY <1>1, <1>2, <1>3, <1>4, <1>5 DEF IInv

LEMMA PwStartsStep ==
  ASSUME IInv, PwStarts
  PROVE  IInv'
<1>1. PageInv'
  BY DEF IInv, PwStarts, PageInv, PageType, Counts, EscapeHatch
<1>2. EarsInv'
  BY DEF IInv, PwStarts, EarsInv, EarsType, Timers
<1>3. MouthInv'
  BY DEF IInv, PwStarts, MouthInv, MouthType, SilencedOnlyBySpeech
<1>4. CmdsInv'
  BY DEF IInv, PwStarts, CmdsInv, CmdsType, LockedOnlyWhileWaiting, PageInv, PageType
<1>5. LostInv'
  BY
  DEF IInv, PwStarts, LostInv, LostType, NoCipherAfterUnlock, PageInv, PageType, EarsInv,
      EarsType
<1> QED
  BY <1>1, <1>2, <1>3, <1>4, <1>5 DEF IInv

LEMMA StartsLateStep ==
  ASSUME IInv, NEW k \in Kinds, StartsLate(k)
  PROVE  IInv'
<1>1. PageInv'
  BY DEF IInv, StartsLate, PageInv, PageType, Counts, EscapeHatch
<1>2. EarsInv'
  BY DEF IInv, StartsLate, EarsInv, EarsType, Timers
<1>3. MouthInv'
  BY DEF IInv, StartsLate, MouthInv, MouthType, SilencedOnlyBySpeech
<1>4. CmdsInv'
  BY DEF IInv, StartsLate, CmdsInv, CmdsType, LockedOnlyWhileWaiting, PageInv, PageType
<1>5. LostInv'
  BY
  DEF IInv, StartsLate, LostInv, LostType, NoCipherAfterUnlock, PageInv, PageType, EarsInv,
      EarsType
<1> QED
  BY <1>1, <1>2, <1>3, <1>4, <1>5 DEF IInv

LEMMA PwHearsOtherStep ==
  ASSUME IInv, PwHearsOther
  PROVE  IInv'
<1>1. PageInv'
  BY DEF IInv, PwHearsOther, PageInv, PageType, Counts, EscapeHatch
<1>2. EarsInv'
  BY DEF IInv, PwHearsOther, EarsInv, EarsType, Timers
<1>3. MouthInv'
  BY DEF IInv, PwHearsOther, MouthInv, MouthType, SilencedOnlyBySpeech
<1>4. CmdsInv'
  BY DEF IInv, PwHearsOther, CmdsInv, CmdsType, LockedOnlyWhileWaiting, PageInv, PageType
<1>5. LostInv'
  BY
  DEF IInv, PwHearsOther, LostInv, LostType, NoCipherAfterUnlock, PageInv, PageType,
      EarsInv, EarsType
<1> QED
  BY <1>1, <1>2, <1>3, <1>4, <1>5 DEF IInv

LEMMA PwFailsStep ==
  ASSUME IInv, PwFails
  PROVE  IInv'
<1>1. PageInv'
  BY DEF IInv, PwFails, PageInv, PageType, Counts, EscapeHatch
<1>2. EarsInv'
  BY SwitchType DEF IInv, PwFails, EarsInv
<1>3. MouthInv'
  BY DEF IInv, PwFails, MouthInv, MouthType, SilencedOnlyBySpeech
<1>4. CmdsInv'
  BY DEF IInv, PwFails, CmdsInv, CmdsType, LockedOnlyWhileWaiting, PageInv, PageType
<1>5. LostInv'
  BY
  DEF IInv, PwFails, LostInv, LostType, NoCipherAfterUnlock, PageInv, PageType, EarsInv,
      EarsType
<1> QED
  BY <1>1, <1>2, <1>3, <1>4, <1>5 DEF IInv

LEMMA CmdStartsStep ==
  ASSUME IInv, CmdStarts
  PROVE  IInv'
<1>1. PageInv'
  BY DEF IInv, CmdStarts, PageInv, PageType, Counts, EscapeHatch
<1>2. EarsInv'
  BY DEF IInv, CmdStarts, EarsInv, EarsType
<1>3. MouthInv'
  BY DEF IInv, CmdStarts, MouthInv, MouthType, SilencedOnlyBySpeech
<1>4. CmdsInv'
  BY DEF IInv, CmdStarts, CmdsInv, CmdsType, LockedOnlyWhileWaiting, PageInv, PageType
<1>5. LostInv'
  BY
  DEF IInv, CmdStarts, LostInv, LostType, NoCipherAfterUnlock, PageInv, PageType, EarsInv,
      EarsType
<1> QED
  BY <1>1, <1>2, <1>3, <1>4, <1>5 DEF IInv

LEMMA CmdRefusedStep ==
  ASSUME IInv, CmdRefused
  PROVE  IInv'
<1>1. PageInv'
  BY DEF IInv, CmdRefused, PageInv, PageType, Counts, EscapeHatch
<1>2. EarsInv'
  BY DEF IInv, CmdRefused, EarsInv, EarsType
<1>3. MouthInv'
  BY DEF IInv, CmdRefused, MouthInv, MouthType, SilencedOnlyBySpeech
<1>4. CmdsInv'
  BY DEF IInv, CmdRefused, CmdsInv, CmdsType, LockedOnlyWhileWaiting, PageInv, PageType
<1>5. LostInv'
  BY
  DEF IInv, CmdRefused, LostInv, LostType, NoCipherAfterUnlock, PageInv, PageType, EarsInv,
      EarsType
<1> QED
  BY <1>1, <1>2, <1>3, <1>4, <1>5 DEF IInv

LEMMA CmdFailsStep ==
  ASSUME IInv, CmdFails
  PROVE  IInv'
<1>1. PageInv'
  BY DEF IInv, CmdFails, PageInv, PageType, Counts, EscapeHatch
<1>2. EarsInv'
  BY StoppedType, WhisperType DEF IInv, CmdFails, EarsInv
<1>3. MouthInv'
  BY DEF IInv, CmdFails, MouthInv, MouthType, SilencedOnlyBySpeech
<1>4. CmdsInv'
  BY DEF IInv, CmdFails, CmdsInv, CmdsType, LockedOnlyWhileWaiting, PageInv, PageType
<1>5. LostInv'
  BY StoppedType, WhisperType
  DEF IInv, CmdFails, LostInv, LostType, NoCipherAfterUnlock, PageInv, PageType, EarsInv,
      EarsType
<1> QED
  BY <1>1, <1>2, <1>3, <1>4, <1>5 DEF IInv

LEMMA PinRefusedStep ==
  ASSUME IInv, PinRefused
  PROVE  IInv'
<1>1. PageInv'
  BY DEF IInv, PinRefused, PageInv, PageType, Counts, EscapeHatch
<1>2. EarsInv'
  BY DEF IInv, PinRefused, EarsInv, EarsType
<1>3. MouthInv'
  BY DEF IInv, PinRefused, MouthInv, MouthType, SilencedOnlyBySpeech
<1>4. CmdsInv'
  BY DEF IInv, PinRefused, CmdsInv, CmdsType, LockedOnlyWhileWaiting, PageInv, PageType
<1>5. LostInv'
  BY
  DEF IInv, PinRefused, LostInv, LostType, NoCipherAfterUnlock, PageInv, PageType, EarsInv,
      EarsType
<1> QED
  BY <1>1, <1>2, <1>3, <1>4, <1>5 DEF IInv

LEMMA TranscribedOtherStep ==
  ASSUME IInv, TranscribedOther
  PROVE  IInv'
<1>1. PageInv'
  BY DEF IInv, TranscribedOther, PageInv, PageType, Counts, EscapeHatch
<1>2. EarsInv'
  <2>1. PICK again \in {{}, {"retry"}} :
          ears' = [ears EXCEPT !.sent = @ - 1, !.timers = @ \cup again]
    BY DEF TranscribedOther
  <2>2. ears.sent - 1 \in 0 .. MaxSent
    BY BoundsAssumption DEF IInv, TranscribedOther, EarsInv, EarsType
  <2>3. again \subseteq Timers
    BY DEF Timers
  <2> QED
    BY <2>1, <2>2, <2>3 DEF IInv, EarsInv, EarsType
<1>3. MouthInv'
  BY DEF IInv, TranscribedOther, MouthInv, MouthType, SilencedOnlyBySpeech
<1>4. CmdsInv'
  BY
  DEF IInv, TranscribedOther, CmdsInv, CmdsType, LockedOnlyWhileWaiting, PageInv, PageType
<1>5. LostInv'
  BY
  DEF IInv, TranscribedOther, LostInv, LostType, NoCipherAfterUnlock, PageInv, PageType,
      EarsInv, EarsType
<1> QED
  BY <1>1, <1>2, <1>3, <1>4, <1>5 DEF IInv

LEMMA OnWelcomeTypedStep ==
  ASSUME IInv, OnWelcomeTyped
  PROVE  IInv'
<1>1. PageInv'
  <2>1. page.typing - 1 \in 0 .. MaxClaps
    BY BoundsAssumption DEF IInv, OnWelcomeTyped, PageInv, PageType
  <2>2. page' \in PageType
    BY <2>1 DEF IInv, OnWelcomeTyped, PageInv, PageType
  <2>3. Counts'
    BY BoundsAssumption DEF IInv, OnWelcomeTyped, PageInv, PageType, Counts
  <2>4. EscapeHatch'
    BY DEF IInv, OnWelcomeTyped, PageInv, PageType, EscapeHatch
  <2> QED
    BY <2>2, <2>3, <2>4 DEF PageInv
<1>2. EarsInv'
  BY StartPasswordType DEF IInv, OnWelcomeTyped, EarsInv
<1>3. MouthInv'
  BY DEF IInv, OnWelcomeTyped, MouthInv, MouthType, SilencedOnlyBySpeech
<1>4. CmdsInv'
  BY DEF IInv, OnWelcomeTyped, CmdsInv, CmdsType, LockedOnlyWhileWaiting, PageInv, PageType
<1>5. LostInv'
  BY
  DEF IInv, OnWelcomeTyped, LostInv, LostType, NoCipherAfterUnlock, PageInv, PageType,
      EarsInv, EarsType
<1> QED
  BY <1>1, <1>2, <1>3, <1>4, <1>5 DEF IInv

LEMMA GreetStep ==
  ASSUME IInv, Greet
  PROVE  IInv'
<1>1. PageInv'
  BY BoundsAssumption DEF IInv, Greet, PageInv, PageType, Counts, EscapeHatch
<1>2. EarsInv'
  BY DEF IInv, Greet, EarsInv, EarsType
<1>3. MouthInv'
  <2>1. page.unlocks - page.due + 1 \in 1 .. MaxUnlocks
    BY BoundsAssumption DEF IInv, Greet, PageInv, PageType, Counts
  <2>2. <<"greet", page.unlocks - page.due + 1>> \in Speeches
    BY <2>1, SpeechTypes
  <2> QED
    BY <2>2, SpeakType DEF IInv, Greet, MouthInv, SilencedOnlyBySpeech
<1>4. CmdsInv'
  BY DEF IInv, Greet, CmdsInv, CmdsType, LockedOnlyWhileWaiting, PageInv, PageType
<1>5. LostInv'
  BY
  DEF IInv, Greet, LostInv, LostType, NoCipherAfterUnlock, PageInv, PageType, EarsInv,
      EarsType
<1> QED
  BY <1>1, <1>2, <1>3, <1>4, <1>5 DEF IInv

LEMMA CmdWatchdogStep ==
  ASSUME IInv, CmdWatchdog
  PROVE  IInv'
<1>1. PageInv'
  BY DEF IInv, CmdWatchdog, PageInv, PageType, Counts, EscapeHatch
<1>2. EarsInv'
  BY StoppedType, WhisperType, WithoutTimer DEF IInv, CmdWatchdog, EarsInv
<1>3. MouthInv'
  BY DEF IInv, CmdWatchdog, MouthInv, MouthType, SilencedOnlyBySpeech
<1>4. CmdsInv'
  BY DEF IInv, CmdWatchdog, CmdsInv, CmdsType, LockedOnlyWhileWaiting, PageInv, PageType
<1>5. LostInv'
  BY StoppedType, WhisperType, WithoutTimer
  DEF IInv, CmdWatchdog, LostInv, LostType, NoCipherAfterUnlock, PageInv, PageType,
      EarsInv, EarsType
<1> QED
  BY <1>1, <1>2, <1>3, <1>4, <1>5 DEF IInv

LEMMA RetryStep ==
  ASSUME IInv, Retry
  PROVE  IInv'
<1>1. PageInv'
  BY DEF IInv, Retry, PageInv, PageType, Counts, EscapeHatch
<1>2. EarsInv'
  BY DEF IInv, Retry, EarsInv, EarsType
<1>3. MouthInv'
  BY DEF IInv, Retry, MouthInv, MouthType, SilencedOnlyBySpeech
<1>4. CmdsInv'
  BY DEF IInv, Retry, CmdsInv, CmdsType, LockedOnlyWhileWaiting, PageInv, PageType
<1>5. LostInv'
  BY
  DEF IInv, Retry, LostInv, LostType, NoCipherAfterUnlock, PageInv, PageType, EarsInv,
      EarsType
<1> QED
  BY <1>1, <1>2, <1>3, <1>4, <1>5 DEF IInv

-----------------------------------------------------------------------------
(* Speech.                                                                 *)

LEMMA ResolvedStep ==
  ASSUME IInv, NEW s \in Speeches, Resolved(s)
  PROVE  PageInv' /\ EarsInv' /\ CmdsInv' /\ LostInv'
<1>1. PageInv'
  BY DEF IInv, Resolved, PageInv, PageType, Counts, EscapeHatch
<1>2. EarsInv'
  BY StartCommandType DEF IInv, Resolved, EarsInv
<1>4. CmdsInv'
  BY SpeechTypes
  DEF IInv, Resolved, CmdsInv, CmdsType, LockedOnlyWhileWaiting, PageInv, PageType
<1>5. LostInv'
  BY StartCommandType
  DEF IInv, Resolved, LostInv, LostType, NoCipherAfterUnlock, PageInv, PageType, EarsInv
<1> QED
  BY <1>1, <1>2, <1>4, <1>5

LEMMA SpeechFailsStep ==
  ASSUME IInv, NEW s \in Speeches, SpeechFails(s)
  PROVE  IInv'
<1>1. MouthInv'
  BY SpeechTypes DEF IInv, SpeechFails, MouthInv, MouthType, SilencedOnlyBySpeech
<1>2. PageInv' /\ EarsInv' /\ CmdsInv' /\ LostInv'
  BY ResolvedStep DEF SpeechFails
<1> QED
  BY <1>1, <1>2 DEF IInv

LEMMA SpeechAbortsStep ==
  ASSUME IInv, NEW s \in Speeches, SpeechAborts(s)
  PROVE  IInv'
<1>1. MouthInv'
  BY SpeechTypes DEF IInv, SpeechAborts, MouthInv, MouthType, SilencedOnlyBySpeech
<1>2. PageInv' /\ EarsInv' /\ CmdsInv' /\ LostInv'
  <2>1. mouth.playing \in Speeches
    BY DEF IInv, MouthInv, MouthType, SpeechAborts
  <2> QED
    BY <2>1, ResolvedStep DEF SpeechAborts
<1> QED
  BY <1>1, <1>2 DEF IInv

LEMMA SpeechEndsStep ==
  ASSUME IInv, SpeechEnds
  PROVE  IInv'
<1>1. MouthInv'
  BY SpeechTypes DEF IInv, SpeechEnds, MouthInv, MouthType, SilencedOnlyBySpeech
<1>2. PageInv' /\ EarsInv' /\ CmdsInv' /\ LostInv'
  <2>1. mouth.playing \in Speeches
    BY DEF IInv, MouthInv, MouthType, SpeechEnds
  <2> QED
    BY <2>1, ResolvedStep DEF SpeechEnds
<1> QED
  BY <1>1, <1>2 DEF IInv

LEMMA SpeechArrivesStep ==
  ASSUME IInv, NEW s \in Speeches, SpeechArrives(s)
  PROVE  IInv'
<1>1. PageInv'
  BY DEF IInv, SpeechArrives, PageInv, PageType, Counts, EscapeHatch
<1>2. EarsInv'
  BY DEF IInv, SpeechArrives, EarsInv, EarsType
<1>3. MouthInv'
  BY SpeechTypes DEF IInv, SpeechArrives, MouthInv, MouthType, SilencedOnlyBySpeech
<1>4. CmdsInv'
  BY DEF IInv, SpeechArrives, CmdsInv, CmdsType, LockedOnlyWhileWaiting, PageInv, PageType
<1>5. LostInv'
  BY
  DEF IInv, SpeechArrives, LostInv, LostType, NoCipherAfterUnlock, PageInv, PageType,
      EarsInv
<1> QED
  BY <1>1, <1>2, <1>3, <1>4, <1>5 DEF IInv

-----------------------------------------------------------------------------
(* Unlocking.                                                              *)

LEMMA UnlockStep ==
  ASSUME IInv, NEW p \in PageType, NEW e \in EarsType, Unlock(p, e),
         p.claps = page.claps, p.typing = page.typing,
         p.unlocks = page.unlocks, p.due = page.due
  PROVE  IInv'
<1>1. PageInv'
  <2>1. p.unlocks + 1 \in 0 .. MaxUnlocks /\ p.due + 1 \in 0 .. MaxUnlocks
    BY BoundsAssumption DEF IInv, Unlock, PageInv, PageType, Counts
  <2>2. page' \in PageType
    BY <2>1 DEF Unlock, PageType
  <2>3. Counts' /\ EscapeHatch'
    BY BoundsAssumption DEF IInv, Unlock, PageInv, PageType, Counts, EscapeHatch
  <2> QED
    BY <2>2, <2>3 DEF PageInv
<1>2. EarsInv' /\ ~ears'.password
  <2>1. [e EXCEPT !.password = FALSE] \in EarsType
    BY WithoutPassword
  <2>2. ~[e EXCEPT !.password = FALSE].password
    BY DEF EarsType
  <2> QED
    BY <2>1, <2>2, StoppedType DEF Unlock, EarsInv
<1>3. MouthInv'
  BY DEF IInv, Unlock, MouthInv, SilencedOnlyBySpeech
<1>4. CmdsInv'
  BY DEF IInv, Unlock, CmdsInv, LockedOnlyWhileWaiting, PageType
<1>5. LostInv'
  BY <1>2 DEF IInv, Unlock, LostInv, NoCipherAfterUnlock
<1> QED
  BY <1>1, <1>2, <1>3, <1>4, <1>5 DEF IInv

LEMMA PinTakenStep ==
  ASSUME IInv, PinTaken
  PROVE  IInv'
<1>1. [page EXCEPT !.asking = FALSE] \in PageType
  BY DEF IInv, PageInv, PageType
<1>2. /\ [page EXCEPT !.asking = FALSE].claps = page.claps
      /\ [page EXCEPT !.asking = FALSE].typing = page.typing
      /\ [page EXCEPT !.asking = FALSE].unlocks = page.unlocks
      /\ [page EXCEPT !.asking = FALSE].due = page.due
  BY DEF IInv, PageInv, PageType
<1> QED
  BY <1>1, <1>2, UnlockStep DEF IInv, EarsInv, PinTaken

LEMMA PwHearsCipherStep ==
  ASSUME IInv, PwHearsCipher
  PROVE  IInv'
BY UnlockPassphraseType, UnlockStep DEF IInv, PageInv, EarsInv, PwHearsCipher

LEMMA TranscribedCipherStep ==
  ASSUME IInv, TranscribedCipher
  PROVE  IInv'
<1>1. [ears EXCEPT !.sent = @ - 1] \in EarsType
  BY Heard DEF IInv, EarsInv, TranscribedCipher
<1> QED
  BY <1>1, UnlockPassphraseType, UnlockStep DEF IInv, PageInv, TranscribedCipher

-----------------------------------------------------------------------------
(* Recognisers that end, and the watchdogs of the one for the cipher.      *)

LEMMA EndsStep ==
  ASSUME IInv, NEW k \in Kinds, Ends(k)
  PROVE  IInv'
<1>1. PICK e \in {[ears EXCEPT !.status = IF ears.kind = k THEN "off" ELSE @],
                  [ears EXCEPT !.old = @ \ {k}]} :
        /\ ears' = IF GoesOn(k) /\ e.status = "off" THEN [e EXCEPT !.status = "starting"]
                                                   ELSE e
        /\ UNCHANGED <<page, mouth, cmds, lost>>
  BY DEF Ends
<1>2. e \in EarsType /\ e.password = ears.password
  BY DEF IInv, EarsInv, EarsType
<1>3. ears' \in EarsType /\ ears'.password = ears.password
  BY <1>1, <1>2 DEF EarsType
<1> QED
  BY <1>1, <1>3 DEF IInv, PageInv, Counts, EscapeHatch, EarsInv, MouthInv,
    SilencedOnlyBySpeech, CmdsInv, LockedOnlyWhileWaiting, LostInv, NoCipherAfterUnlock

LEMMA WatchdogStep ==
  ASSUME IInv, NEW t, Watchdog(t)
  PROVE  IInv'
<1> DEFINE e == [ears EXCEPT !.timers = @ \ {t}]
<1>1. e \in EarsType /\ e.password = ears.password
  BY WithoutTimer DEF IInv, EarsInv, EarsType
<1>2. ears' \in EarsType /\ (page.unlocked => (ears'.password = ears.password))
  BY <1>1, SwitchType DEF Watchdog
<1>3. UNCHANGED <<page, mouth, cmds, lost>>
  BY DEF Watchdog
<1> QED
  BY <1>2, <1>3 DEF IInv, PageInv, Counts, EscapeHatch, EarsInv, MouthInv,
    SilencedOnlyBySpeech, CmdsInv, LockedOnlyWhileWaiting, LostInv, NoCipherAfterUnlock

-----------------------------------------------------------------------------
(* Commands.                                                               *)

LEMMA HandleCommandStep ==
  ASSUME IInv, NEW text \in Texts, NEW e \in EarsType, e.password = ears.password,
         HandleCommand(text, e)
  PROVE  IInv'
<1>1. PICK c \in Cmds :
        /\ ears' = Stopped(e)
        /\ UNCHANGED lost
        /\ \/ /\ page' = [page EXCEPT !.state = "speaking"]
              /\ cmds' = [cmds EXCEPT ![c] = "say"]
              /\ mouth' = Speak(mouth, <<"cmd", c>>)
           \/ /\ page' = [page EXCEPT !.state = "processing"]
              /\ cmds' = [cmds EXCEPT ![c] = "router"]
              /\ UNCHANGED mouth
  BY DEF HandleCommand
<1>2. PageInv' /\ page'.unlocked = page.unlocked
  BY <1>1 DEF IInv, PageInv, PageType, Counts, EscapeHatch
<1>3. EarsInv' /\ ears'.password = ears.password
  BY <1>1, StoppedType DEF EarsInv
<1>4. MouthInv'
  BY <1>1, SpeakType, SpeechTypes DEF IInv, MouthInv, SilencedOnlyBySpeech
<1>5. CmdsInv'
  <2>1. cmds' \in CmdsType
    BY <1>1 DEF IInv, CmdsInv, CmdsType, Flying
  <2>3. LockedOnlyWhileWaiting'
    BY <1>1 DEF IInv, CmdsInv, CmdsType, Flying, PageInv, PageType, LockedOnlyWhileWaiting
  <2> QED
    BY <2>1, <2>3 DEF CmdsInv
<1>6. LostInv'
  BY <1>1, <1>2, <1>3 DEF IInv, LostInv, NoCipherAfterUnlock
<1> QED
  BY <1>2, <1>3, <1>4, <1>5, <1>6 DEF IInv

LEMMA CmdHearsStep ==
  ASSUME IInv, CmdHears
  PROVE  IInv'
BY HandleCommandStep DEF IInv, EarsInv, CmdHears

LEMMA TranscribedCommandStep ==
  ASSUME IInv, TranscribedCommand
  PROVE  IInv'
<1>1. [ears EXCEPT !.sent = @ - 1] \in EarsType
  BY Heard DEF IInv, EarsInv, TranscribedCommand
<1>2. [ears EXCEPT !.sent = @ - 1].password = ears.password
  BY DEF IInv, EarsInv, EarsType
<1> QED
  BY <1>1, <1>2, HandleCommandStep DEF TranscribedCommand

LEMMA SendTypedCommandStep ==
  ASSUME IInv, SendTypedCommand
  PROVE  IInv'
BY HandleCommandStep DEF IInv, EarsInv, SendTypedCommand

LEMMA ReplyStep ==
  ASSUME IInv, NEW c \in Cmds, Reply(c)
  PROVE  IInv'
<1>1. PageInv'
  BY DEF IInv, Reply, PageInv, PageType, Counts, EscapeHatch
<1>2. EarsInv'
  BY DEF IInv, Reply, EarsInv, EarsType
<1>3. MouthInv'
  BY SpeakType, SpeechTypes DEF IInv, Reply, MouthInv, SilencedOnlyBySpeech
<1>4. CmdsInv'
  BY DEF IInv, Reply, CmdsInv, CmdsType, LockedOnlyWhileWaiting, PageInv, PageType
<1>5. LostInv'
  BY DEF IInv, Reply, LostInv, LostType, NoCipherAfterUnlock, PageInv, PageType, EarsInv
<1> QED
  BY <1>1, <1>2, <1>3, <1>4, <1>5 DEF IInv

LEMMA PassesStep ==
  ASSUME IInv, NEW c \in Cmds, NEW step \in Flying, Passes(c, step)
  PROVE  IInv'
<1>1. PageInv'
  BY DEF IInv, Passes, PageInv, PageType, Counts, EscapeHatch
<1>2. EarsInv'
  BY DEF IInv, Passes, EarsInv, EarsType
<1>3. MouthInv'
  BY DEF IInv, Passes, MouthInv, MouthType, SilencedOnlyBySpeech
<1>4. CmdsInv'
  BY DEF IInv, Passes, CmdsInv, CmdsType, LockedOnlyWhileWaiting, Flying
<1>5. LostInv'
  BY DEF IInv, Passes, LostInv, LostType, NoCipherAfterUnlock, PageInv, PageType, EarsInv
<1> QED
  BY <1>1, <1>2, <1>3, <1>4, <1>5 DEF IInv

LEMMA ClassicChatFailsStep ==
  ASSUME IInv, NEW c \in Cmds, ClassicChatFails(c)
  PROVE  IInv'
<1>1. PageInv'
  BY DEF IInv, ClassicChatFails, PageInv, PageType, Counts, EscapeHatch
<1>2. EarsInv'
  BY StartCommandType DEF IInv, ClassicChatFails, EarsInv
<1>3. MouthInv'
  BY DEF IInv, ClassicChatFails, MouthInv, MouthType, SilencedOnlyBySpeech
<1>4. CmdsInv'
  BY
  DEF IInv, ClassicChatFails, CmdsInv, CmdsType, LockedOnlyWhileWaiting, PageInv, PageType
<1>5. LostInv'
  BY StartCommandType
  DEF IInv, ClassicChatFails, LostInv, LostType, NoCipherAfterUnlock, PageInv, PageType,
      EarsInv
<1> QED
  BY <1>1, <1>2, <1>3, <1>4, <1>5 DEF IInv

LEMMA AnswersStep ==
  ASSUME IInv, Answers
  PROVE  IInv'
<1>1. ASSUME NEW c \in Cmds, RouterDecides(c)
      PROVE  IInv'
  BY <1>1, PassesStep DEF RouterDecides, Flying
<1>2. ASSUME NEW c \in Cmds, OllamaChat(c)
      PROVE  IInv'
  BY <1>2, ReplyStep, PassesStep DEF OllamaChat, Flying
<1>3. ASSUME NEW c \in Cmds, AgentTask(c)
      PROVE  IInv'
  BY <1>3, ReplyStep, PassesStep DEF AgentTask, Flying
<1>4. ASSUME NEW c \in Cmds, ClassicChat(c)
      PROVE  IInv'
  BY <1>4, ReplyStep, ClassicChatFailsStep DEF ClassicChat
<1> QED
  BY <1>1, <1>2, <1>3, <1>4 DEF Answers

-----------------------------------------------------------------------------
(* The theorems.                                                           *)

LEMMA InitInv == Init => IInv
<1> SUFFICES ASSUME Init PROVE IInv
  OBVIOUS
<1>1. PageInv
  BY BoundsAssumption DEF Init, PageInv, PageType, Counts, EscapeHatch
<1>2. EarsInv
  BY BoundsAssumption DEF Init, EarsInv, EarsType, Kinds
<1>3. MouthInv /\ CmdsInv /\ LostInv
  BY DEF Init, MouthInv, MouthType, SilencedOnlyBySpeech, CmdsInv, CmdsType,
    LockedOnlyWhileWaiting, LostInv, LostType, NoCipherAfterUnlock
<1> QED
  BY <1>1, <1>2, <1>3 DEF IInv

LEMMA NextInv == IInv /\ [Next]_vars => IInv'
<1> SUFFICES ASSUME IInv, [Next]_vars PROVE IInv'
  OBVIOUS
<1>1. CASE Person
  BY <1>1, OnDoubleClapStep, ShowPinFallbackStep, CancelAuthStep, UnlockWithPinStep,
    SpeechBeginsStep, SpeechIsOverStep, SendTypedCommandStep DEF Person
<1>2. CASE Browser
  BY <1>2, PwStartsStep, PwHearsCipherStep, PwHearsOtherStep, PwFailsStep, CmdStartsStep,
    CmdHearsStep, CmdRefusedStep, CmdFailsStep, EndsStep, StartsLateStep
  DEF Browser, Kinds
<1>3. CASE Server
  BY <1>3, PinTakenStep, PinRefusedStep, AnswersStep, TranscribedCipherStep,
    TranscribedOtherStep, TranscribedCommandStep DEF Server
<1>4. CASE TimersFire
  BY <1>4, OnWelcomeTypedStep, GreetStep, CmdWatchdogStep, RetryStep, WatchdogStep
  DEF TimersFire
<1>5. CASE Audio
  BY <1>5, SpeechFailsStep, SpeechArrivesStep, SpeechAbortsStep DEF Audio
<1>6. CASE SpeechEnds
  BY <1>6, SpeechEndsStep
<1>7. CASE UNCHANGED vars
  BY <1>7 DEF vars, IInv, PageInv, Counts, EscapeHatch, EarsInv, MouthInv,
    SilencedOnlyBySpeech, CmdsInv, LockedOnlyWhileWaiting, LostInv, NoCipherAfterUnlock
<1> QED
  BY <1>1, <1>2, <1>3, <1>4, <1>5, <1>6, <1>7 DEF Next

LEMMA Inductive == Spec => []IInv
BY InitInv, NextInv, PTL DEF Spec

\* The state of the page, its ears, its mouth and its commands keep their types.
THEOREM TypeCorrect == Spec => []TypeOK
<1>1. IInv => TypeOK
  BY TypeParts DEF IInv, PageInv, EarsInv, MouthInv, CmdsInv, LostInv
<1> QED
  BY <1>1, Inductive, PTL

\* However many commands overlap and whatever fails, the keyboard is locked only while
\* a command waits for the server.
THEOREM KeyboardFree == Spec => []LockedOnlyWhileWaiting
<1>1. IInv => LockedOnlyWhileWaiting
  BY DEF IInv, CmdsInv
<1> QED
  BY <1>1, Inductive, PTL

\* However speeches overlap and fail, ttsPlaying is set only for one that is to come or
\* plays.
THEOREM SilenceHasSpeech == Spec => []SilencedOnlyBySpeech
<1>1. IInv => SilencedOnlyBySpeech
  BY DEF IInv, MouthInv
<1> QED
  BY <1>1, Inductive, PTL

\* A welcome screen whose text has been typed always shows a way to the PIN, whatever
\* is cancelled and begun again meanwhile.
THEOREM EscapeHatchKept == Spec => []EscapeHatch
<1>1. IInv => EscapeHatch
  BY DEF IInv, PageInv
<1> QED
  BY <1>1, Inductive, PTL

\* No late watchdog and no late transcription makes an unlocked page wait for the
\* cipher.
THEOREM UnlockedStays == Spec => []NoCipherAfterUnlock
<1>1. IInv => NoCipherAfterUnlock
  BY DEF IInv, LostInv
<1> QED
  BY <1>1, Inductive, PTL

-----------------------------------------------------------------------------
(* An unlocked page that does not listen has something to wait for.        *)

\* The ears listen for commands, or are about to.
Tuned(e) == e.whisper \/ (e.kind = "cmd" /\ e.status \in {"starting", "on"})

InTheAir == mouth.asked \cup {mouth.playing}

Busy == \/ page.due > 0
        \/ \E s \in InTheAir : s[1] \in {"greet", "cmd"}
        \/ \E c \in Cmds : cmds[c] \in Flying

AwakeInv == page.unlocked => page.state # "idle"

\* The state says speaking only while a reply is to be spoken.
SpeakInv == (page.state = "speaking" /\ lost = {}) => \E s \in InTheAir : s[1] = "cmd"

TunedInv == (page.unlocked /\ lost = {}) => (Tuned(ears) \/ Busy)

ListenInv == AwakeInv /\ SpeakInv /\ TunedInv

LEMMA StartCommandTunes ==
  ASSUME NEW e \in EarsType, NEW f \in StartCommandListening(e)
  PROVE  Tuned(f)
<1>1. Fresh(e, "cmd") \in EarsType
  BY FreshType DEF Kinds
<1>2. ASSUME NEW g \in EarsType PROVE Tuned(StartWhisperListening(g))
  BY DEF Tuned, StartWhisperListening, EarsType
<1>3. Tuned(Started(Fresh(e, "cmd"), "cmd"))
  BY DEF Tuned, Started, Fresh, EarsType
<1> QED
  BY <1>1, <1>2, <1>3 DEF StartCommandListening

\* A step of the ears alone that keeps them tuned.
LEMMA EarsKeep ==
  ASSUME ListenInv, UNCHANGED <<page, mouth, cmds, lost>>,
         page.unlocked => (Tuned(ears) => Tuned(ears'))
  PROVE  ListenInv'
BY DEF ListenInv, AwakeInv, SpeakInv, TunedInv, Busy, InTheAir

\* On a page that stays locked there is nothing to show but what is spoken.
LEMMA LockedKeep ==
  ASSUME ListenInv, ~page'.unlocked, page'.state = page.state, lost' = lost,
         InTheAir \subseteq InTheAir'
  PROVE  ListenInv'
BY DEF ListenInv, AwakeInv, SpeakInv, TunedInv

LEMMA UnlockListen ==
  ASSUME IInv, NEW p \in PageType, NEW e, Unlock(p, e)
  PROVE  ListenInv'
<1>1. page'.unlocked /\ page'.state = "unlocked" /\ page'.due > 0
  BY DEF Unlock, PageType
<1> QED
  BY <1>1 DEF ListenInv, AwakeInv, SpeakInv, TunedInv, Busy

LEMMA HandleListen ==
  ASSUME IInv, NEW text \in Texts, NEW e, HandleCommand(text, e)
  PROVE  ListenInv'
<1>1. page \in PageType /\ mouth \in MouthType /\ cmds \in CmdsType
  BY DEF IInv, PageInv, MouthInv, CmdsInv
<1>2. PICK c \in Cmds :
        \/ /\ page' = [page EXCEPT !.state = "processing"]
           /\ cmds' = [cmds EXCEPT ![c] = "router"]
        \/ page' = [page EXCEPT !.state = "speaking"] /\ mouth' = Speak(mouth, <<"cmd", c>>)
  BY DEF HandleCommand
<1>3. CASE /\ page' = [page EXCEPT !.state = "processing"]
           /\ cmds' = [cmds EXCEPT ![c] = "router"]
  <2>1. page'.state = "processing" /\ cmds'[c] \in Flying
    BY <1>1, <1>3 DEF PageType, CmdsType, Flying
  <2> QED
    BY <2>1 DEF ListenInv, AwakeInv, SpeakInv, TunedInv, Busy
<1>4. CASE page' = [page EXCEPT !.state = "speaking"] /\ mouth' = Speak(mouth, <<"cmd", c>>)
  <2>1. page'.state = "speaking" /\ <<"cmd", c>> \in InTheAir'
    BY <1>1, <1>4 DEF PageType, MouthType, Speak, InTheAir
  <2> QED
    BY <2>1 DEF ListenInv, AwakeInv, SpeakInv, TunedInv, Busy
<1> QED
  BY <1>2, <1>3, <1>4

\* A promise is resolved: what was in the air still is, but for the speech s.
LEMMA ResolvedListen ==
  ASSUME IInv, ListenInv, NEW s \in Speeches, Resolved(s),
         \A t \in InTheAir : t # s => t \in InTheAir'
  PROVE  ListenInv'
<1>1. page \in PageType /\ ears \in EarsType /\ lost' = lost /\ s[1] \in {"welcome", "greet", "cmd"}
  BY DEF IInv, PageInv, EarsInv, Resolved, Speeches
<1>2. CASE s[1] = "welcome"
  <2>1. UNCHANGED <<page, ears, cmds>>
    BY <1>2 DEF Resolved
  <2>2. \A t \in InTheAir : t[1] \in {"greet", "cmd"} => t \in InTheAir'
    BY <1>2
  <2> QED
    BY <1>1, <2>1, <2>2 DEF ListenInv, AwakeInv, SpeakInv, TunedInv, Busy
<1>3. CASE s[1] = "greet"
  <2>1. page' = page /\ Tuned(ears')
    BY <1>1, <1>3, StartCommandTunes DEF Resolved
  <2>2. \A t \in InTheAir : t[1] = "cmd" => t \in InTheAir'
    BY <1>3
  <2> QED
    BY <1>1, <2>1, <2>2 DEF ListenInv, AwakeInv, SpeakInv, TunedInv
<1>4. CASE s[1] = "cmd"
  <2>1. page'.state = "unlocked" /\ Tuned(ears')
    BY <1>1, <1>4, StartCommandTunes DEF Resolved, PageType
  <2> QED
    BY <2>1 DEF ListenInv, AwakeInv, SpeakInv, TunedInv
<1> QED
  BY <1>1, <1>2, <1>3, <1>4

\* A recogniser for commands that ends is started again, unless a command is under way.
LEMMA EndsListen ==
  ASSUME IInv, ListenInv, NEW k \in Kinds, Ends(k)
  PROVE  ListenInv'
<1>1. PICK e \in {[ears EXCEPT !.status = IF ears.kind = k THEN "off" ELSE @],
                  [ears EXCEPT !.old = @ \ {k}]} :
        /\ ears' = IF GoesOn(k) /\ e.status = "off" THEN [e EXCEPT !.status = "starting"]
                                                   ELSE e
        /\ UNCHANGED <<page, mouth, cmds, lost>>
  BY DEF Ends
<1>2. ears \in EarsType /\ e \in EarsType /\ e.whisper = ears.whisper /\ e.kind = ears.kind
  BY DEF IInv, EarsInv, EarsType
<1>3. ASSUME page.unlocked, lost = {}, Tuned(ears), ~Busy
      PROVE  Tuned(ears')
  <2>1. page.state \notin {"processing", "speaking"}
    BY <1>3 DEF IInv, CmdsInv, LockedOnlyWhileWaiting, ListenInv, SpeakInv, Busy
  <2>2. CASE ears.whisper
    BY <1>1, <1>2, <2>2 DEF Tuned, EarsType
  <2>3. CASE ~ears.whisper /\ ears.kind = "cmd" /\ ears.status \in {"starting", "on"}
    <3>1. GoesOn("cmd")
      BY <1>3, <2>1, <2>3 DEF GoesOn
    <3>2. e.status \in {"starting", "on"} \/ (k = "cmd" /\ e.status = "off")
      BY <1>1, <2>3, <1>2 DEF EarsType
    <3> QED
      BY <1>1, <1>2, <2>3, <3>1, <3>2 DEF Tuned, EarsType
  <2> QED
    BY <1>3, <2>2, <2>3 DEF Tuned
<1> QED
  BY <1>1, <1>3 DEF ListenInv, AwakeInv, SpeakInv, TunedInv, Busy, InTheAir

LEMMA PersonListen ==
  ASSUME IInv, ListenInv, Person
  PROVE  ListenInv'
<1>0. page \in PageType /\ ears \in EarsType /\ mouth \in MouthType
  BY DEF IInv, PageInv, EarsInv, MouthInv
<1>1. CASE OnDoubleClap
  <2>1. ~page'.unlocked /\ page'.state = page.state /\ InTheAir \subseteq InTheAir'
    BY <1>0, <1>1 DEF OnDoubleClap, Speak, PageType, MouthType, InTheAir
  <2> QED
    BY <1>1, <2>1, LockedKeep DEF OnDoubleClap
<1>2. CASE ShowPinFallback \/ CancelAuth \/ UnlockWithPin
  <2>1. ~page'.unlocked /\ page'.state = page.state /\ InTheAir \subseteq InTheAir'
    BY <1>0, <1>2 DEF ShowPinFallback, CancelAuth, UnlockWithPin, PageType, InTheAir
  <2> QED
    BY <1>2, <2>1, LockedKeep DEF ShowPinFallback, CancelAuth, UnlockWithPin
<1>3. CASE SpeechBegins \/ SpeechIsOver
  BY <1>0, <1>3, EarsKeep DEF SpeechBegins, SpeechIsOver, Tuned, EarsType
<1>4. CASE SendTypedCommand
  BY <1>4, HandleListen DEF SendTypedCommand
<1> QED
  BY <1>1, <1>2, <1>3, <1>4 DEF Person

LEMMA BrowserListen ==
  ASSUME IInv, ListenInv, Browser
  PROVE  ListenInv'
<1>0. page \in PageType /\ ears \in EarsType
  BY DEF IInv, PageInv, EarsInv
<1>1. CASE PwStarts \/ PwHearsOther \/ CmdStarts
  BY <1>0, <1>1, EarsKeep DEF PwStarts, PwHearsOther, CmdStarts, Tuned, EarsType
<1>2. CASE StartsLate("pw") \/ StartsLate("cmd")
  BY <1>0, <1>2, EarsKeep DEF StartsLate, Tuned, EarsType
<1>3. CASE PwHearsCipher
  BY <1>0, <1>3, UnlockListen DEF PwHearsCipher
<1>4. CASE PwFails
  BY <1>4 DEF PwFails, ListenInv, AwakeInv, SpeakInv, TunedInv, InTheAir
<1>5. CASE CmdHears
  BY <1>5, HandleListen DEF CmdHears
<1>6. CASE CmdRefused
  BY <1>6 DEF CmdRefused, ListenInv, AwakeInv, SpeakInv, TunedInv
<1>7. CASE CmdFails
  BY <1>0, <1>7, EarsKeep, StoppedType
  DEF CmdFails, StartWhisperListening, Tuned, EarsType
<1>8. CASE Ends("pw") \/ Ends("cmd")
  BY <1>8, EndsListen DEF Kinds
<1> QED
  BY <1>1, <1>2, <1>3, <1>4, <1>5, <1>6, <1>7, <1>8 DEF Browser

LEMMA AnswersListen ==
  ASSUME IInv, ListenInv, Answers
  PROVE  ListenInv'
<1>0. page \in PageType /\ ears \in EarsType /\ mouth \in MouthType /\ cmds \in CmdsType
  BY DEF IInv, PageInv, EarsInv, MouthInv, CmdsInv
<1>1. ASSUME NEW c \in Cmds, NEW step \in Flying, Passes(c, step)
      PROVE  ListenInv'
  BY <1>0, <1>1 DEF Passes, CmdsType, ListenInv, AwakeInv, SpeakInv, TunedInv, Busy, InTheAir
<1>2. ASSUME NEW c \in Cmds, Reply(c)
      PROVE  ListenInv'
  <2>1. page'.state = "speaking" /\ <<"cmd", c>> \in InTheAir'
    BY <1>0, <1>2 DEF Reply, Speak, PageType, MouthType, InTheAir
  <2> QED
    BY <2>1 DEF ListenInv, AwakeInv, SpeakInv, TunedInv, Busy
<1>3. ASSUME NEW c \in Cmds, ClassicChatFails(c)
      PROVE  ListenInv'
  <2>1. page'.state = "unlocked" /\ Tuned(ears')
    BY <1>0, <1>3, StartCommandTunes DEF ClassicChatFails, PageType
  <2> QED
    BY <2>1 DEF ListenInv, AwakeInv, SpeakInv, TunedInv
<1>4. PICK c \in Cmds : RouterDecides(c) \/ OllamaChat(c) \/ AgentTask(c) \/ ClassicChat(c)
  BY DEF Answers
<1> QED
  BY <1>1, <1>2, <1>3, <1>4
  DEF RouterDecides, OllamaChat, AgentTask, ClassicChat, Flying

LEMMA ServerListen ==
  ASSUME IInv, ListenInv, Server
  PROVE  ListenInv'
<1>0. page \in PageType /\ ears \in EarsType
  BY DEF IInv, PageInv, EarsInv
<1>1. CASE PinTaken
  <2>1. [page EXCEPT !.asking = FALSE] \in PageType
    BY <1>0 DEF PageType
  <2> QED
    BY <1>1, <2>1, UnlockListen DEF PinTaken
<1>2. CASE PinRefused
  BY <1>0, <1>2
  DEF PinRefused, PageType, ListenInv, AwakeInv, SpeakInv, TunedInv, Busy, InTheAir
<1>3. CASE Answers
  BY <1>3, AnswersListen
<1>4. CASE TranscribedCipher
  BY <1>0, <1>4, UnlockListen DEF TranscribedCipher
<1>5. CASE TranscribedOther
  <2>1. Tuned(ears) => Tuned(ears')
    BY <1>0, <1>5 DEF TranscribedOther, Tuned, EarsType
  <2> QED
    BY <1>5, <2>1, EarsKeep DEF TranscribedOther
<1>6. CASE TranscribedCommand
  BY <1>6, HandleListen DEF TranscribedCommand
<1> QED
  BY <1>1, <1>2, <1>3, <1>4, <1>5, <1>6 DEF Server

LEMMA TimersListen ==
  ASSUME IInv, ListenInv, TimersFire
  PROVE  ListenInv'
<1>0. page \in PageType /\ ears \in EarsType /\ mouth \in MouthType
  BY DEF IInv, PageInv, EarsInv, MouthInv
<1>1. CASE OnWelcomeTyped
  <2>1. /\ page'.unlocked = page.unlocked /\ page'.state = page.state /\ mouth' = mouth
        /\ lost \subseteq lost' /\ (page.unlocked => lost' # {})
    BY <1>0, <1>1 DEF OnWelcomeTyped, PageType
  <2> QED
    BY <2>1 DEF ListenInv, AwakeInv, SpeakInv, TunedInv, InTheAir
<1>2. CASE Greet
  <2>1. page'.unlocked = page.unlocked /\ page'.state = page.state /\ lost' = lost
    BY <1>0, <1>2 DEF Greet, PageType
  <2>2. InTheAir \subseteq InTheAir'
    BY <1>0, <1>2 DEF Greet, Speak, MouthType, InTheAir
  <2>3. \E s \in InTheAir' : s[1] = "greet"
    <3>1. <<"greet", page.unlocks - page.due + 1>> \in InTheAir'
      BY <1>0, <1>2 DEF Greet, Speak, MouthType, InTheAir
    <3> QED
      BY <3>1
  <2> QED
    BY <2>1, <2>2, <2>3 DEF ListenInv, AwakeInv, SpeakInv, TunedInv, Busy
<1>3. CASE CmdWatchdog
  <2>1. Tuned(ears) => Tuned(ears')
    <3>1. [ears EXCEPT !.timers = @ \ {"cmd"}] \in EarsType
      BY <1>0, WithoutTimer
    <3>2. Tuned(ears) => Tuned([ears EXCEPT !.timers = @ \ {"cmd"}])
      BY <1>0 DEF Tuned, EarsType
    <3>3. Tuned(StartWhisperListening(Stopped([ears EXCEPT !.timers = @ \ {"cmd"}])))
      BY <3>1, StoppedType DEF Tuned, StartWhisperListening, EarsType
    <3> QED
      BY <1>3, <3>2, <3>3 DEF CmdWatchdog
  <2> QED
    BY <1>3, <2>1, EarsKeep DEF CmdWatchdog
<1>4. CASE Retry
  BY <1>0, <1>4, EarsKeep DEF Retry, Tuned, EarsType
<1>5. CASE Watchdog("pw") \/ Watchdog("quiet")
  BY <1>0, <1>5, EarsKeep DEF Watchdog, Tuned, EarsType
<1> QED
  BY <1>1, <1>2, <1>3, <1>4, <1>5 DEF TimersFire

LEMMA AudioListen ==
  ASSUME IInv, ListenInv, Audio \/ SpeechEnds
  PROVE  ListenInv'
<1>0. mouth \in MouthType
  BY DEF IInv, MouthInv
<1>1. ASSUME NEW s \in Speeches, SpeechFails(s)
      PROVE  ListenInv'
  <2>1. \A t \in InTheAir : t # s => t \in InTheAir'
    BY <1>0, <1>1 DEF SpeechFails, InTheAir, MouthType
  <2> QED
    BY <1>1, <2>1, ResolvedListen DEF SpeechFails
<1>2. ASSUME NEW s \in Speeches, SpeechArrives(s)
      PROVE  ListenInv'
  <2>1. /\ UNCHANGED <<page, ears, cmds>> /\ lost \subseteq lost'
        /\ (mouth.playing[1] \in {"greet", "cmd"} => lost' # {})
    BY <1>2 DEF SpeechArrives
  <2>2. \A t \in InTheAir : t # mouth.playing => t \in InTheAir'
    BY <1>0, <1>2 DEF SpeechArrives, InTheAir, MouthType
  <2>3. lost' = {} => \A t \in InTheAir : t[1] \in {"greet", "cmd"} => t \in InTheAir'
    BY <2>1, <2>2
  <2> QED
    BY <2>1, <2>3 DEF ListenInv, AwakeInv, SpeakInv, TunedInv, Busy
<1>3. ASSUME NEW s \in Speeches, SpeechAborts(s)
      PROVE  ListenInv'
  <2>1. \A t \in InTheAir : t # mouth.playing => t \in InTheAir'
    BY <1>0, <1>3 DEF SpeechAborts, InTheAir, MouthType
  <2>2. mouth.playing \in Speeches
    BY <1>0, <1>3 DEF SpeechAborts, MouthType
  <2> QED
    BY <1>3, <2>1, <2>2, ResolvedListen DEF SpeechAborts
<1>4. CASE SpeechEnds
  <2>1. \A t \in InTheAir : t # mouth.playing => t \in InTheAir'
    BY <1>0, <1>4 DEF SpeechEnds, InTheAir, MouthType
  <2>2. mouth.playing \in Speeches
    BY <1>0, <1>4 DEF SpeechEnds, MouthType
  <2> QED
    BY <1>4, <2>1, <2>2, ResolvedListen DEF SpeechEnds
<1> QED
  BY <1>1, <1>2, <1>3, <1>4 DEF Audio

\* An unlocked page that does not listen, and has lost nothing, waits for a greeting, a
\* reply, an answer of the server or the start of a recogniser: however the callbacks
\* of any number of commands, speeches and recognisers are ordered.
THEOREM DeafMeanwhile == Spec => []DeafOnlyMeanwhile
<1>1. Init => ListenInv
  BY DEF Init, ListenInv, AwakeInv, SpeakInv, TunedInv
<1>2. IInv /\ ListenInv /\ [Next]_vars => ListenInv'
  <2> SUFFICES ASSUME IInv, ListenInv, [Next]_vars PROVE ListenInv'
    OBVIOUS
  <2>1. CASE Next
    BY <2>1, PersonListen, BrowserListen, ServerListen, TimersListen, AudioListen DEF Next
  <2>2. CASE UNCHANGED vars
    BY <2>2, EarsKeep DEF vars
  <2> QED
    BY <2>1, <2>2
<1>3. IInv /\ ListenInv => DeafOnlyMeanwhile
  BY DEF IInv, LostInv, NoCipherAfterUnlock, ListenInv, TunedInv, Tuned, Busy, InTheAir,
    DeafOnlyMeanwhile, Listens, UnderWay
<1> QED
  BY <1>1, <1>2, <1>3, Inductive, PTL DEF Spec

-----------------------------------------------------------------------------
(* How a page that is still locked can come to handle a command: the run   *)
(* page_locked shows that it does.                                         *)

\* Nothing a command could come from, or come of.
Quiet ==
  /\ ears.kind = "pw" /\ "cmd" \notin ears.old /\ ears.sent = 0
  /\ \A c \in Cmds : cmds[c] = "none"
  /\ \A s \in InTheAir : s[1] \in {"welcome", "nobody"}

LockedInv == ~page.unlocked => /\ page.unlocks = 0 /\ page.due = 0
                               /\ ears.whisper \/ Quiet

\* What a step may do to a locked page.
LockedMove ==
  \/ page'.unlocked
  \/ /\ ~page.unlocked /\ page'.unlocks = page.unlocks /\ page'.due = page.due
     /\ (ears.whisper \/ Quiet) => (ears'.whisper \/ Quiet')

\* A step of the ears alone.
LEMMA EarsLocked ==
  ASSUME UNCHANGED <<page, mouth, cmds>>, page.unlocked \/ ~page.unlocked,
         (ears.whisper \/ Quiet) =>
           \/ ears'.whisper
           \/ ears'.kind = "pw" /\ "cmd" \notin ears'.old /\ ears'.sent = 0 /\ Quiet
  PROVE  LockedMove
BY DEF LockedMove, Quiet, InTheAir

LEMMA UnlockLocked ==
  ASSUME NEW p \in PageType, NEW e, Unlock(p, e)
  PROVE  LockedMove
BY DEF Unlock, PageType, LockedMove

LEMMA HandleLocked ==
  ASSUME IInv, NEW text \in Texts, NEW e \in EarsType, e.whisper = ears.whisper,
         HandleCommand(text, e), ears.whisper \/ page.unlocked
  PROVE  LockedMove
<1>1. /\ page'.unlocked = page.unlocked /\ page'.unlocks = page.unlocks
      /\ page'.due = page.due
  BY DEF HandleCommand, IInv, PageInv, PageType
<1>2. ears'.whisper = e.whisper
  BY DEF HandleCommand, Stopped, EarsType
<1> QED
  BY <1>1, <1>2 DEF LockedMove

LEMMA ResolvedLocked ==
  ASSUME IInv, LockedInv, NEW s \in Speeches, Resolved(s), s \in InTheAir,
         InTheAir' \subseteq InTheAir \cup {Nobody}
  PROVE  LockedMove
<1>1. page \in PageType /\ ears \in EarsType /\ s[1] \in {"welcome", "greet", "cmd"}
      /\ Nobody[1] = "nobody"
  BY DEF IInv, PageInv, EarsInv, Speeches, Nobody
<1>2. CASE s[1] = "welcome"
  <2>1. UNCHANGED <<page, ears, cmds>>
    BY <1>2 DEF Resolved
  <2>2. Quiet => Quiet'
    BY <1>1, <2>1 DEF Quiet
  <2> QED
    BY <2>1, <2>2 DEF LockedMove
<1>3. CASE s[1] # "welcome" /\ ~page.unlocked
  <2>1. ~Quiet
    BY <1>1, <1>3 DEF Quiet
  <2>2. ears.whisper
    BY <1>3, <2>1 DEF LockedInv
  <2>3. ears'.whisper
    BY <1>1, <1>3, <2>2 DEF Resolved, StartCommandListening, StartWhisperListening, EarsType
  <2>4. page'.unlocks = page.unlocks /\ page'.due = page.due
    BY <1>1 DEF Resolved, PageType
  <2> QED
    BY <1>3, <2>3, <2>4 DEF LockedMove
<1>4. CASE page.unlocked
  BY <1>1, <1>4 DEF Resolved, PageType, LockedMove
<1> QED
  BY <1>2, <1>3, <1>4

LEMMA PersonLocked ==
  ASSUME IInv, LockedInv, Person
  PROVE  LockedMove
<1>0. page \in PageType /\ ears \in EarsType /\ mouth \in MouthType
  BY DEF IInv, PageInv, EarsInv, MouthInv
<1>1. CASE OnDoubleClap
  <2>1. /\ ~page.unlocked /\ page'.unlocks = page.unlocks /\ page'.due = page.due
        /\ UNCHANGED <<ears, cmds>>
    BY <1>0, <1>1 DEF OnDoubleClap, PageType
  <2>2. \A s \in InTheAir' : s \in InTheAir \/ s[1] = "welcome"
    BY <1>0, <1>1 DEF OnDoubleClap, Speak, MouthType, InTheAir
  <2> QED
    BY <2>1, <2>2 DEF LockedMove, Quiet
<1>2. CASE ShowPinFallback \/ CancelAuth \/ UnlockWithPin
  <2>1. /\ ~page.unlocked /\ page'.unlocks = page.unlocks /\ page'.due = page.due
        /\ UNCHANGED <<mouth, cmds>>
    BY <1>0, <1>2 DEF ShowPinFallback, CancelAuth, UnlockWithPin, PageType
  <2>2. /\ ears'.whisper = ears.whisper /\ ears'.kind = ears.kind
        /\ ears'.old = ears.old /\ ears'.sent = ears.sent
    BY <1>0, <1>2 DEF ShowPinFallback, CancelAuth, UnlockWithPin, Stopped, EarsType
  <2> QED
    BY <2>1, <2>2 DEF LockedMove, Quiet, InTheAir
<1>3. CASE SpeechBegins \/ SpeechIsOver
  BY <1>0, <1>3, EarsLocked DEF SpeechBegins, SpeechIsOver, EarsType
<1>4. CASE SendTypedCommand
  <2>1. page.unlocked
    BY <1>0, <1>4 DEF SendTypedCommand, LockedInv, PageType
  <2> QED
    BY <1>0, <1>4, <2>1, HandleLocked DEF SendTypedCommand
<1> QED
  BY <1>1, <1>2, <1>3, <1>4 DEF Person

LEMMA BrowserLocked ==
  ASSUME IInv, LockedInv, Browser
  PROVE  LockedMove
<1>0. page \in PageType /\ ears \in EarsType
  BY DEF IInv, PageInv, EarsInv
<1>1. CASE PwStarts \/ PwHearsOther \/ PwFails
  BY <1>0, <1>1, EarsLocked
  DEF PwStarts, PwHearsOther, PwFails, SwitchToWhisperPassword, EarsType, Quiet
<1>2. CASE StartsLate("pw") \/ StartsLate("cmd")
  BY <1>0, <1>2, EarsLocked DEF StartsLate, EarsType, Quiet
<1>3. CASE PwHearsCipher
  BY <1>0, <1>3, UnlockLocked DEF PwHearsCipher
<1>4. CASE CmdHears
  <2>1. ears.whisper \/ page.unlocked
    BY <1>4 DEF CmdHears, Hearing, LockedInv, Quiet
  <2> QED
    BY <1>0, <1>4, <2>1, HandleLocked DEF CmdHears
<1>5. CASE CmdStarts \/ CmdRefused
  BY <1>0, <1>5, EarsLocked DEF CmdStarts, CmdRefused, EarsType, Quiet
<1>6. CASE CmdFails
  BY <1>0, <1>6, EarsLocked, StoppedType DEF CmdFails, StartWhisperListening, EarsType
<1>7. ASSUME NEW k \in Kinds, Ends(k)
      PROVE  LockedMove
  <2>1. PICK e \in {[ears EXCEPT !.status = IF ears.kind = k THEN "off" ELSE @],
                    [ears EXCEPT !.old = @ \ {k}]} :
          ears' = IF GoesOn(k) /\ e.status = "off" THEN [e EXCEPT !.status = "starting"] ELSE e
    BY <1>7 DEF Ends
  <2>2. /\ e \in EarsType /\ e.whisper = ears.whisper /\ e.kind = ears.kind
        /\ e.old \subseteq ears.old /\ e.sent = ears.sent
    BY <1>0 DEF EarsType
  <2>3. /\ ears'.whisper = ears.whisper /\ ears'.kind = ears.kind
        /\ ears'.old \subseteq ears.old /\ ears'.sent = ears.sent
    BY <2>1, <2>2 DEF EarsType
  <2> QED
    BY <1>0, <1>7, <2>3, EarsLocked DEF Ends, Quiet
<1> QED
  BY <1>1, <1>2, <1>3, <1>4, <1>5, <1>6, <1>7 DEF Browser, Kinds

LEMMA ServerLocked ==
  ASSUME IInv, LockedInv, Server
  PROVE  LockedMove
<1>0. page \in PageType /\ ears \in EarsType /\ cmds \in CmdsType
  BY DEF IInv, PageInv, EarsInv, CmdsInv
<1>1. CASE PinTaken
  <2>1. [page EXCEPT !.asking = FALSE] \in PageType
    BY <1>0 DEF PageType
  <2> QED
    BY <1>1, <2>1, UnlockLocked DEF PinTaken
<1>2. CASE PinRefused
  <2>1. /\ page'.unlocked = page.unlocked /\ page'.unlocks = page.unlocks
        /\ page'.due = page.due /\ UNCHANGED <<ears, mouth, cmds>>
    BY <1>0, <1>2 DEF PinRefused, PageType
  <2> QED
    BY <2>1 DEF LockedMove, Quiet, InTheAir
<1>3. CASE Answers
  <2>1. PICK c \in Cmds : RouterDecides(c) \/ OllamaChat(c) \/ AgentTask(c) \/ ClassicChat(c)
    BY <1>3 DEF Answers
  <2>2. cmds[c] # "none"
    BY <2>1 DEF RouterDecides, OllamaChat, AgentTask, ClassicChat, ClassicChatFails
  <2>3. ~page.unlocked => ears.whisper
    BY <2>2 DEF LockedInv, Quiet
  <2>4. /\ page'.unlocked = page.unlocked /\ page'.unlocks = page.unlocks
        /\ page'.due = page.due
    BY <1>0, <2>1 DEF RouterDecides, OllamaChat, AgentTask, ClassicChat, ClassicChatFails,
      Reply, Passes, PageType
  <2>5. ears.whisper => ears'.whisper
    BY <1>0, <2>1 DEF RouterDecides, OllamaChat, AgentTask, ClassicChat, ClassicChatFails,
      Reply, Passes, StartCommandListening, StartWhisperListening, EarsType
  <2> QED
    BY <2>3, <2>4, <2>5 DEF LockedMove
<1>4. CASE TranscribedCipher
  BY <1>0, <1>4, UnlockLocked DEF TranscribedCipher
<1>5. CASE TranscribedOther
  BY <1>0, <1>5, EarsLocked DEF TranscribedOther, EarsType, Quiet
<1>6. CASE TranscribedCommand
  <2>1. ears.whisper \/ page.unlocked
    BY <1>0, <1>6 DEF TranscribedCommand, LockedInv, Quiet
  <2>2. [ears EXCEPT !.sent = @ - 1] \in EarsType
        /\ [ears EXCEPT !.sent = @ - 1].whisper = ears.whisper
    BY <1>0, <1>6, Heard DEF TranscribedCommand, EarsType
  <2> QED
    BY <1>6, <2>1, <2>2, HandleLocked DEF TranscribedCommand
<1> QED
  BY <1>1, <1>2, <1>3, <1>4, <1>5, <1>6 DEF Server

LEMMA TimersLocked ==
  ASSUME IInv, LockedInv, TimersFire
  PROVE  LockedMove
<1>0. page \in PageType /\ ears \in EarsType
  BY DEF IInv, PageInv, EarsInv
<1>1. CASE OnWelcomeTyped
  <2>1. /\ page'.unlocked = page.unlocked /\ page'.unlocks = page.unlocks
        /\ page'.due = page.due /\ UNCHANGED <<mouth, cmds>>
    BY <1>0, <1>1 DEF OnWelcomeTyped, PageType
  <2>2. \/ ears'.whisper
        \/ /\ ears'.kind = "pw" /\ ears'.old \subseteq ears.old \cup {ears.kind}
           /\ ears'.sent = ears.sent
    BY <1>0, <1>1 DEF OnWelcomeTyped, StartPasswordListening, SwitchToWhisperPassword,
      Started, Fresh, EarsType
  <2>3. ears.whisper => ears'.whisper
    BY <1>0, <1>1 DEF OnWelcomeTyped, StartPasswordListening, SwitchToWhisperPassword,
      Started, Fresh, EarsType
  <2> QED
    BY <2>1, <2>2, <2>3 DEF LockedMove, Quiet, InTheAir
<1>2. CASE Greet
  <2>1. page.unlocked
    BY <1>0, <1>2 DEF Greet, LockedInv, PageType
  <2> QED
    BY <1>0, <1>2, <2>1 DEF Greet, LockedMove, PageType
<1>3. CASE CmdWatchdog
  BY <1>0, <1>3, EarsLocked, WithoutTimer, StoppedType
  DEF CmdWatchdog, StartWhisperListening, EarsType, Quiet
<1>4. CASE Retry
  BY <1>0, <1>4, EarsLocked DEF Retry, EarsType, Quiet
<1>5. CASE Watchdog("pw") \/ Watchdog("quiet")
  BY <1>0, <1>5, EarsLocked DEF Watchdog, SwitchToWhisperPassword, EarsType, Quiet
<1> QED
  BY <1>1, <1>2, <1>3, <1>4, <1>5 DEF TimersFire

LEMMA AudioLocked ==
  ASSUME IInv, LockedInv, Audio \/ SpeechEnds
  PROVE  LockedMove
<1>0. mouth \in MouthType
  BY DEF IInv, MouthInv
<1>1. ASSUME NEW s \in Speeches, SpeechFails(s)
      PROVE  LockedMove
  <2>1. s \in InTheAir /\ InTheAir' \subseteq InTheAir
    BY <1>0, <1>1 DEF SpeechFails, InTheAir, MouthType
  <2> QED
    BY <1>1, <2>1, ResolvedLocked DEF SpeechFails
<1>2. ASSUME NEW s \in Speeches, SpeechArrives(s)
      PROVE  LockedMove
  <2>1. UNCHANGED <<page, ears, cmds>> /\ InTheAir' \subseteq InTheAir
    BY <1>0, <1>2 DEF SpeechArrives, InTheAir, MouthType
  <2> QED
    BY <2>1 DEF LockedMove, Quiet
<1>3. ASSUME NEW s \in Speeches, SpeechAborts(s)
      PROVE  LockedMove
  <2>1. mouth.playing \in InTheAir /\ InTheAir' \subseteq InTheAir /\ mouth.playing \in Speeches
    BY <1>0, <1>3 DEF SpeechAborts, InTheAir, MouthType
  <2> QED
    BY <1>3, <2>1, ResolvedLocked DEF SpeechAborts
<1>4. CASE SpeechEnds
  <2>1. /\ mouth.playing \in InTheAir /\ InTheAir' \subseteq InTheAir \cup {Nobody}
        /\ mouth.playing \in Speeches
    BY <1>0, <1>4 DEF SpeechEnds, InTheAir, MouthType
  <2> QED
    BY <1>4, <2>1, ResolvedLocked DEF SpeechEnds
<1> QED
  BY <1>1, <1>2, <1>3, <1>4 DEF Audio

\* The code does not keep to main.py:2145, "COMMAND LISTENING (unlocked)", but breaks it
\* in one way only: as long as the page is locked a command is handled only if the page
\* has gone to whisper mode, never through the keyboard, a recogniser for commands or
\* a greeting.  On a browser whose own recogniser works a locked page takes no commands.
THEOREM LockedNeedsWhisper ==
  Spec => [](~page.unlocked /\ (\E c \in Cmds : cmds[c] # "none") => ears.whisper)
<1>1. Init => LockedInv
  BY DEF Init, LockedInv, Quiet, InTheAir, Nobody
<1>2. IInv /\ LockedInv /\ [Next]_vars => LockedInv'
  <2> SUFFICES ASSUME IInv, LockedInv, [Next]_vars PROVE LockedInv'
    OBVIOUS
  <2>1. CASE Next
    <3>1. LockedMove
      BY <2>1, PersonLocked, BrowserLocked, ServerLocked, TimersLocked, AudioLocked DEF Next
    <3> QED
      BY <3>1 DEF LockedMove, LockedInv
  <2>2. CASE UNCHANGED vars
    BY <2>2 DEF vars, LockedInv, Quiet, InTheAir
  <2> QED
    BY <2>1, <2>2
<1>3. LockedInv => (~page.unlocked /\ (\E c \in Cmds : cmds[c] # "none") => ears.whisper)
  BY DEF LockedInv, Quiet
<1> QED
  BY <1>1, <1>2, <1>3, Inductive, PTL DEF Spec
=============================================================================
