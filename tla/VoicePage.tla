------------------------------ MODULE VoicePage ------------------------------
(***************************************************************************)
(* The browser page of src/main.py (VOICE_PAGE): double clap, welcome,     *)
(* cipher or PIN, then commands by voice or keyboard.  JavaScript runs one *)
(* callback at a time; the interleavings are those of its callbacks:       *)
(* timers, speech recognisers, the audio element, answers of the server,   *)
(* and the person.  An action is a callback up to its next await, with all *)
(* the functions it calls.                                                 *)
(*                                                                         *)
(* What is heard is abstracted to what the page tells apart: the cipher or *)
(* something else, and the class of a command.  A recogniser that has been *)
(* replaced in the global `recognition' lives on in old until it ends; at  *)
(* most one of each kind is told apart there.                              *)
(***************************************************************************)
EXTENDS Integers, FiniteSets

CONSTANTS Cmds,         \* commands handled at most, a set 1 .. n
          MaxClaps,     \* welcome sequences at most (a bound)
          MaxUnlocks,   \* calls of unlock() at most (a bound)
          MaxSent       \* transcriptions on their way at once (a bound)

VARIABLES
  page,    \* unlocked, welcomeActive, state; typewriters running; what the welcome
           \* screen shows of the PIN; PIN requests, claps and unlocks; greetings due
  ears,    \* recognition (kind and status), replaced recognisers, pending watchdogs,
           \* whisperMode, passwordMode, inUtterance, transcriptions on their way
  mouth,   \* ttsPlaying, speeches asked of the server, the one that plays
  cmds,    \* handleCommand: where each call is
  lost     \* observes what may have kept the page from listening to commands again

vars == <<page, ears, mouth, cmds, lost>>

ASSUME CmdsAssumption == Cmds \subseteq Nat /\ IsFiniteSet(Cmds)
ASSUME BoundsAssumption == MaxClaps \in Nat /\ MaxUnlocks \in Nat /\ MaxSent \in Nat

Kinds    == {"pw", "cmd"}
Timers   == {"pw", "quiet", "cmd", "retry"}
Flying   == {"router", "ollama", "agent", "chat"}   \* waits for an answer of the server
Texts    == {"call", "special", "order"}
Speeches == ({"welcome"} \X (1 .. MaxClaps)) \cup ({"greet"} \X (1 .. MaxUnlocks))
              \cup ({"cmd"} \X Cmds)
Nobody   == <<"nobody", 0>>

-----------------------------------------------------------------------------
(* Recognisers: functions of the record e of the ears.                     *)

Live(e, k) == k \in e.old \/ (e.kind = k /\ e.status # "off")

\* recognition.stop(): it may still deliver what it has heard before it ends.
Stopped(e) == [e EXCEPT !.status = IF @ = "off" THEN "off" ELSE "stopping"]

\* recognition = new SR().
Fresh(e, k) == [e EXCEPT !.kind = k, !.status = "off",
                         !.old = IF e.status = "off" THEN @ ELSE @ \cup {e.kind}]

\* start() and the watchdog for a recogniser that never really starts.
Started(e, k) == [e EXCEPT !.status = "starting", !.timers = @ \cup {k}]

SwitchToWhisperPassword(e) ==
  [e EXCEPT !.whisper = TRUE, !.password = TRUE, !.inUtterance = FALSE,
            !.timers = @ \ {"pw", "quiet"}]

\* start() throws (or there is no SpeechRecognition at all), or the recogniser starts.
StartPasswordListening(e) ==
  {SwitchToWhisperPassword(Fresh(e, "pw")), Started(Fresh(e, "pw"), "pw")}

StartWhisperListening(e) == [e EXCEPT !.whisper = TRUE, !.inUtterance = FALSE]

StartCommandListening(e) ==
  IF e.whisper
  THEN {StartWhisperListening(e)}
  ELSE {StartWhisperListening(Fresh(e, "cmd")), Started(Fresh(e, "cmd"), "cmd")}

-----------------------------------------------------------------------------
(* Speaking.                                                               *)

Speak(m, s) == [m EXCEPT !.tts = TRUE, !.asked = @ \cup {s}]

\* Mutant of Resolved: after a reply the page goes on with the old recogniser.
MutantResolved(s) ==
  /\ ears' \in IF s[1] = "greet" THEN StartCommandListening(ears) ELSE {ears}
  /\ page' = IF s[1] = "cmd" THEN [page EXCEPT !.state = "unlocked"] ELSE page
  /\ cmds' = IF s[1] = "cmd" THEN [cmds EXCEPT ![s[2]] = "done"] ELSE cmds
  /\ UNCHANGED lost

\* What goes on when the promise of speech s is resolved: after the welcome nothing,
\* after the greeting listening, after a reply the state and then listening.
Resolved(s) ==
  /\ ears' \in IF s[1] = "welcome" THEN {ears} ELSE StartCommandListening(ears)
  /\ page' = IF s[1] = "cmd" THEN [page EXCEPT !.state = "unlocked"] ELSE page
  /\ cmds' = IF s[1] = "cmd" THEN [cmds EXCEPT ![s[2]] = "done"] ELSE cmds
  /\ UNCHANGED lost

\* Mutant of SpeechFails: a failed request leaves ttsPlaying as it is.
MutantSpeechFails(s) ==
  /\ s \in mouth.asked
  /\ mouth' = [mouth EXCEPT !.asked = @ \ {s}]
  /\ Resolved(s)

\* The request for the audio fails.
SpeechFails(s) ==
  /\ s \in mouth.asked
  /\ mouth' = [mouth EXCEPT !.tts = FALSE, !.asked = @ \ {s}]
  /\ Resolved(s)

\* The audio arrives, in any order, and takes the element and its handlers from the
\* speech that plays, whose promise nobody resolves then ...
SpeechArrives(s) ==
  /\ s \in mouth.asked
  /\ mouth' = [mouth EXCEPT !.asked = @ \ {s}, !.playing = s]
  /\ lost' = lost \cup IF mouth.playing[1] \in {"greet", "cmd"} THEN {"cut"} ELSE {}
  /\ UNCHANGED <<page, ears, cmds>>

\* ... unless its play() was still pending, which is then rejected.
SpeechAborts(s) ==
  /\ s \in mouth.asked /\ mouth.playing # Nobody
  /\ mouth' = [mouth EXCEPT !.tts = FALSE, !.asked = @ \ {s}, !.playing = s]
  /\ Resolved(mouth.playing)

\* onended, onerror, or a play() that is not allowed.
SpeechEnds ==
  /\ mouth.playing # Nobody
  /\ mouth' = [mouth EXCEPT !.tts = FALSE, !.playing = Nobody]
  /\ Resolved(mouth.playing)

-----------------------------------------------------------------------------
(* The welcome screen.                                                     *)

\* detectClaps in a frame hears the second clap: onDoubleClap, startWelcome.
OnDoubleClap ==
  /\ ~page.unlocked /\ ~page.welcome
  /\ page.claps < MaxClaps
  /\ page' = [page EXCEPT !.welcome = TRUE, !.claps = @ + 1, !.typing = @ + 1, !.pin = {}]
  /\ mouth' = Speak(mouth, <<"welcome", page.claps + 1>>)
  /\ UNCHANGED <<ears, cmds, lost>>

\* A chain of typeWelcome timers comes to the end of the text; cancelAuth does not
\* stop one, so that it may come to it on a screen that has been left, or twice.
OnWelcomeTyped ==
  /\ page.typing > 0
  /\ page' = [page EXCEPT !.typing = @ - 1, !.pin = @ \cup {"link"}]
  /\ ears' \in StartPasswordListening(ears)
  /\ lost' = lost \cup IF page.unlocked THEN {"typed"} ELSE {}
  /\ UNCHANGED <<mouth, cmds>>

\* Mutant of ShowPinFallback: the panel is left for unlockWithPin to show.
MutantShowPinFallback ==
  /\ "link" \in page.pin /\ ~page.unlocked
  /\ page' = [page EXCEPT !.pin = @ \ {"link"}]
  /\ ears' = Stopped([ears EXCEPT !.password = FALSE])
  /\ UNCHANGED <<mouth, cmds, lost>>

ShowPinFallback ==
  /\ "link" \in page.pin /\ ~page.unlocked
  /\ page' = [page EXCEPT !.pin = {"panel"}]
  /\ ears' = Stopped([ears EXCEPT !.password = FALSE])
  /\ UNCHANGED <<mouth, cmds, lost>>

CancelAuth ==
  /\ page.welcome /\ ~page.unlocked
  /\ page' = [page EXCEPT !.welcome = FALSE, !.pin = {}]
  /\ ears' = Stopped([ears EXCEPT !.password = FALSE])
  /\ UNCHANGED <<mouth, cmds, lost>>

\* unlock(), which nothing keeps from being called again while unlocked.  The greeting
\* follows after 2.2 s.
Unlock(p, e) ==
  /\ p.unlocks < MaxUnlocks
  /\ page' = [p EXCEPT !.unlocked = TRUE, !.welcome = FALSE, !.state = "unlocked",
                       !.unlocks = @ + 1, !.due = @ + 1]
  /\ ears' = Stopped([e EXCEPT !.password = FALSE])
  /\ UNCHANGED <<mouth, cmds, lost>>

UnlockPassphrase(e) == [e EXCEPT !.timers = @ \ {"pw", "quiet"}, !.password = FALSE]

\* Mutant of Greet: an interval in place of a timeout.
MutantGreet ==
  /\ page.unlocks > 0
  /\ page' = [page EXCEPT !.due = @ - 1]
  /\ mouth' = Speak(mouth, <<"greet", page.unlocks - page.due + 1>>)
  /\ UNCHANGED <<ears, cmds, lost>>

Greet ==
  /\ page.due > 0
  /\ page' = [page EXCEPT !.due = @ - 1]
  /\ mouth' = Speak(mouth, <<"greet", page.unlocks - page.due + 1>>)
  /\ UNCHANGED <<ears, cmds, lost>>

\* unlockWithPin sends the PIN (one request at a time here) ...
UnlockWithPin ==
  /\ "panel" \in page.pin /\ ~page.unlocked /\ ~page.asking
  /\ page' = [page EXCEPT !.asking = TRUE]
  /\ UNCHANGED <<ears, mouth, cmds, lost>>

\* ... and unlocks when the server takes it, whatever has become of the screen.
PinTaken == page.asking /\ Unlock([page EXCEPT !.asking = FALSE], ears)

PinRefused ==
  /\ page.asking
  /\ page' = [page EXCEPT !.asking = FALSE]
  /\ UNCHANGED <<ears, mouth, cmds, lost>>

-----------------------------------------------------------------------------
(* Callbacks of the recogniser for the cipher, and the watchdogs over it.  *)

Hearing(k) == k \in ears.old \/ (ears.kind = k /\ ears.status \in {"on", "stopping"})

PwStarts ==
  /\ ears.kind = "pw" /\ ears.status = "starting"
  /\ ears' = [ears EXCEPT !.status = "on", !.timers = (@ \ {"pw"}) \cup {"quiet"}]
  /\ UNCHANGED <<page, mouth, cmds, lost>>

\* A recogniser that was replaced before it started starts after all: its onstart works
\* on the watchdogs of its successor.
StartsLate(k) ==
  /\ k \in ears.old
  /\ ears' = [ears EXCEPT !.timers = IF k = "pw" THEN (@ \ {"pw"}) \cup {"quiet"}
                                                ELSE @ \ {"cmd"}]
  /\ UNCHANGED <<page, mouth, cmds, lost>>

PwHearsCipher == Hearing("pw") /\ Unlock(page, UnlockPassphrase(ears))

PwHearsOther ==
  /\ Hearing("pw")
  /\ ears' = [ears EXCEPT !.timers = @ \cup {"quiet"}]
  /\ UNCHANGED <<page, mouth, cmds, lost>>

\* onerror ('not-allowed' only shows a message), also of a recogniser that unlock() has
\* stopped.
PwFails ==
  /\ Live(ears, "pw")
  /\ ears' = SwitchToWhisperPassword(ears)
  /\ lost' = lost \cup IF page.unlocked THEN {"error"} ELSE {}
  /\ UNCHANGED <<page, mouth, cmds>>

\* Mutant of Watchdog: it does not look whether the page has been unlocked meanwhile.
MutantWatchdog(t) ==
  /\ t \in ears.timers
  /\ LET e == [ears EXCEPT !.timers = @ \ {t}]
     IN ears' = IF ~e.whisper THEN SwitchToWhisperPassword(e) ELSE e
  /\ UNCHANGED <<page, mouth, cmds, lost>>

\* pwWatchdog, and pwNoResultWatchdog when nothing of use has been heard for 12 s.
Watchdog(t) ==
  /\ t \in ears.timers
  /\ LET e == [ears EXCEPT !.timers = @ \ {t}]
     IN ears' = IF page.welcome /\ ~page.unlocked /\ ~e.whisper
                THEN SwitchToWhisperPassword(e) ELSE e
  /\ UNCHANGED <<page, mouth, cmds, lost>>

-----------------------------------------------------------------------------
(* Callbacks of the recogniser for commands, and its watchdog.             *)

CmdStarts ==
  /\ ears.kind = "cmd" /\ ears.status = "starting"
  /\ ears' = [ears EXCEPT !.status = "on", !.timers = @ \ {"cmd"}]
  /\ UNCHANGED <<page, mouth, cmds, lost>>

CmdRefused ==
  /\ Live(ears, "cmd")
  /\ lost' = lost \cup {"refused"}
  /\ UNCHANGED <<page, ears, mouth, cmds>>

CmdFails ==
  /\ Live(ears, "cmd")
  /\ ears' = StartWhisperListening(Stopped(ears))
  /\ UNCHANGED <<page, mouth, cmds, lost>>

CmdWatchdog ==
  /\ "cmd" \in ears.timers
  /\ LET e == [ears EXCEPT !.timers = @ \ {"cmd"}]
     IN ears' = IF page.unlocked /\ ~e.whisper /\ page.state = "unlocked"
                THEN StartWhisperListening(Stopped(e)) ELSE e
  /\ UNCHANGED <<page, mouth, cmds, lost>>

\* Mutant of GoesOn: both kinds go on only on the welcome screen.
MutantGoesOn(k) == ~ears.whisper /\ page.welcome /\ ~page.unlocked

\* What onend of a recogniser of kind k asks before it starts the global one again.
GoesOn(k) ==
  /\ ~ears.whisper
  /\ IF k = "pw" THEN page.welcome /\ ~page.unlocked
                 ELSE page.unlocked /\ page.state \notin {"processing", "speaking"}

\* A recogniser ends: the one in the global, or one that has been replaced.  start()
\* of one that runs already throws, and is caught.
Ends(k) ==
  \E e \in {[ears EXCEPT !.status = IF ears.kind = k THEN "off" ELSE @],
           [ears EXCEPT !.old = @ \ {k}]} :
    /\ e # ears
    /\ ears' = IF GoesOn(k) /\ e.status = "off" THEN [e EXCEPT !.status = "starting"]
                                               ELSE e
    /\ UNCHANGED <<page, mouth, cmds, lost>>

-----------------------------------------------------------------------------
(* Whisper mode: an utterance is recorded, sent to /transcribe and, when   *)
(* the text is there, taken for the cipher or for a command.               *)

\* detectSpeech hears something; when no recorder can be had, what there is of the
\* continuous one is sent 1.5 s later.
SpeechBegins ==
  /\ ears.whisper /\ ~mouth.tts /\ ~ears.inUtterance
  /\ \E sent \in {ears.sent, ears.sent + 1} :
       /\ sent <= MaxSent
       /\ ears' = [ears EXCEPT !.inUtterance = TRUE, !.sent = sent]
  /\ UNCHANGED <<page, mouth, cmds, lost>>

\* 1.4 s of silence.
SpeechIsOver ==
  /\ ears.whisper /\ ~mouth.tts /\ ears.inUtterance
  /\ ears.sent < MaxSent
  /\ ears' = [ears EXCEPT !.inUtterance = FALSE, !.sent = @ + 1]
  /\ UNCHANGED <<page, mouth, cmds, lost>>

\* transcribeUtterance: passwordMode is read when the text is there.
TranscribedCipher ==
  /\ ears.sent > 0 /\ ears.password
  /\ Unlock(page, UnlockPassphrase([ears EXCEPT !.sent = @ - 1]))

\* Nothing was recorded, nothing was said, it was not the cipher, or it failed.
TranscribedOther ==
  /\ ears.sent > 0
  /\ \E again \in {{}, {"retry"}} :
       /\ again # {} => ears.password
       /\ ears' = [ears EXCEPT !.sent = @ - 1, !.timers = @ \cup again]
  /\ UNCHANGED <<page, mouth, cmds, lost>>

\* 2.2 s after words that were not the cipher.
Retry ==
  /\ "retry" \in ears.timers
  /\ ears' = [ears EXCEPT !.timers = @ \ {"retry"},
                          !.inUtterance = @ /\ ~(page.welcome /\ ~page.unlocked)]
  /\ UNCHANGED <<page, mouth, cmds, lost>>

-----------------------------------------------------------------------------
(* Commands.                                                               *)

\* isSpecialCommand ("describe yourself", "red mode", "normal mode", ...): its regular
\* expression ends in a backspace, which is what the \b of the page, a Python string
\* that is not raw, stands for, and no command has one there.  So handleSpecialCommand
\* never runs, and opencodeOnly is never set.
IsSpecialCommand(text) == FALSE

\* handleCommand up to its first await: J-VIS called by name is answered at once, as a
\* special command would be; what is neither goes to the router.
HandleCommand(text, e) ==
  \E c \in Cmds :
    /\ cmds[c] = "none" /\ \A d \in Cmds : d < c => cmds[d] # "none"
    /\ ears' = Stopped(e)
    /\ UNCHANGED lost
    /\ IF text = "call" \/ IsSpecialCommand(text)
       THEN /\ page' = [page EXCEPT !.state = "speaking"]
            /\ cmds' = [cmds EXCEPT ![c] = "say"]
            /\ mouth' = Speak(mouth, <<"cmd", c>>)
       ELSE /\ page' = [page EXCEPT !.state = "processing"]
            /\ cmds' = [cmds EXCEPT ![c] = "router"]
            /\ UNCHANGED mouth

\* A final result of a recogniser, whatever state the page is in.
CmdHears == Hearing("cmd") /\ \E text \in Texts : HandleCommand(text, ears)

TranscribedCommand ==
  /\ ears.sent > 0 /\ ~ears.password
  /\ \E text \in Texts : HandleCommand(text, [ears EXCEPT !.sent = @ - 1])

\* The command bar appears with the first greeting.
SendTypedCommand ==
  /\ page.unlocks > page.due
  /\ page.state # "processing"
  /\ \E text \in Texts : HandleCommand(text, ears)

Reply(c) == /\ page' = [page EXCEPT !.state = "speaking"]
            /\ mouth' = Speak(mouth, <<"cmd", c>>)
            /\ cmds' = [cmds EXCEPT ![c] = "say"]
            /\ UNCHANGED <<ears, lost>>

Passes(c, step) == /\ cmds' = [cmds EXCEPT ![c] = step]
                   /\ UNCHANGED <<page, ears, mouth, lost>>

\* routerDecide names an engine (isQuestion does when it cannot).
RouterDecides(c) ==
  /\ cmds[c] = "router"
  /\ \E engine \in {"ollama", "agent"} : Passes(c, engine)

OllamaChat(c) == cmds[c] = "ollama" /\ (Reply(c) \/ Passes(c, "agent"))

AgentTask(c) == cmds[c] = "agent" /\ (Reply(c) \/ Passes(c, "chat"))

\* Mutant of ClassicChatFails: the state is left for the next command to set.
MutantClassicChatFails(c) ==
  /\ cmds[c] = "chat"
  /\ cmds' = [cmds EXCEPT ![c] = "done"]
  /\ ears' \in StartCommandListening(ears)
  /\ UNCHANGED <<page, mouth, lost>>

ClassicChatFails(c) ==
  /\ cmds[c] = "chat"
  /\ cmds' = [cmds EXCEPT ![c] = "done"]
  /\ page' = [page EXCEPT !.state = "unlocked"]
  /\ ears' \in StartCommandListening(ears)
  /\ UNCHANGED <<mouth, lost>>

ClassicChat(c) == (cmds[c] = "chat" /\ Reply(c)) \/ ClassicChatFails(c)

-----------------------------------------------------------------------------

Init ==
  /\ page = [unlocked |-> FALSE, welcome |-> FALSE, state |-> "idle", typing |-> 0,
             pin |-> {}, asking |-> FALSE, claps |-> 0, unlocks |-> 0, due |-> 0]
  /\ ears = [kind |-> "pw", status |-> "off", old |-> {}, timers |-> {}, whisper |-> FALSE,
             password |-> FALSE, inUtterance |-> FALSE, sent |-> 0]
  /\ mouth = [tts |-> FALSE, asked |-> {}, playing |-> Nobody]
  /\ cmds = [c \in Cmds |-> "none"]
  /\ lost = {}

Answers == \E c \in Cmds : RouterDecides(c) \/ OllamaChat(c) \/ AgentTask(c) \/ ClassicChat(c)

Audio == \E s \in Speeches : SpeechFails(s) \/ SpeechArrives(s) \/ SpeechAborts(s)

TimersFire == \/ OnWelcomeTyped \/ Greet \/ CmdWatchdog \/ Retry
              \/ Watchdog("pw") \/ Watchdog("quiet")

Person == \/ OnDoubleClap \/ ShowPinFallback \/ CancelAuth \/ UnlockWithPin
          \/ SpeechBegins \/ SpeechIsOver \/ SendTypedCommand

Browser == \/ PwStarts \/ PwHearsCipher \/ PwHearsOther \/ PwFails \/ Ends("pw")
           \/ StartsLate("pw") \/ StartsLate("cmd")
           \/ CmdStarts \/ CmdHears \/ CmdRefused \/ CmdFails \/ Ends("cmd")

Server == \/ PinTaken \/ PinRefused \/ Answers
          \/ TranscribedCipher \/ TranscribedOther \/ TranscribedCommand

Next == Person \/ Browser \/ Server \/ TimersFire \/ Audio \/ SpeechEnds

Spec == Init /\ [][Next]_vars

\* Timers fire, the server answers and audio ends; a recogniser that is started again
\* and again starts in the end, or says why not.
FairSpec ==
  /\ Spec
  /\ WF_vars(OnWelcomeTyped) /\ WF_vars(Greet) /\ WF_vars(CmdWatchdog)
  /\ WF_vars(Audio) /\ WF_vars(SpeechEnds) /\ WF_vars(Answers)
  /\ SF_vars(CmdStarts \/ CmdFails \/ CmdRefused)

-----------------------------------------------------------------------------
(* Properties.                                                             *)

TypeOK ==
  /\ page \in [unlocked : BOOLEAN, welcome : BOOLEAN,
               state : {"idle", "unlocked", "processing", "speaking"},
               typing : 0 .. MaxClaps, pin : SUBSET {"link", "panel"}, asking : BOOLEAN,
               claps : 0 .. MaxClaps, unlocks : 0 .. MaxUnlocks, due : 0 .. MaxUnlocks]
  /\ ears \in [kind : Kinds, status : {"off", "starting", "on", "stopping"},
               old : SUBSET Kinds, timers : SUBSET Timers, whisper : BOOLEAN,
               password : BOOLEAN, inUtterance : BOOLEAN, sent : 0 .. MaxSent]
  /\ mouth \in [tts : BOOLEAN, asked : SUBSET Speeches, playing : Speeches \cup {Nobody}]
  /\ cmds \in [Cmds -> Flying \cup {"none", "say", "done"}]
  /\ lost \subseteq {"cut", "typed", "error", "refused"}

\* The keyboard is locked (sendTypedCommand returns while state is 'processing') only
\* while a command is waiting for the server, whatever other commands, greetings and
\* failures have come in between.
LockedOnlyWhileWaiting ==
  page.state = "processing" => \E c \in Cmds : cmds[c] \in Flying

\* ttsPlaying, which keeps whisper mode from listening, is never left set without a
\* speech to come or playing.
SilencedOnlyBySpeech ==
  mouth.tts => mouth.asked # {} \/ mouth.playing # Nobody

\* main.py:1800: "always keep the PIN escape hatch visible".
EscapeHatch ==
  page.welcome /\ page.typing = 0 => page.pin # {}

\* A watchdog or a transcription that is late cannot make an unlocked page wait for
\* the cipher again; only an error of the old recogniser or a typewriter that outlives
\* the welcome can.
NoCipherAfterUnlock ==
  page.unlocked /\ ears.password => lost \cap {"error", "typed"} # {}

\* An unlocked page always comes to listen for commands again, unless the browser
\* refuses the microphone, another speech cuts off the one it waits for, a typewriter
\* outlives the welcome, or an error of the old recogniser comes after it was stopped.
Listens == (ears.whisper /\ ~ears.password) \/ (ears.kind = "cmd" /\ ears.status = "on")

DeafForAReason == page.unlocked ~> Listens \/ lost # {}

\* And at every moment until then something is under way that will make it listen: a
\* greeting that is due, a greeting or a reply that is to be spoken, an order the
\* server has, or a recogniser that starts.
UnderWay ==
  \/ page.due > 0
  \/ \E s \in mouth.asked \cup {mouth.playing} : s[1] \in {"greet", "cmd"}
  \/ \E c \in Cmds : cmds[c] \in Flying
  \/ ears.kind = "cmd" /\ ears.status = "starting"

\* However recognisers end, speeches overlap and commands interrupt each other, an
\* unlocked page that does not listen waits for one of these (every path of
\* handleCommand, classicChat and unlock ends in startCommandListening, and onend at
\* main.py:2184 starts a recogniser that ends of itself again).
DeafOnlyMeanwhile == page.unlocked /\ lost = {} => Listens \/ UnderWay

-----------------------------------------------------------------------------
(* What the comments say and the code does not do.                         *)

\* main.py:2130: cancelAuth returns "still locked"; main.py:2145: "COMMAND LISTENING
\* (unlocked)".
CommandsOnlyUnlocked == (\E c \in Cmds : cmds[c] # "none") => page.unlocked
=============================================================================
