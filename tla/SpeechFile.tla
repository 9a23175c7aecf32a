----------------------------- MODULE SpeechFile -----------------------------
(***************************************************************************)
(* The two speech handlers of src/main.py, /speak and /speak/audio, over   *)
(* src/voice/tts.py.  Both let edge-tts write the audio to the one path    *)
(* <tempdir>/jvis_speech.mp3 and read it back from there; they await while *)
(* the audio arrives, so their requests overlap on the event loop.         *)
(*                                                                         *)
(* The audio of a request is a run of Chunks chunks.  Each request has its *)
(* own file handle with its own offset, as edge-tts opens the path "wb":   *)
(* opening empties the file, and a write past its end leaves a Hole.       *)
(***************************************************************************)
EXTENDS Integers, Sequences

CONSTANTS Requests, Kind,   \* Kind[r]: "speak" or "audio"
          Chunks,           \* chunks of audio of one request
          Hole              \* bytes nobody wrote

VARIABLES file,       \* jvis_speech.mp3; << >> when empty or missing
          pc,
          received,   \* chunks request r has written at its handle's offset
          size,       \* Content-Length that FileResponse announced
          answer,     \* the audio sent back
          why,        \* what raised for this request, or "none"
          shared,     \* has another request touched the file in between?
          logged      \* requests with a "speak" entry in the audit log

vars == <<file, pc, received, size, answer, why, shared, logged>>

Cells  == (Requests \X (1 .. Chunks)) \cup {Hole}
Labels == {"idle", "stream", "path", "send", "done", "failed"}
Errors == {"none", "package", "service", "read", "log"}

ASSUME KindAssumption == Kind \in [Requests -> {"speak", "audio"}]
ASSUME ChunksAssumption == Chunks \in Nat \ {0}
ASSUME HoleAssumption == Hole \notin Requests \X (1 .. Chunks)

Own(r) == [n \in 1 .. Chunks |-> <<r, n>>]

\* Requests that have the file open, or are about to read it.
Active(r) == pc[r] \in {"stream", "path", "send"}

FailsFor(r, w) == /\ pc' = [pc EXCEPT ![r] = "failed"]
                  /\ why' = [why EXCEPT ![r] = w]

Disturb(r) == shared' = [q \in Requests |-> shared[q] \/ (q # r /\ Active(q))]

-----------------------------------------------------------------------------
(* edge-tts: Communicate.save(path).                                       *)

\* Mutant of Opened: the path is opened for updating and keeps its old bytes.
MutantOpened == file

Opened == << >>

\* Mutant of WriteAt: the bytes are still in the handle's buffer at the end.
MutantWriteAt(n, r) == file

\* Chunk n of r written at offset n - 1.
WriteAt(n, r) ==
  [m \in 1 .. (IF Len(file) < n THEN n ELSE Len(file)) |->
     IF m = n THEN <<r, n>> ELSE IF m <= Len(file) THEN file[m] ELSE Hole]

\* edge-tts is not installed, refuses the voice or the rate it is given, or cannot
\* open the path; the handler answers an error and the file is not touched.
Refused(r) == /\ pc[r] = "idle"
              /\ \E w \in {"package", "service"} : FailsFor(r, w)
              /\ UNCHANGED <<file, received, size, answer, shared, logged>>

Save(r) == /\ pc[r] = "idle"
           /\ file' = Opened
           /\ pc' = [pc EXCEPT ![r] = "stream"]
           /\ Disturb(r)
           /\ UNCHANGED <<received, size, answer, why, logged>>

Chunk(r) == /\ pc[r] = "stream"
            /\ received[r] < Chunks
            /\ file' = WriteAt(received[r] + 1, r)
            /\ received' = [received EXCEPT ![r] = @ + 1]
            /\ Disturb(r)
            /\ UNCHANGED <<pc, size, answer, why, logged>>

\* The service fails; _synthesize_async answers False, the handler an error.
SaveRaises(r) ==
  /\ pc[r] = "stream"
  /\ FailsFor(r, "service")
  /\ UNCHANGED <<file, received, size, answer, shared, logged>>

-----------------------------------------------------------------------------
(* The handlers, once save() has returned.                                 *)

\* /speak: the file is not empty, is read at once, and the request is logged; a file
\* that cannot be read is an error, and so is an entry that cannot be written, though
\* the audio is there.
Speak(r) ==
  /\ pc[r] = "stream" /\ received[r] = Chunks /\ Kind[r] = "speak"
  /\ \/ /\ file = << >>
        /\ pc' = [pc EXCEPT ![r] = "failed"]
        /\ UNCHANGED <<answer, why, logged>>
     \/ /\ FailsFor(r, "read")
        /\ UNCHANGED <<answer, logged>>
     \/ /\ file # << >>
        /\ FailsFor(r, "log")
        /\ logged' \in {logged, logged \cup {r}}
        /\ UNCHANGED answer
     \/ /\ file # << >>
        /\ pc' = [pc EXCEPT ![r] = "done"]
        /\ answer' = [answer EXCEPT ![r] = file]
        /\ logged' = logged \cup {r}
        /\ UNCHANGED why
  /\ UNCHANGED <<file, received, size, shared>>

\* Mutant of SpeakAudio: it logs the request as /speak does.
MutantSpeakAudio(r) ==
  /\ pc[r] = "stream" /\ received[r] = Chunks /\ Kind[r] = "audio"
  /\ pc' = [pc EXCEPT ![r] = IF file = << >> THEN "failed" ELSE "path"]
  /\ logged' = logged \cup {r}
  /\ UNCHANGED <<file, received, size, answer, why, shared>>

\* /speak/audio hands the path to a FileResponse ...
SpeakAudio(r) ==
  /\ pc[r] = "stream" /\ received[r] = Chunks /\ Kind[r] = "audio"
  /\ \/ /\ pc' = [pc EXCEPT ![r] = IF file = << >> THEN "failed" ELSE "path"]
        /\ UNCHANGED why
     \/ FailsFor(r, "read")
  /\ UNCHANGED <<file, received, size, answer, shared, logged>>

\* ... which announces the size of the file ...
SendHeaders(r) ==
  /\ pc[r] = "path"
  /\ \/ /\ size' = [size EXCEPT ![r] = Len(file)]
        /\ pc' = [pc EXCEPT ![r] = "send"]
        /\ UNCHANGED why
     \/ /\ FailsFor(r, "read")
        /\ UNCHANGED size
  /\ UNCHANGED <<file, received, answer, shared, logged>>

\* ... and then sends what is in it by then.  The server breaks off a response
\* whose body is not of the announced size; an empty one is sent as it is.
SendBody(r) ==
  /\ pc[r] = "send"
  /\ \/ /\ Len(file) = size[r]
        /\ pc' = [pc EXCEPT ![r] = "done"]
        /\ answer' = [answer EXCEPT ![r] = file]
        /\ UNCHANGED why
     \/ /\ Len(file) # size[r]
        /\ pc' = [pc EXCEPT ![r] = "failed"]
        /\ UNCHANGED <<answer, why>>
     \/ /\ FailsFor(r, "read")
        /\ UNCHANGED answer
  /\ UNCHANGED <<file, received, size, shared, logged>>

-----------------------------------------------------------------------------

\* The file may be left over from an earlier run of the server.
Init == /\ file \in {<< >>, [n \in 1 .. Chunks + 1 |-> Hole]}
        /\ pc = [r \in Requests |-> "idle"]
        /\ received = [r \in Requests |-> 0]
        /\ size = [r \in Requests |-> 0]
        /\ answer = [r \in Requests |-> << >>]
        /\ why = [r \in Requests |-> "none"]
        /\ shared = [r \in Requests |-> FALSE]
        /\ logged = {}

Next == \E r \in Requests :
          \/ Refused(r) \/ Save(r) \/ Chunk(r) \/ SaveRaises(r)
          \/ Speak(r) \/ SpeakAudio(r) \/ SendHeaders(r) \/ SendBody(r)

Spec == Init /\ [][Next]_vars

-----------------------------------------------------------------------------
(* Properties.                                                             *)

TypeOK == /\ file \in Seq(Cells)
          /\ pc \in [Requests -> Labels]
          /\ received \in [Requests -> 0 .. Chunks]
          /\ size \in [Requests -> Nat]
          /\ answer \in [Requests -> Seq(Cells)]
          /\ why \in [Requests -> Errors]
          /\ shared \in [Requests -> BOOLEAN]
          /\ logged \subseteq {r \in Requests : Kind[r] = "speak"}

\* A request no other one touched the file under sends exactly its own audio, all
\* of it, whatever an earlier or a failed request left in the file.
AloneSendsOwn ==
  \A r \in Requests : pc[r] = "done" /\ ~shared[r] => answer[r] = Own(r)

\* A request for which nothing raised (no package, no service, no file, no log) fails
\* only when another one interfered.
FailsWithReason ==
  \A r \in Requests : pc[r] = "failed" /\ why[r] = "none" => shared[r]

-----------------------------------------------------------------------------
(* What the documentation says and the code does not do.                   *)

\* main.py:883: /speak converts (the request's) text to speech and returns the
\* audio.
SpeaksOwnText ==
  \A r \in Requests : pc[r] = "done" => answer[r] = Own(r)
=============================================================================
