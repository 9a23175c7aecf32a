------------------------------ MODULE Sessions ------------------------------
(***************************************************************************)
(* Users, their voiceprints and faces, and the sessions opened with them:  *)
(* src/auth/models.py and src/auth/biometrics.py as /session/bootstrap,    *)
(* /enroll/voice and /enroll/face of src/main.py use them, and the         *)
(* enrolment tool src/scripts/voice_enroll.py, a second process on the     *)
(* same table.                                                             *)
(*                                                                         *)
(* A handler does not await, so the server answers one request at a time;  *)
(* the tool comes in between any two statements of it.  Each statement on  *)
(* the database is a transaction of its own and either happens or raises.  *)
(*                                                                         *)
(* A voiceprint is the set of samples it is the average of; how alike a    *)
(* sample and a voiceprint are is the constant Similarity.                 *)
(***************************************************************************)
EXTENDS Integers, FiniteSets

CONSTANTS Users,         \* whoever a request may name
          Seeded,        \* the demo users, the ones that get a row
          Voices, Faces, Pins, None,
          Similarity,    \* [voice sample, voiceprint]: what the model makes of the two
          Threshold,     \* DEFAULT_THRESHOLD
          SameFace,      \* pairs of faces within the tolerance
          PinOf,         \* the PIN the demo user u is created with
          Requests,      \* requests to the server
          Given,         \* what a request may carry
          Commands,      \* runs of the enrolment tool
          MaxFaults      \* exceptions and stops of either process (a bound)

Voiceprints == (SUBSET Voices) \ {{}}
Row         == [voice : {None} \cup Voiceprints, face : Faces \cup {None}, pin : Pins]
Payload     == [op : {"bootstrap", "voice", "face"}, user : Users, voices : SUBSET Voices,
                face : Faces \cup {None}, pin : Pins \cup {None}]
Labels      == {"idle", "read", "match", "pin", "create", "deny", "encode", "store", "log",
                "except", "done", "dead"}
Answers     == {"none", "voiceprint", "face", "pin", "denied", "enrolled", "refused",
                "not_found", "error"}

ASSUME SeededAssumption == Seeded \subseteq Users
ASSUME SimilarityAssumption == Similarity \in [Voices \X Voiceprints -> Int]
ASSUME ThresholdAssumption == Threshold \in Nat \ {0}
ASSUME FaceAssumption == SameFace \subseteq Faces \X Faces
ASSUME PinAssumption == PinOf \in [Users -> Pins]
ASSUME GivenAssumption == Given \subseteq Payload
ASSUME FaultsAssumption == MaxFaults \in Nat
ASSUME NoneAssumption ==
  None \notin Users \cup Voices \cup Faces \cup Pins \cup Row

VARIABLES
  users,      \* the table: a row for every user there is, else None
  sessions,   \* the table: which request made the session, for whom
  booted,     \* has the server seeded the demo users since it was started?
  pc, given, snap, method, answer,    \* of each request; snap is the row it has read
  tool,       \* of each run of the tool: where it is, its user, its samples, its result
  logged,     \* <<request, decision>> in the audit log
  faults,     \* faults so far
  window,     \* observes the rows of its user there were while a request ran
  stored,     \* observes the last voiceprint and face stored for each user
  hit         \* observes the requests a fault hit

server  == <<pc, given, snap, method, answer>>
vars    == <<users, sessions, booted, server, tool, logged, faults, window, stored, hit>>

Active(r) == pc[r] \notin {"idle", "done", "dead"}

-----------------------------------------------------------------------------
(* biometrics.py.                                                          *)

\* VoiceprintProvider.encode_audio, encode_b64: an embedding, or None when the library
\* is missing, the audio cannot be decoded or the model raises.
EncodeVoice(v) == {v, None}

\* VoiceprintProvider.average_embeddings.
Average(samples) == samples

\* compute_similarity and verify.
VerifyVoice(v, print) == v # None /\ print # None /\ Similarity[v, print] >= Threshold

\* FaceProvider.encode_face and verify.
EncodeFace(f) == {f, None}

VerifyFace(f, face) == f # None /\ face # None /\ <<f, face>> \in SameFace

-----------------------------------------------------------------------------
(* models.py: every operation is one statement under the lock.             *)

\* Writing a row; the observers see it.
Put(u, row) ==
  /\ users' = [users EXCEPT ![u] = row]
  /\ window' = [r \in Requests |-> IF Active(r) /\ given[r].user = u
                                   THEN window[r] \cup {row} ELSE window[r]]

\* update_voiceprint: one column.  A user without a row is not there to be updated.
UpdateVoiceprint(u, print) ==
  /\ Put(u, [users[u] EXCEPT !.voice = print])
  /\ stored' = [stored EXCEPT ![u].voice = print]

\* Mutant of UpdateFaceEncoding: the whole row the request has read is written back.
MutantUpdateFaceEncoding(u, face) ==
  /\ \E r \in Requests : pc[r] = "store" /\ Put(u, [snap[r] EXCEPT !.face = face])
  /\ stored' = [stored EXCEPT ![u].face = face]

UpdateFaceEncoding(u, face) ==
  /\ Put(u, [users[u] EXCEPT !.face = face])
  /\ stored' = [stored EXCEPT ![u].face = face]

\* verify_pin reads the row again.
VerifyPin(u, pin) == users[u] # None /\ users[u].pin = pin

\* lifespan: seed_demo_users creates those that are missing, one after the other.
SeedDemoUser(u) ==
  /\ ~booted /\ users[u] = None
  /\ Put(u, [voice |-> None, face |-> None, pin |-> PinOf[u]])
  /\ UNCHANGED <<sessions, booted, server, tool, logged, faults, stored, hit>>

Booted ==
  /\ ~booted /\ \A u \in Seeded : users[u] # None
  /\ booted' = TRUE
  /\ UNCHANGED <<users, sessions, server, tool, logged, faults, window, stored, hit>>

-----------------------------------------------------------------------------
(* The handlers of main.py.                                                *)

Goto(r, l) == pc' = [pc EXCEPT ![r] = l]

Answer(r, a) == /\ pc' = [pc EXCEPT ![r] = "done"]
                /\ answer' = [answer EXCEPT ![r] = a]

\* audit.log: the entry.
Log(r, decision) == logged' = logged \cup {<<r, decision>>}

\* A request arrives; no other one is between two of its statements.
Receive(r) ==
  /\ booted /\ pc[r] = "idle" /\ \A q \in Requests : ~Active(q)
  /\ \E g \in Given :
       /\ given' = [given EXCEPT ![r] = g]
       /\ window' = [window EXCEPT ![r] = {users[g.user]}]
  /\ Goto(r, "read")
  /\ UNCHANGED <<users, sessions, booted, snap, method, answer, tool, logged, faults, stored, hit>>

\* get_user.
GetUser(r) ==
  /\ pc[r] = "read"
  /\ snap' = [snap EXCEPT ![r] = users[given[r].user]]
  /\ IF users[given[r].user] = None
     THEN Answer(r, "not_found")
     ELSE Goto(r, IF given[r].op = "bootstrap" THEN "match" ELSE "encode") /\ UNCHANGED answer
  /\ UNCHANGED <<users, sessions, booted, given, method, tool, logged, faults, window, stored, hit>>

\* The factor that matches the row that was read: the voice, and if it does not, the face.
Matched(r, v, f) == IF VerifyVoice(v, snap[r].voice) THEN "voiceprint"
                    ELSE IF VerifyFace(f, snap[r].face) THEN "face" ELSE "unknown"

\* bootstrap_session, steps 1 and 2.
MatchBiometrics(r) ==
  /\ pc[r] = "match"
  /\ \E v \in (UNION {EncodeVoice(w) : w \in given[r].voices}) \cup {None},
        f \in EncodeFace(given[r].face) :
       LET m == Matched(r, v, f)
       IN /\ method' = [method EXCEPT ![r] = m]
          /\ Goto(r, IF m # "unknown" THEN "create"
                     ELSE IF given[r].pin # None THEN "pin" ELSE "deny")
  /\ UNCHANGED <<users, sessions, booted, given, snap, answer, tool, logged, faults, window,
                 stored, hit>>

\* Mutant of MatchPin: a user without a matching PIN goes on with what is known of him.
MutantMatchPin(r) ==
  /\ pc[r] = "pin"
  /\ method' = [method EXCEPT ![r] = "pin"]
  /\ Goto(r, "create")
  /\ UNCHANGED <<users, sessions, booted, given, snap, answer, tool, logged, faults, window,
                 stored, hit>>

\* Step 3.
MatchPin(r) ==
  /\ pc[r] = "pin"
  /\ IF VerifyPin(given[r].user, given[r].pin)
     THEN method' = [method EXCEPT ![r] = "pin"] /\ Goto(r, "create")
     ELSE UNCHANGED method /\ Goto(r, "deny")
  /\ UNCHANGED <<users, sessions, booted, given, snap, answer, tool, logged, faults, window,
                 stored, hit>>

\* Mutant of Deny: who was refused is asked for the next factor again.
MutantDeny(r) ==
  /\ pc[r] = "deny"
  /\ Log(r, "deny") /\ Goto(r, "match")
  /\ UNCHANGED <<users, sessions, booted, given, snap, method, answer, tool, faults, window,
                 stored, hit>>

\* Step 4: the refusal is logged and then answered.
Deny(r) ==
  /\ pc[r] = "deny"
  /\ Log(r, "deny") /\ Answer(r, "denied")
  /\ UNCHANGED <<users, sessions, booted, given, snap, method, tool, faults, window, stored, hit>>

CreateSession(r) ==
  /\ pc[r] = "create"
  /\ sessions' = sessions \cup {<<r, given[r].user>>}
  /\ Goto(r, "log")
  /\ UNCHANGED <<users, booted, given, snap, method, answer, tool, logged, faults, window,
                 stored, hit>>

\* Mutant of LogAllowed: only what biometrics opened or stored is logged.
MutantLogAllowed(r) ==
  /\ pc[r] = "log"
  /\ IF method[r] = "pin" THEN UNCHANGED logged ELSE Log(r, "allow")
  /\ Answer(r, IF given[r].op = "bootstrap" THEN method[r] ELSE "enrolled")
  /\ UNCHANGED <<users, sessions, booted, given, snap, method, tool, faults, window, stored, hit>>

\* The last step of all three handlers.
LogAllowed(r) ==
  /\ pc[r] = "log"
  /\ Log(r, "allow")
  /\ Answer(r, IF given[r].op = "bootstrap" THEN method[r] ELSE "enrolled")
  /\ UNCHANGED <<users, sessions, booted, given, snap, method, tool, faults, window, stored, hit>>

\* enroll_voice and enroll_face: one sample that cannot be encoded, or none at all,
\* and the request is refused.
EncodeSamples(r) ==
  /\ pc[r] = "encode"
  /\ \/ /\ IF given[r].op = "voice" THEN given[r].voices # {} ELSE given[r].face # None
        /\ Goto(r, "store") /\ UNCHANGED answer
     \/ Answer(r, "refused")
  /\ UNCHANGED <<users, sessions, booted, given, snap, method, tool, logged, faults, window,
                 stored, hit>>

\* The library is missing: that is logged, and the request refused.
Unavailable(r) ==
  /\ pc[r] = "encode"
  /\ Log(r, "error") /\ Answer(r, "refused")
  /\ UNCHANGED <<users, sessions, booted, given, snap, method, tool, faults, window, stored, hit>>

StoreVoice(r) ==
  /\ pc[r] = "store" /\ given[r].op = "voice"
  /\ UpdateVoiceprint(given[r].user, Average(given[r].voices))
  /\ Goto(r, "log")
  /\ UNCHANGED <<sessions, booted, given, snap, method, answer, tool, logged, faults, hit>>

StoreFace(r) ==
  /\ pc[r] = "store" /\ given[r].op = "face"
  /\ UpdateFaceEncoding(given[r].user, given[r].face)
  /\ Goto(r, "log")
  /\ UNCHANGED <<sessions, booted, given, snap, method, answer, tool, logged, faults, hit>>

\* Mutant of Raises: a handler that fails at its last step says nothing of it.
MutantRaises(r) ==
  /\ faults < MaxFaults
  /\ pc[r] \in {"store", "log"}
  /\ Answer(r, IF given[r].op = "bootstrap" THEN method[r] ELSE "enrolled")
  /\ faults' = faults + 1
  /\ hit' = hit \cup {r}
  /\ UNCHANGED <<users, sessions, booted, given, snap, method, tool, logged, window, stored>>

\* The database or the audit log raises.  bootstrap_session lets it through; the
\* enrolment handlers log it once they are past the row, which may raise again.
Raises(r) ==
  /\ faults < MaxFaults
  /\ pc[r] \in {"read", "pin", "deny", "create", "encode", "store", "log", "except"}
  /\ IF given[r].op # "bootstrap" /\ pc[r] \in {"store", "log"}
     THEN Goto(r, "except") /\ UNCHANGED answer
     ELSE Answer(r, "error")
  /\ faults' = faults + 1
  /\ hit' = hit \cup {r}
  /\ UNCHANGED <<users, sessions, booted, given, snap, method, tool, logged, window, stored>>

Except(r) ==
  /\ pc[r] = "except"
  /\ Log(r, "error") /\ Answer(r, "refused")
  /\ UNCHANGED <<users, sessions, booted, given, snap, method, tool, faults, window, stored, hit>>

\* The server stops and is started again; what it was doing is lost.
Crash ==
  /\ faults < MaxFaults
  /\ booted' = FALSE
  /\ pc' = [r \in Requests |-> IF Active(r) THEN "dead" ELSE pc[r]]
  /\ hit' = hit \cup {r \in Requests : Active(r)}
  /\ faults' = faults + 1
  /\ UNCHANGED <<users, sessions, given, snap, method, answer, tool, logged, window, stored>>

-----------------------------------------------------------------------------
(* The enrolment tool.                                                     *)

\* cmd_enroll, cmd_verify: get_user_by_username.
ToolStart(c) ==
  /\ tool[c].pc = "idle"
  /\ \E u \in Users, s \in Voiceprints, l \in {"enroll", "verify", "identify"} :
       /\ l = "identify" \/ users[u] # None
       /\ tool' = [tool EXCEPT ![c] = [pc |-> l, user |-> u, samples |-> s,
                                       row |-> users[u], result |-> None]]
  /\ UNCHANGED <<users, sessions, booted, server, logged, faults, window, stored, hit>>

\* Mutant of ToolEnroll: it does not look whether any sample is left.
MutantToolEnroll(c) ==
  /\ tool[c].pc = "enroll"
  /\ \E s \in SUBSET tool[c].samples : UpdateVoiceprint(tool[c].user, Average(s))
  /\ tool' = [tool EXCEPT ![c].pc = "done", ![c].result = tool[c].user]
  /\ UNCHANGED <<sessions, booted, server, logged, faults, hit>>

\* cmd_enroll leaves out the samples that cannot be encoded; with none left it fails,
\* as it does when the database raises.
ToolEnroll(c) ==
  /\ tool[c].pc = "enroll"
  /\ \E s \in (SUBSET tool[c].samples) \ {{}} : UpdateVoiceprint(tool[c].user, Average(s))
  /\ tool' = [tool EXCEPT ![c].pc = "done", ![c].result = tool[c].user]
  /\ UNCHANGED <<sessions, booted, server, logged, faults, hit>>

ToolFails(c) ==
  /\ tool[c].pc \in {"enroll", "verify", "identify"}
  /\ tool' = [tool EXCEPT ![c].pc = "done"]
  /\ UNCHANGED <<users, sessions, booted, server, logged, faults, window, stored, hit>>

\* cmd_verify compares with the row it has read.
ToolVerify(c) ==
  /\ tool[c].pc = "verify"
  /\ \E v \in tool[c].samples :
       tool' = [tool EXCEPT ![c].pc = "done",
                 ![c].result = IF VerifyVoice(v, tool[c].row.voice) THEN tool[c].user ELSE None]
  /\ UNCHANGED <<users, sessions, booted, server, logged, faults, window, stored, hit>>

\* cmd_identify: the best of all voiceprints, provided that it is good enough.
Scored == {u \in Users : users[u] # None /\ users[u].voice # None}

Identified(v) ==
  {u \in Scored : /\ Similarity[v, users[u].voice] >= Threshold
                  /\ \A w \in Scored : Similarity[v, users[w].voice]
                                         <= Similarity[v, users[u].voice]}

ToolIdentify(c) ==
  /\ tool[c].pc = "identify"
  /\ \E v \in tool[c].samples :
       \E u \in IF Identified(v) = {} THEN {None} ELSE Identified(v) :
         tool' = [tool EXCEPT ![c].pc = "done", ![c].result = u]
  /\ UNCHANGED <<users, sessions, booted, server, logged, faults, window, stored, hit>>

-----------------------------------------------------------------------------

Init ==
  /\ users = [u \in Users |-> None]
  /\ sessions = {} /\ booted = FALSE /\ logged = {} /\ faults = 0 /\ hit = {}
  /\ pc = [r \in Requests |-> "idle"]
  /\ given = [r \in Requests |-> None]
  /\ snap = [r \in Requests |-> None]
  /\ method = [r \in Requests |-> "unknown"]
  /\ answer = [r \in Requests |-> "none"]
  /\ tool = [c \in Commands |-> [pc |-> "idle", user |-> None, samples |-> {},
                                 row |-> None, result |-> None]]
  /\ window = [r \in Requests |-> {}]
  /\ stored = [u \in Users |-> [voice |-> None, face |-> None]]

Boot == Booted \/ \E u \in Seeded : SeedDemoUser(u)

Handle(r) ==
  \/ GetUser(r) \/ MatchBiometrics(r) \/ MatchPin(r) \/ Deny(r) \/ CreateSession(r)
  \/ LogAllowed(r) \/ EncodeSamples(r) \/ Unavailable(r) \/ StoreVoice(r) \/ StoreFace(r)
  \/ Raises(r) \/ Except(r)

Run(c) == ToolEnroll(c) \/ ToolFails(c) \/ ToolVerify(c) \/ ToolIdentify(c)

Next == \/ Boot \/ Crash
        \/ \E r \in Requests : Receive(r) \/ Handle(r)
        \/ \E c \in Commands : ToolStart(c) \/ Run(c)

Spec == Init /\ [][Next]_vars

\* A handler that has begun goes on, and a server that was stopped is started again.
FairSpec == /\ Spec
            /\ WF_vars(Boot)
            /\ \A r \in Requests : WF_vars(Handle(r))

-----------------------------------------------------------------------------
(* Properties.                                                             *)

TypeOK ==
  /\ users \in [Users -> {None} \cup Row]
  /\ sessions \subseteq Requests \X Users
  /\ booted \in BOOLEAN
  /\ pc \in [Requests -> Labels]
  /\ given \in [Requests -> {None} \cup Given]
  /\ snap \in [Requests -> {None} \cup Row]
  /\ method \in [Requests -> {"unknown", "voiceprint", "face", "pin"}]
  /\ answer \in [Requests -> Answers]
  /\ tool \in [Commands -> [pc : {"idle", "enroll", "verify", "identify", "done"},
                            user : Users \cup {None}, samples : SUBSET Voices,
                            row : {None} \cup Row, result : Users \cup {None}]]
  /\ logged \subseteq Requests \X {"allow", "deny", "error"}
  /\ faults \in 0 .. MaxFaults
  /\ window \in [Requests -> SUBSET ({None} \cup Row)]
  /\ stored \in [Users -> [voice : {None} \cup Voiceprints, face : Faces \cup {None}]]
  /\ hit \subseteq Requests

\* biometrics.py:6, "NEVER fall back to nothing": a session is only ever opened for a
\* user with a voice, a face or a PIN that matched a row of that user which was in the
\* table at some moment since the request came in, whatever the tool stores meanwhile.
Proves(g, row) ==
  \/ \E v \in g.voices : VerifyVoice(v, row.voice)
  \/ VerifyFace(g.face, row.face)
  \/ g.pin = row.pin

SessionsProven ==
  \A s \in sessions : /\ s[2] = given[s[1]].user
                      /\ \E row \in window[s[1]] \ {None} : Proves(given[s[1]], row)

\* A session without its entry in the audit log belongs to a request that is still at
\* it, or that a fault hit.
SessionsAudited ==
  \A s \in sessions : <<s[1], "allow">> \in logged \/ pc[s[1]] = "log" \/ s[1] \in hit

\* What a handler answers is what it has done: a factor is named only for a session
\* that is stored and logged, and "enrolled" said only of an enrolment that is.
AnswersTrue ==
  \A r \in Requests :
    /\ answer[r] \in {"voiceprint", "face", "pin"} =>
         <<r, given[r].user>> \in sessions /\ <<r, "allow">> \in logged
    /\ answer[r] = "enrolled" =>
         <<r, "allow">> \in logged /\ \E row \in window[r] \ {None} :
            IF given[r].op = "voice" THEN row.voice = Average(given[r].voices)
                                     ELSE row.face = given[r].face
    /\ answer[r] = "denied" => \A u \in Users : <<r, u>> \notin sessions

\* An enrolment stands until the next one of the same kind: neither the other kind nor
\* the tool nor a restart, which seeds the users again, takes it back.
EnrolmentsStand ==
  \A u \in Users : users[u] # None =>
    users[u].voice = stored[u].voice /\ users[u].face = stored[u].face

\* Every request is answered or lost with the server, whatever raises.
RequestsEnd == \A r \in Requests : Active(r) ~> ~Active(r)
=============================================================================
