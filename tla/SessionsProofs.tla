--------------------------- MODULE SessionsProofs ---------------------------
(***************************************************************************)
(* Proofs about Sessions for any users, samples, requests, runs of the     *)
(* enrolment tool and faults: what a session, an answer and an enrolment   *)
(* stand for, and that every handler counts down with all it needs at      *)
(* hand.                                                                   *)
(***************************************************************************)
EXTENDS Sessions, TLAPS

\* A handler past the reading of its user's row.
Past == {"match", "pin", "create", "deny", "encode", "store", "log", "except"}

Factors == {"voiceprint", "face", "pin"}

\* What is stored is in the row; a row the tool is about to write to is there.
RowsInv ==
  /\ \A u \in Users : (users[u] = None) => (stored[u] = [voice |-> None, face |-> None])
  /\ EnrolmentsStand
  /\ \A c \in Commands : (tool[c].pc = "enroll") =>
        tool[c].user \in Users /\ users[tool[c].user] # None

\* A request has its payload; its window holds the row of its user as it is now and,
\* once read, the row it has read.
Begun(r) ==
  /\ (pc[r] # "idle") => (given[r] \in Given)
  /\ Active(r) => (users[given[r].user] \in window[r])
  /\ (pc[r] \in Past) => (snap[r] \in window[r] /\ snap[r] # None
                            /\ users[given[r].user] # None)
  /\ (pc[r] \in {"match", "pin", "deny", "create"}) => (given[r].op = "bootstrap")
  /\ (pc[r] \in {"encode", "store", "except"}) => (given[r].op \in {"voice", "face"})
  /\ (pc[r] = "store") => IF given[r].op = "voice" THEN given[r].voices # {}
                                                  ELSE given[r].face # None

Proven(r) == \E row \in window[r] \ {None} : Proves(given[r], row)

Enrolled(r) == \E row \in window[r] \ {None} :
                 IF given[r].op = "voice" THEN row.voice = Average(given[r].voices)
                                          ELSE row.face = given[r].face

\* What a request has achieved by the time it is about to say so.
Achieved(r) ==
  /\ (pc[r] = "create") => (Proven(r) /\ method[r] \in Factors)
  /\ (pc[r] = "log") => (IF given[r].op = "bootstrap"
                          THEN <<r, given[r].user>> \in sessions /\ method[r] \in Factors
                          ELSE Enrolled(r))
  /\ (pc[r] # "done") => (answer[r] = "none")

SessionsInv ==
  /\ SessionsProven
  /\ SessionsAudited
  /\ \A s \in sessions : pc[s[1]] \in {"log", "done", "dead"} /\ given[s[1]].op = "bootstrap"

RequestsInv == \A r \in Requests : Begun(r) /\ Achieved(r)

IInv == TypeOK /\ RowsInv /\ RequestsInv /\ SessionsInv /\ AnswersTrue

-----------------------------------------------------------------------------
(* Rows.                                                                   *)

LEMMA GivenType ==
  ASSUME NEW g \in Given
  PROVE  /\ g.op \in {"bootstrap", "voice", "face"} /\ g.user \in Users
         /\ g.voices \in SUBSET Voices
         /\ g.face \in Faces \cup {None}
         /\ g.pin \in Pins \cup {None}
BY GivenAssumption DEF Payload

LEMMA RowNotNone ==
  ASSUME NEW row \in {None} \cup Row, row # None
  PROVE  row \in Row
OBVIOUS

LEMMA VoiceRow ==
  ASSUME NEW row \in Row, NEW print \in Voiceprints
  PROVE  /\ [row EXCEPT !.voice = print] \in Row
         /\ [row EXCEPT !.voice = print].voice = print
         /\ [row EXCEPT !.voice = print].face = row.face
BY DEF Row

LEMMA FaceRow ==
  ASSUME NEW row \in Row, NEW face \in Faces
  PROVE  /\ [row EXCEPT !.face = face] \in Row
         /\ [row EXCEPT !.face = face].face = face
         /\ [row EXCEPT !.face = face].voice = row.voice
BY DEF Row

\* Writing a row changes that row only, and whoever is at work for its user sees it.
LEMMA PutStep ==
  ASSUME TypeOK, NEW u \in Users, NEW row \in Row, Put(u, row)
  PROVE  /\ users' \in [Users -> {None} \cup Row]
         /\ window' \in [Requests -> SUBSET ({None} \cup Row)]
         /\ users'[u] = row
         /\ \A w \in Users : (w # u) => (users'[w] = users[w])
         /\ \A r \in Requests : window[r] \subseteq window'[r]
         /\ \A r \in Requests : Active(r) /\ (given[r].user = u) => row \in window'[r]
BY DEF Put, TypeOK

StoredType == [Users -> [voice : {None} \cup Voiceprints, face : Faces \cup {None}]]

\* A row was written for u, and what is stored for u is what is in it.
Written(u) ==
  \E row \in Row : /\ Put(u, row)
                   /\ stored' \in StoredType
                   /\ stored'[u].voice = row.voice /\ stored'[u].face = row.face
                   /\ \A w \in Users : (w # u) => (stored'[w] = stored[w])

LEMMA VoiceWritten ==
  ASSUME TypeOK, RowsInv, NEW u \in Users, NEW print \in Voiceprints, users[u] # None,
         UpdateVoiceprint(u, print)
  PROVE  Written(u) /\ \E row \in Row : Put(u, row) /\ (row.voice = print)
<1>1. users[u] \in Row
  BY RowNotNone DEF TypeOK
<1>2. PICK row \in Row : Put(u, row) /\ (row.voice = print) /\ (row.face = users[u].face)
  BY <1>1, VoiceRow DEF UpdateVoiceprint
<1>3. stored' = [stored EXCEPT ![u].voice = print] /\ stored \in StoredType
  BY DEF UpdateVoiceprint, TypeOK, StoredType
<1>4. stored[u].face = users[u].face
  BY DEF RowsInv, EnrolmentsStand
<1>5. stored' \in StoredType /\ stored'[u].voice = print /\ stored'[u].face = stored[u].face
  BY <1>3 DEF StoredType
<1>6. \A w \in Users : (w # u) => (stored'[w] = stored[w])
  BY <1>3 DEF StoredType
<1> QED
  BY <1>2, <1>4, <1>5, <1>6 DEF Written

LEMMA FaceWritten ==
  ASSUME TypeOK, RowsInv, NEW u \in Users, NEW face \in Faces, users[u] # None,
         UpdateFaceEncoding(u, face)
  PROVE  Written(u) /\ \E row \in Row : Put(u, row) /\ (row.face = face)
<1>1. users[u] \in Row
  BY RowNotNone DEF TypeOK
<1>2. PICK row \in Row : Put(u, row) /\ (row.face = face) /\ (row.voice = users[u].voice)
  BY <1>1, FaceRow DEF UpdateFaceEncoding
<1>3. stored' = [stored EXCEPT ![u].face = face] /\ stored \in StoredType
  BY DEF UpdateFaceEncoding, TypeOK, StoredType
<1>4. stored[u].voice = users[u].voice
  BY DEF RowsInv, EnrolmentsStand
<1>5. stored' \in StoredType /\ stored'[u].face = face /\ stored'[u].voice = stored[u].voice
  BY <1>3 DEF StoredType
<1>6. \A w \in Users : (w # u) => (stored'[w] = stored[w])
  BY <1>3 DEF StoredType
<1> QED
  BY <1>2, <1>4, <1>5, <1>6 DEF Written

LEMMA SeedWritten ==
  ASSUME TypeOK, RowsInv, NEW u \in Users, SeedDemoUser(u)
  PROVE  Written(u)
<1> DEFINE row == [voice |-> None, face |-> None, pin |-> PinOf[u]]
<1>1. row \in Row
  BY PinAssumption DEF Row
<1>2. Put(u, row) /\ stored' = stored /\ users[u] = None
  BY DEF SeedDemoUser
<1>3. stored[u] = [voice |-> None, face |-> None]
  BY <1>2 DEF RowsInv
<1>4. stored \in StoredType
  BY DEF TypeOK, StoredType
<1>5. row.voice = None /\ row.face = None
  OBVIOUS
<1> HIDE DEF row
<1> QED
  BY <1>1, <1>2, <1>3, <1>4, <1>5 DEF Written

\* A handler about to store has read a row and has something to store.
LEMMA ToStore ==
  ASSUME RequestsInv, NEW r \in Requests, pc[r] = "store"
  PROVE  /\ given[r].user \in Users /\ users[given[r].user] # None
         /\ (given[r].op = "voice") => given[r].voices \in Voiceprints
         /\ (given[r].op # "voice") => given[r].face \in Faces
<1>1. given[r] \in Given /\ users[given[r].user] # None
  BY DEF RequestsInv, Begun, Past
<1>2. IF given[r].op = "voice" THEN given[r].voices # {} ELSE given[r].face # None
  BY DEF RequestsInv, Begun
<1>3. given[r].user \in Users /\ given[r].voices \in SUBSET Voices
      /\ given[r].face \in Faces \cup {None}
  BY <1>1, GivenType
<1> QED
  BY <1>1, <1>2, <1>3 DEF Voiceprints

LEMMA StoreVoiceWritten ==
  ASSUME IInv, NEW r \in Requests, StoreVoice(r)
  PROVE  /\ given[r].user \in Users /\ Written(given[r].user)
         /\ \E row \in Row : Put(given[r].user, row) /\ row.voice = Average(given[r].voices)
BY ToStore, VoiceWritten DEF StoreVoice, Average, IInv

LEMMA StoreFaceWritten ==
  ASSUME IInv, NEW r \in Requests, StoreFace(r)
  PROVE  /\ given[r].user \in Users /\ Written(given[r].user)
         /\ \E row \in Row : Put(given[r].user, row) /\ row.face = given[r].face
BY ToStore, FaceWritten DEF StoreFace, IInv

LEMMA ToolEnrollWritten ==
  ASSUME IInv, NEW c \in Commands, ToolEnroll(c)
  PROVE  tool[c].user \in Users /\ Written(tool[c].user)
<1>1. TypeOK /\ RowsInv
  BY DEF IInv
<1>2. tool[c].user \in Users /\ users[tool[c].user] # None /\ tool[c].samples \in SUBSET Voices
  BY <1>1 DEF RowsInv, ToolEnroll, TypeOK
<1>3. PICK s \in (SUBSET tool[c].samples) \ {{}} : UpdateVoiceprint(tool[c].user, s)
  BY DEF ToolEnroll, Average
<1>4. s \in Voiceprints
  BY <1>2, <1>3 DEF Voiceprints
<1> QED
  BY <1>1, <1>2, <1>3, <1>4, VoiceWritten

-----------------------------------------------------------------------------
(* Every step writes one row or none.                                      *)

\* A step that leaves the rows alone.
Unwritten == users' = users /\ stored' = stored /\ window' = window

LEMMA RequestRows ==
  ASSUME IInv, NEW r \in Requests, Handle(r)
  PROVE  (Unwritten \/ \E u \in Users : Written(u)) /\ given' = given /\ tool' = tool
<1>1. CASE StoreVoice(r)
  BY <1>1, StoreVoiceWritten DEF StoreVoice
<1>2. CASE StoreFace(r)
  BY <1>2, StoreFaceWritten DEF StoreFace
<1>3. CASE ~StoreVoice(r) /\ ~StoreFace(r)
  BY <1>3 DEF Handle, GetUser, MatchBiometrics, MatchPin, Deny, CreateSession, LogAllowed,
     EncodeSamples, Unavailable, Raises, Except, Unwritten, server
<1> QED
  BY <1>1, <1>2, <1>3

LEMMA BootRows ==
  ASSUME IInv, Boot \/ Crash
  PROVE  (Unwritten \/ \E u \in Users : Written(u)) /\ given' = given /\ tool' = tool
<1>1. CASE \E u \in Seeded : SeedDemoUser(u)
  BY <1>1, SeedWritten, SeededAssumption DEF SeedDemoUser, IInv, server
<1>2. CASE Booted \/ Crash
  BY <1>2 DEF Booted, Crash, Unwritten, server
<1> QED
  BY <1>1, <1>2 DEF Boot

LEMMA ToolRows ==
  ASSUME IInv, NEW c \in Commands, ToolStart(c) \/ Run(c)
  PROVE  (Unwritten \/ \E u \in Users : Written(u)) /\ given' = given
<1>1. CASE ToolEnroll(c)
  BY <1>1, ToolEnrollWritten DEF ToolEnroll, server
<1>2. CASE ToolStart(c) \/ ToolFails(c) \/ ToolVerify(c) \/ ToolIdentify(c)
  BY <1>2 DEF ToolStart, ToolFails, ToolVerify, ToolIdentify, Unwritten, server
<1> QED
  BY <1>1, <1>2 DEF Run

\* What follows for the requests: windows only grow and keep up with the rows, and a row
\* that is there stays.
Kept ==
  /\ \A u \in Users : (users[u] # None) => (users'[u] # None)
  /\ \A r \in Requests : (pc[r] # "idle") =>
        given'[r] = given[r] /\ window[r] \subseteq window'[r]
  /\ \A r \in Requests : (Active(r) /\ given[r].user \in Users
                            /\ users[given[r].user] \in window[r])
        => users'[given[r].user] \in window'[r]

LEMMA WrittenKeeps ==
  ASSUME IInv, NEW u \in Users, Written(u), given' = given
  PROVE  Kept
<1>1. PICK row \in Row : Put(u, row)
  BY DEF Written
<1>2. TypeOK
  BY DEF IInv
<1>3. row # None
  BY NoneAssumption DEF Row
<1> QED
  BY <1>1, <1>2, <1>3, PutStep DEF Kept

LEMMA ReceiveKeeps ==
  ASSUME IInv, NEW r \in Requests, Receive(r)
  PROVE  Kept /\ users' = users /\ stored' = stored /\ tool' = tool
<1>1. users' = users /\ stored' = stored /\ tool' = tool
  BY DEF Receive
<1>2. \A q \in Requests : (pc[q] # "idle") => (given'[q] = given[q] /\ window'[q] = window[q])
  BY DEF Receive, IInv, TypeOK
<1>3. \A q \in Requests : ~Active(q)
  BY DEF Receive
<1> QED
  BY <1>1, <1>2, <1>3 DEF Kept

LEMMA NextKeeps ==
  ASSUME IInv, Next
  PROVE  Kept
<1>1. Unwritten /\ given' = given => Kept
  BY DEF Unwritten, Kept
<1> QED
  BY <1>1, RequestRows, BootRows, ToolRows, WrittenKeeps, ReceiveKeeps DEF Next

LEMMA RowsKept ==
  ASSUME IInv, Unwritten \/ \E u \in Users : Written(u)
  PROVE  /\ \A u \in Users : (users'[u] = None) => (stored'[u] = [voice |-> None, face |-> None])
         /\ EnrolmentsStand'
         /\ users' \in [Users -> {None} \cup Row] /\ stored' \in StoredType
         /\ window' \in [Requests -> SUBSET ({None} \cup Row)]
<1>1. TypeOK /\ RowsInv
  BY DEF IInv
<1>2. CASE Unwritten
  BY <1>1, <1>2 DEF Unwritten, RowsInv, EnrolmentsStand, TypeOK, StoredType
<1>3. CASE \E u \in Users : Written(u)
  <2>1. PICK u \in Users : Written(u)
    BY <1>3
  <2>2. PICK row \in Row : /\ Put(u, row)
                           /\ stored' \in StoredType
                           /\ stored'[u].voice = row.voice /\ stored'[u].face = row.face
                           /\ \A w \in Users : (w # u) => (stored'[w] = stored[w])
    BY <2>1 DEF Written
  <2>3. row # None
    BY NoneAssumption DEF Row
  <2> QED
    BY <1>1, <2>2, <2>3, PutStep DEF RowsInv, EnrolmentsStand
<1> QED
  BY <1>2, <1>3

-----------------------------------------------------------------------------
(* A handler's step changes the control state of its own request.          *)

Stepped(r) ==
  /\ pc' \in [Requests -> Labels]
  /\ method' \in [Requests -> Factors \cup {"unknown"}]
  /\ answer' \in [Requests -> Answers]
  /\ snap' \in [Requests -> {None} \cup Row]
  /\ \A q \in Requests : (q # r) => /\ pc'[q] = pc[q] /\ method'[q] = method[q]
                                    /\ answer'[q] = answer[q] /\ snap'[q] = snap[q]

\* What has been opened, logged and hit stays, and what is new is of r.
Recorded(r) ==
  /\ sessions \subseteq sessions' /\ sessions' \subseteq sessions \cup {<<r, given[r].user>>}
  /\ logged \subseteq logged' /\ logged' \subseteq logged \cup ({r} \X {"allow", "deny", "error"})
  /\ hit \subseteq hit' /\ hit' \subseteq hit \cup {r}
  /\ faults' \in 0 .. MaxFaults /\ booted' \in BOOLEAN

LEMMA GotoStep ==
  ASSUME TypeOK, NEW r \in Requests, NEW l \in Labels, Goto(r, l)
  PROVE  /\ pc' \in [Requests -> Labels]
         /\ pc'[r] = l
         /\ \A q \in Requests : (q # r) => (pc'[q] = pc[q])
BY DEF Goto, TypeOK

LEMMA AnswerStep ==
  ASSUME TypeOK, NEW r \in Requests, NEW a \in Answers, Answer(r, a)
  PROVE  /\ pc' \in [Requests -> Labels]
         /\ pc'[r] = "done"
         /\ answer' \in [Requests -> Answers]
         /\ answer'[r] = a
         /\ \A q \in Requests : (q # r) => (pc'[q] = pc[q]) /\ (answer'[q] = answer[q])
BY DEF Answer, TypeOK, Labels

LEMMA MethodStep ==
  ASSUME TypeOK, NEW r \in Requests, NEW m \in Factors \cup {"unknown"},
         method' = [method EXCEPT ![r] = m]
  PROVE  /\ method' \in [Requests -> Factors \cup {"unknown"}]
         /\ method'[r] = m
         /\ \A q \in Requests : (q # r) => (method'[q] = method[q])
BY DEF Factors, TypeOK

LEMMA Types ==
  ASSUME TypeOK
  PROVE  /\ pc \in [Requests -> Labels]
         /\ method \in [Requests -> Factors \cup {"unknown"}]
         /\ answer \in [Requests -> Answers]
         /\ snap \in [Requests -> {None} \cup Row]
BY DEF Factors, TypeOK

LEMMA RequestSteps ==
  ASSUME IInv, NEW r \in Requests, Handle(r)
  PROVE  Stepped(r)
<1>0. TypeOK
  BY DEF IInv
<1>t. /\ {"match", "pin", "create", "deny", "encode", "store", "log", "except"} \subseteq Labels
      /\ {"voiceprint", "face", "pin", "denied", "enrolled", "refused", "not_found", "error"}
           \subseteq Answers
  BY DEF Labels, Answers
<1>1. CASE GetUser(r)
  <2>1. given[r].user \in Users
    BY <1>1, GivenType DEF IInv, RequestsInv, Begun, GetUser
  <2>2. snap' \in [Requests -> {None} \cup Row]
        /\ \A q \in Requests : (q # r) => (snap'[q] = snap[q])
    BY <1>0, <1>1, <2>1 DEF GetUser, TypeOK
  <2>3. CASE users[given[r].user] = None
    BY <1>0, <1>1, <1>t, <2>2, <2>3, AnswerStep, Types DEF GetUser, Stepped
  <2>4. CASE users[given[r].user] # None
    BY <1>0, <1>1, <1>t, <2>2, <2>4, GotoStep, Types DEF GetUser, Stepped
  <2> QED
    BY <2>3, <2>4
<1>2. CASE MatchBiometrics(r)
  <2>1. PICK m \in Factors \cup {"unknown"} :
          /\ method' = [method EXCEPT ![r] = m]
          /\ Goto(r, IF m # "unknown" THEN "create"
                     ELSE IF given[r].pin # None THEN "pin" ELSE "deny")
    BY <1>2 DEF MatchBiometrics, Matched, Factors
  <2> QED
    BY <1>0, <1>2, <1>t, <2>1, GotoStep, MethodStep, Types DEF MatchBiometrics, Stepped
<1>3. CASE MatchPin(r)
  BY <1>0, <1>3, <1>t, GotoStep, MethodStep, Types DEF MatchPin, Stepped, Factors
<1>4. CASE Deny(r)
  BY <1>0, <1>4, <1>t, AnswerStep, Types DEF Deny, Stepped
<1>5. CASE CreateSession(r)
  BY <1>0, <1>5, <1>t, GotoStep, Types DEF CreateSession, Stepped
<1>6. CASE LogAllowed(r)
  <2>1. (IF given[r].op = "bootstrap" THEN method[r] ELSE "enrolled") \in Answers
    BY <1>6, <1>t DEF IInv, RequestsInv, Achieved, LogAllowed, Factors
  <2> QED
    BY <1>0, <1>6, <2>1, AnswerStep, Types DEF LogAllowed, Stepped
<1>7. CASE EncodeSamples(r)
  BY <1>0, <1>7, <1>t, GotoStep, AnswerStep, Types DEF EncodeSamples, Stepped
<1>8. CASE Unavailable(r) \/ Except(r)
  BY <1>0, <1>8, <1>t, AnswerStep, Types DEF Unavailable, Except, Stepped
<1>9. CASE StoreVoice(r) \/ StoreFace(r)
  BY <1>0, <1>9, <1>t, GotoStep, Types DEF StoreVoice, StoreFace, Stepped
<1>10. CASE Raises(r)
  BY <1>0, <1>10, <1>t, GotoStep, AnswerStep, Types DEF Raises, Stepped
<1> QED
  BY <1>1, <1>2, <1>3, <1>4, <1>5, <1>6, <1>7, <1>8, <1>9, <1>10 DEF Handle

LEMMA RequestRecords ==
  ASSUME IInv, NEW r \in Requests, Handle(r)
  PROVE  Recorded(r)
<1>1. faults \in 0 .. MaxFaults /\ booted \in BOOLEAN
  BY DEF IInv, TypeOK
<1>2. CASE GetUser(r) \/ MatchBiometrics(r) \/ MatchPin(r) \/ EncodeSamples(r)
             \/ StoreVoice(r) \/ StoreFace(r)
  BY <1>1, <1>2
  DEF GetUser, MatchBiometrics, MatchPin, EncodeSamples, StoreVoice, StoreFace,
     Recorded
<1>3. CASE Deny(r) \/ LogAllowed(r) \/ Unavailable(r) \/ Except(r)
  BY <1>1, <1>3 DEF Deny, LogAllowed, Unavailable, Except, Log, Recorded
<1>4. CASE CreateSession(r)
  BY <1>1, <1>4 DEF CreateSession, Recorded
<1>5. CASE Raises(r)
  BY <1>1, <1>5, FaultsAssumption DEF Raises, Recorded
<1> QED
  BY <1>2, <1>3, <1>4, <1>5 DEF Handle

-----------------------------------------------------------------------------
(* The request that a handler's step belongs to.                           *)

LEMMA Working ==
  ASSUME IInv, NEW r \in Requests, Handle(r)
  PROVE  /\ TypeOK /\ Begun(r) /\ Achieved(r)
         /\ Active(r) /\ pc[r] # "idle" /\ given[r] \in Given /\ given[r].user \in Users
         /\ answer[r] = "none"
         /\ given' = given /\ Kept
<1>1. Active(r)
  BY
  DEF Handle, Active, GetUser, MatchBiometrics, MatchPin, Deny, CreateSession, LogAllowed,
     EncodeSamples, Unavailable, StoreVoice, StoreFace, Raises, Except
<1>2. TypeOK /\ Begun(r) /\ Achieved(r)
  BY DEF IInv, RequestsInv
<1>3. pc[r] # "idle" /\ given[r] \in Given /\ answer[r] = "none"
  BY <1>1, <1>2 DEF Active, Begun, Achieved
<1> QED
  BY <1>1, <1>2, <1>3, GivenType, RequestRows, NextKeeps DEF Next

\* Where it goes: on from what it has read, or to its answer.
LEMMA Moves ==
  ASSUME IInv, NEW r \in Requests, Handle(r), pc'[r] \in Past
  PROVE  /\ (snap'[r] # None) /\ (snap'[r] \in window'[r]) /\ (users'[given[r].user] # None)
         /\ (pc'[r] \in {"match", "pin", "deny", "create"}) => (given[r].op = "bootstrap")
         /\ (pc'[r] \in {"encode", "store", "except"}) => (given[r].op \in {"voice", "face"})
         /\ (pc'[r] = "store") => IF given[r].op = "voice" THEN given[r].voices # {}
                                                         ELSE given[r].face # None
<1>0. /\ TypeOK /\ Begun(r) /\ Kept /\ pc[r] # "idle" /\ given[r].user \in Users
      /\ Active(r) /\ given[r].op \in {"bootstrap", "voice", "face"}
  BY Working, GivenType
<1>1. CASE GetUser(r)
  <2>1. users[given[r].user] \in window[r] /\ window[r] \subseteq window'[r]
    BY <1>0 DEF Begun, Kept
  <2>2. users' = users /\ snap'[r] = users[given[r].user]
    BY <1>0, <1>1 DEF GetUser, TypeOK
  <2>3. users[given[r].user] # None /\ pc'[r] = IF given[r].op = "bootstrap" THEN "match" ELSE "encode"
    BY <1>0, <1>1 DEF GetUser, TypeOK, Goto, Answer, Past
  <2> QED
    BY <1>0, <2>1, <2>2, <2>3
<1>2. CASE ~GetUser(r)
  <2>1. snap' = snap
    BY <1>2 DEF Handle, MatchBiometrics, MatchPin, Deny, CreateSession, LogAllowed,
       EncodeSamples, Unavailable, StoreVoice, StoreFace, Raises, Except
  <2>2. pc[r] \in Past
    BY <1>0, <1>2 DEF Handle, MatchBiometrics, MatchPin, Deny, CreateSession, LogAllowed,
       EncodeSamples, Unavailable, StoreVoice, StoreFace, Raises, Except, TypeOK, Answer, Past
  <2>3. /\ snap[r] \in window[r] /\ snap[r] # None /\ users[given[r].user] # None
        /\ window[r] \subseteq window'[r]
    BY <1>0, <2>2 DEF Begun, Kept
  <2>4. snap'[r] # None /\ snap'[r] \in window'[r] /\ users'[given[r].user] # None
    BY <1>0, <2>1, <2>3 DEF Kept
  <2>5. CASE MatchBiometrics(r) \/ MatchPin(r)
    <3>1. given[r].op = "bootstrap" /\ pc'[r] \in {"create", "pin", "deny"}
      BY <1>0, <2>5 DEF MatchBiometrics, MatchPin, Begun, Goto, TypeOK
    <3> QED
      BY <2>4, <3>1
  <2>6. CASE EncodeSamples(r)
    <3>1. /\ given[r].op \in {"voice", "face"}
          /\ pc'[r] = "store"
          /\ IF given[r].op = "voice" THEN given[r].voices # {} ELSE given[r].face # None
      BY <1>0, <2>6 DEF EncodeSamples, Begun, Goto, TypeOK, Answer, Past
    <3> QED
      BY <2>4, <3>1
  <2>7. CASE CreateSession(r) \/ StoreVoice(r) \/ StoreFace(r)
    <3>1. pc'[r] = "log"
      BY <1>0, <2>7 DEF CreateSession, StoreVoice, StoreFace, Goto, TypeOK
    <3> QED
      BY <2>4, <3>1
  <2>8. CASE Raises(r)
    <3>1. given[r].op \in {"voice", "face"} /\ pc'[r] = "except"
      BY <1>0, <2>8 DEF Raises, Goto, Answer, TypeOK, Past
    <3> QED
      BY <2>4, <3>1
  <2>9. CASE Deny(r) \/ LogAllowed(r) \/ Unavailable(r) \/ Except(r)
    BY <1>0, <2>9 DEF Deny, LogAllowed, Unavailable, Except, Answer, TypeOK, Past
  <2> QED
    BY <1>2, <2>5, <2>6, <2>7, <2>8, <2>9 DEF Handle
<1> QED
  BY <1>1, <1>2

LEMMA HandleBegun ==
  ASSUME IInv, NEW r \in Requests, Handle(r)
  PROVE  Begun(r)'
<1>1. /\ Begun(r) /\ Active(r) /\ given[r] \in Given /\ given[r].user \in Users
      /\ given' = given /\ Kept
  BY Working
<1>2. users'[given[r].user] \in window'[r]
  BY <1>1 DEF Begun, Kept
<1>3. \A l \in {"match", "pin", "deny", "create", "encode", "store", "except"} : l \in Past
  BY DEF Past
<1> QED
  BY <1>1, <1>2, <1>3, Moves DEF Begun

\* A proof that a row has given, and an enrolment that is in one, remain.
LEMMA ProofsRemain ==
  ASSUME IInv, Next, NEW r \in Requests, pc[r] # "idle"
  PROVE  (Proven(r) => Proven(r)') /\ (Enrolled(r) => Enrolled(r)')
<1>1. given'[r] = given[r] /\ window[r] \subseteq window'[r]
  BY NextKeeps DEF Kept
<1> QED
  BY <1>1 DEF Proven, Enrolled, Proves, VerifyVoice, VerifyFace, Average

\* What a handler has found out is a proof; what it has stored is in a row.
LEMMA BiometricsProve ==
  ASSUME IInv, NEW r \in Requests, MatchBiometrics(r), pc'[r] = "create"
  PROVE  Proven(r) /\ method'[r] \in Factors
<1>0. TypeOK /\ Begun(r) /\ Handle(r)
  BY DEF IInv, RequestsInv, Handle
<1>1. snap[r] \in window[r] \ {None}
  BY <1>0 DEF Begun, MatchBiometrics, Past
<1>2. PICK v \in (UNION {EncodeVoice(w) : w \in given[r].voices}) \cup {None},
           f \in EncodeFace(given[r].face) :
        /\ method' = [method EXCEPT ![r] = Matched(r, v, f)]
        /\ Goto(r, IF Matched(r, v, f) # "unknown" THEN "create"
                   ELSE IF given[r].pin # None THEN "pin" ELSE "deny")
  BY DEF MatchBiometrics
<1>3. Matched(r, v, f) # "unknown" /\ method'[r] = Matched(r, v, f)
  BY <1>0, <1>2 DEF Goto, TypeOK
<1>4. CASE VerifyVoice(v, snap[r].voice)
  <2>1. v \in given[r].voices
    BY <1>4 DEF EncodeVoice, VerifyVoice
  <2>2. Proves(given[r], snap[r])
    BY <1>4, <2>1 DEF Proves
  <2> QED
    BY <1>1, <1>3, <1>4, <2>2 DEF Proven, Matched, Factors
<1>5. CASE ~VerifyVoice(v, snap[r].voice) /\ VerifyFace(f, snap[r].face)
  <2>1. f = given[r].face
    BY <1>5 DEF EncodeFace, VerifyFace
  <2>2. Proves(given[r], snap[r])
    BY <1>5, <2>1 DEF Proves
  <2> QED
    BY <1>1, <1>3, <1>5, <2>2 DEF Proven, Matched, Factors
<1> QED
  BY <1>3, <1>4, <1>5 DEF Matched

LEMMA PinProves ==
  ASSUME IInv, NEW r \in Requests, MatchPin(r), pc'[r] = "create"
  PROVE  Proven(r) /\ method'[r] \in Factors
<1>0. TypeOK /\ Begun(r)
  BY DEF IInv, RequestsInv
<1>1. users[given[r].user] \in window[r]
  BY <1>0 DEF Begun, MatchPin, Active
<1>2. VerifyPin(given[r].user, given[r].pin) /\ method'[r] = "pin"
  BY <1>0 DEF MatchPin, Goto, TypeOK
<1> QED
  BY <1>1, <1>2 DEF VerifyPin, Proven, Proves, Factors

LEMMA StoreEnrols ==
  ASSUME IInv, NEW r \in Requests, StoreVoice(r) \/ StoreFace(r)
  PROVE  Enrolled(r)'
<1>0. TypeOK /\ Active(r) /\ given' = given
  BY Working DEF Handle
<1>1. \A row \in Row : row # None
  BY NoneAssumption
<1>2. CASE StoreVoice(r)
  <2>1. PICK row \in Row : Put(given[r].user, row) /\ row.voice = Average(given[r].voices)
    BY <1>2, StoreVoiceWritten
  <2>2. row \in window'[r] \ {None}
    BY <1>0, <1>1, <1>2, <2>1, PutStep, StoreVoiceWritten
  <2> QED
    BY <1>0, <1>2, <2>1, <2>2 DEF Enrolled, StoreVoice, Average
<1>3. CASE StoreFace(r)
  <2>1. PICK row \in Row : Put(given[r].user, row) /\ row.face = given[r].face
    BY <1>3, StoreFaceWritten
  <2>2. row \in window'[r] \ {None}
    BY <1>0, <1>1, <1>3, <2>1, PutStep, StoreFaceWritten
  <2>3. given[r].op = "face"
    BY <1>3 DEF StoreFace
  <2> QED
    BY <1>0, <2>1, <2>2, <2>3 DEF Enrolled
<1> QED
  BY <1>2, <1>3

LEMMA HandleAchieved ==
  ASSUME IInv, NEW r \in Requests, Handle(r)
  PROVE  Achieved(r)'
<1>0. /\ TypeOK /\ Begun(r) /\ Achieved(r) /\ given' = given /\ answer[r] = "none"
      /\ given[r].op \in {"bootstrap", "voice", "face"} /\ given[r].user \in Users
      /\ pc[r] # "idle" /\ Next
  BY Working, GivenType DEF Next
<1>1. CASE MatchBiometrics(r) \/ MatchPin(r)
  <2>1. pc'[r] \in {"create", "pin", "deny"} /\ answer' = answer
    BY <1>0, <1>1 DEF MatchBiometrics, MatchPin, Goto, TypeOK
  <2>2. (pc'[r] = "create") => (Proven(r)' /\ method'[r] \in Factors)
    BY <1>0, <1>1, BiometricsProve, PinProves, ProofsRemain
  <2> QED
    BY <1>0, <2>1, <2>2 DEF Achieved
<1>2. CASE CreateSession(r)
  <2>1. /\ pc'[r] = "log" /\ answer' = answer /\ method' = method
        /\ <<r, given[r].user>> \in sessions'
    BY <1>0, <1>2 DEF CreateSession, Goto, TypeOK
  <2>2. given[r].op = "bootstrap" /\ method[r] \in Factors
    BY <1>0, <1>2 DEF CreateSession, Begun, Achieved
  <2> QED
    BY <1>0, <2>1, <2>2 DEF Achieved
<1>3. CASE StoreVoice(r) \/ StoreFace(r)
  <2>1. pc'[r] = "log" /\ answer' = answer /\ given[r].op # "bootstrap"
    BY <1>0, <1>3 DEF StoreVoice, StoreFace, Goto, TypeOK
  <2> QED
    BY <1>0, <1>3, <2>1, StoreEnrols DEF Achieved
<1>4. CASE Deny(r) \/ LogAllowed(r) \/ Unavailable(r) \/ Except(r)
  <2>1. pc'[r] = "done"
    BY <1>0, <1>4 DEF Deny, LogAllowed, Unavailable, Except, Answer, TypeOK
  <2> QED
    BY <2>1 DEF Achieved
<1>5. CASE GetUser(r) \/ EncodeSamples(r) \/ Raises(r)
  <2>1. /\ pc'[r] \in {"done", "match", "encode", "store", "except"}
        /\ pc'[r] = "done" \/ answer' = answer
    BY <1>0, <1>5 DEF GetUser, EncodeSamples, Raises, Answer, Goto, TypeOK
  <2> QED
    BY <1>0, <2>1 DEF Achieved
<1> QED
  BY <1>1, <1>2, <1>3, <1>4, <1>5 DEF Handle

-----------------------------------------------------------------------------
(* The requests that a step leaves alone.                                  *)

Untouched(q) ==
  pc'[q] = pc[q] /\ method'[q] = method[q] /\ answer'[q] = answer[q] /\ snap'[q] = snap[q]

LEMMA UntouchedKeeps ==
  ASSUME IInv, Next, NEW q \in Requests, Untouched(q), sessions \subseteq sessions'
  PROVE  Begun(q)' /\ Achieved(q)'
<1>0. Begun(q) /\ Achieved(q)
  BY DEF IInv, RequestsInv
<1>1. CASE pc[q] = "idle"
  BY <1>0, <1>1 DEF Begun, Achieved, Untouched, Active, Past
<1>2. CASE pc[q] # "idle"
  <2>1. /\ given[q] \in Given /\ given[q].user \in Users
        /\ given'[q] = given[q] /\ window[q] \subseteq window'[q]
    BY <1>0, <1>2, GivenType, NextKeeps DEF Begun, Kept
  <2>2. Active(q) => (users'[given[q].user] \in window'[q])
    BY <1>0, <2>1, NextKeeps DEF Begun, Kept
  <2>3. (users[given[q].user] # None) => (users'[given[q].user] # None)
    BY <2>1, NextKeeps DEF Kept
  <2>4. Begun(q)'
    BY <1>0, <2>1, <2>2, <2>3 DEF Begun, Untouched, Active
  <2>5. (Proven(q) => Proven(q)') /\ (Enrolled(q) => Enrolled(q)')
    BY <1>2, ProofsRemain
  <2>6. Achieved(q)'
    BY <1>0, <2>1, <2>5 DEF Achieved, Untouched
  <2> QED
    BY <2>4, <2>6
<1> QED
  BY <1>1, <1>2

\* What is true of a request's answer and sessions, by request.
Answered(r) ==
  /\ (answer[r] \in Factors) => (<<r, given[r].user>> \in sessions /\ <<r, "allow">> \in logged)
  /\ (answer[r] = "enrolled") => (<<r, "allow">> \in logged /\ Enrolled(r))
  /\ (answer[r] = "denied") => \A u \in Users : <<r, u>> \notin sessions

LEMMA AnswersByRequest ==
  AnswersTrue <=> \A r \in Requests : Answered(r)
BY DEF AnswersTrue, Answered, Factors, Enrolled

LEMMA AnswersByRequestPrime ==
  AnswersTrue' <=> \A r \in Requests : Answered(r)'
BY DEF AnswersTrue, Answered, Factors, Enrolled

LEMMA UntouchedAnswered ==
  ASSUME IInv, Next, NEW q \in Requests, Untouched(q), sessions \subseteq sessions',
         logged \subseteq logged', \A u \in Users : <<q, u>> \in sessions' => <<q, u>> \in sessions
  PROVE  Answered(q)'
<1>0. Achieved(q) /\ Answered(q)
  BY AnswersByRequest DEF IInv, RequestsInv
<1>1. CASE pc[q] = "idle"
  <2>1. answer'[q] = "none"
    BY <1>0, <1>1 DEF Achieved, Untouched
  <2> QED
    BY <2>1 DEF Answered, Factors
<1>2. CASE pc[q] # "idle"
  <2>1. (Enrolled(q) => Enrolled(q)') /\ given'[q] = given[q]
    BY <1>2, ProofsRemain, NextKeeps DEF Kept
  <2>2. answer'[q] = answer[q]
    BY DEF Untouched
  <2>3. (answer'[q] \in Factors) => (<<q, given'[q].user>> \in sessions' /\ <<q, "allow">> \in logged')
    BY <1>0, <2>1, <2>2 DEF Answered
  <2>4. (answer'[q] = "enrolled") => (<<q, "allow">> \in logged' /\ Enrolled(q)')
    BY <1>0, <2>1, <2>2 DEF Answered
  <2>5. (answer'[q] = "denied") => \A u \in Users : <<q, u>> \notin sessions'
    BY <1>0, <2>2 DEF Answered
  <2> QED
    BY <2>3, <2>4, <2>5 DEF Answered
<1> QED
  BY <1>1, <1>2

LEMMA HandleAnswered ==
  ASSUME IInv, NEW r \in Requests, Handle(r)
  PROVE  Answered(r)'
<1>0. /\ TypeOK /\ Achieved(r) /\ Achieved(r)' /\ given' = given /\ answer[r] = "none"
      /\ given[r].user \in Users /\ pc[r] # "idle" /\ Next
  BY Working, HandleAchieved DEF Next
<1>1. CASE Deny(r)
  <2>1. answer'[r] = "denied" /\ sessions' = sessions /\ pc[r] = "deny"
    BY <1>0, <1>1 DEF Deny, Answer, TypeOK
  <2>2. \A u \in Users : <<r, u>> \notin sessions
    BY <2>1 DEF IInv, SessionsInv
  <2> QED
    BY <2>1, <2>2 DEF Answered, Factors
<1>2. CASE LogAllowed(r)
  <2>1. /\ answer'[r] = IF given[r].op = "bootstrap" THEN method[r] ELSE "enrolled"
        /\ sessions' = sessions /\ <<r, "allow">> \in logged' /\ pc[r] = "log"
    BY <1>0, <1>2 DEF LogAllowed, Answer, Log, TypeOK
  <2>2. CASE given[r].op = "bootstrap"
    <3>1. <<r, given[r].user>> \in sessions' /\ answer'[r] \in Factors
      BY <1>0, <2>1, <2>2 DEF Achieved
    <3> QED
      BY <1>0, <2>1, <3>1 DEF Answered, Factors
  <2>3. CASE given[r].op # "bootstrap"
    <3>1. Enrolled(r)'
      BY <1>0, <2>1, <2>3, ProofsRemain DEF Achieved
    <3> QED
      BY <2>1, <2>3, <3>1 DEF Answered, Factors
  <2> QED
    BY <2>2, <2>3
<1>3. CASE ~Deny(r) /\ ~LogAllowed(r)
  <2>1. answer'[r] \in {"none", "not_found", "refused", "error"}
    BY <1>0, <1>3
    DEF Handle, GetUser, MatchBiometrics, MatchPin, CreateSession, EncodeSamples,
       Unavailable, StoreVoice, StoreFace, Raises, Except, Answer, TypeOK
  <2> QED
    BY <2>1 DEF Answered, Factors
<1> QED
  BY <1>1, <1>2, <1>3

-----------------------------------------------------------------------------
(* The inductive step, by kind of step.                                    *)

\* A session that was opened stays, with its proof and its user.
LEMMA OpenRemains ==
  ASSUME IInv, Next, NEW s \in sessions
  PROVE  /\ s[1] \in Requests /\ given'[s[1]] = given[s[1]]
         /\ pc[s[1]] \in {"log", "done", "dead"}
         /\ given[s[1]].op = "bootstrap"
         /\ s[2] = given'[s[1]].user /\ Proven(s[1])'
<1>1. s[1] \in Requests
  BY DEF IInv, TypeOK
<1>2. s[2] = given[s[1]].user /\ Proven(s[1])
  BY DEF IInv, SessionsInv, SessionsProven, Proven
<1>3. pc[s[1]] \in {"log", "done", "dead"} /\ given[s[1]].op = "bootstrap"
  BY DEF IInv, SessionsInv
<1>4. Proven(s[1])' /\ given'[s[1]] = given[s[1]]
  BY <1>1, <1>2, <1>3, ProofsRemain, NextKeeps DEF Kept
<1> QED
  BY <1>1, <1>2, <1>3, <1>4

LEMMA HandleSessions ==
  ASSUME IInv, NEW r \in Requests, Handle(r)
  PROVE  SessionsInv'
<1>0. /\ TypeOK /\ given' = given /\ given[r].user \in Users /\ Next /\ pc[r] # "idle"
      /\ Achieved(r) /\ Begun(r)
  BY Working DEF Next
<1>r. Stepped(r) /\ Recorded(r)
  BY RequestSteps, RequestRecords
<1>n. ASSUME NEW s \in sessions', s \notin sessions
      PROVE  /\ s[1] = r /\ s[2] = given[r].user /\ pc'[r] = "log"
             /\ given[r].op = "bootstrap" /\ Proven(r)'
  <2>1. s = <<r, given[r].user>>
    BY <1>r, <1>n DEF Recorded
  <2>2. CreateSession(r)
    BY <1>n DEF Handle, GetUser, MatchBiometrics, MatchPin, Deny, LogAllowed, EncodeSamples,
       Unavailable, StoreVoice, StoreFace, Raises, Except
  <2>3. pc[r] = "create" /\ pc'[r] = "log"
    BY <1>0, <2>2 DEF CreateSession, Goto, TypeOK
  <2>4. given[r].op = "bootstrap" /\ Proven(r)'
    BY <1>0, <2>3, ProofsRemain DEF Begun, Achieved
  <2> QED
    BY <2>1, <2>3, <2>4
<1>1. SessionsProven'
  <2>1. ASSUME NEW s \in sessions' PROVE s[2] = given'[s[1]].user /\ Proven(s[1])'
    BY <1>0, <1>n, OpenRemains
  <2> QED
    BY <2>1 DEF SessionsProven, Proven
<1>2. ASSUME NEW s \in sessions, s[1] = r, pc[r] = "log"
      PROVE  (<<r, "allow">> \in logged' \/ r \in hit') /\ pc'[r] = "done"
  <2>1. given[r].op = "bootstrap"
    BY <1>0, <1>2, OpenRemains
  <2>2. CASE LogAllowed(r)
    BY <1>0, <2>2 DEF LogAllowed, Log, Answer, TypeOK
  <2>3. CASE Raises(r)
    BY <1>0, <2>1, <2>3 DEF Raises, Answer, TypeOK
  <2> QED
    BY <1>2, <2>2, <2>3 DEF Handle, GetUser, MatchBiometrics, MatchPin, Deny, CreateSession,
       EncodeSamples, Unavailable, StoreVoice, StoreFace, Except
<1>3. ASSUME NEW s \in sessions
      PROVE  /\ (<<s[1], "allow">> \in logged' \/ pc'[s[1]] = "log" \/ s[1] \in hit')
             /\ pc'[s[1]] \in {"log", "done", "dead"}
  <2>1. /\ s[1] \in Requests /\ pc[s[1]] \in {"log", "done", "dead"}
        /\ (<<s[1], "allow">> \in logged \/ pc[s[1]] = "log" \/ s[1] \in hit)
    BY <1>0, OpenRemains DEF IInv, SessionsInv, SessionsAudited
  <2>2. CASE s[1] # r
    BY <1>r, <2>1, <2>2 DEF Stepped, Recorded
  <2>3. CASE s[1] = r
    <3>1. pc[r] = "log"
      BY <1>0, <2>1, <2>3, Working DEF Active
    <3> QED
      BY <1>2, <2>3, <3>1
  <2> QED
    BY <2>2, <2>3
<1>4. ASSUME NEW s \in sessions'
      PROVE  /\ (<<s[1], "allow">> \in logged' \/ pc'[s[1]] = "log" \/ s[1] \in hit')
             /\ pc'[s[1]] \in {"log", "done", "dead"} /\ given'[s[1]].op = "bootstrap"
  <2>1. CASE s \in sessions
    BY <1>0, <1>3, <2>1, OpenRemains
  <2>2. CASE s \notin sessions
    BY <1>0, <1>n, <2>2
  <2> QED
    BY <2>1, <2>2
<1> QED
  BY <1>1, <1>4 DEF SessionsInv, SessionsAudited

LEMMA HandleTypes ==
  ASSUME IInv, NEW r \in Requests, Handle(r)
  PROVE  TypeOK'
<1>0. TypeOK /\ given' = given /\ tool' = tool /\ given[r].user \in Users
  BY Working, RequestRows
<1>1. Stepped(r) /\ Recorded(r)
  BY RequestSteps, RequestRecords
<1>2. /\ users' \in [Users -> {None} \cup Row] /\ stored' \in StoredType
      /\ window' \in [Requests -> SUBSET ({None} \cup Row)]
  BY RequestRows, RowsKept
<1>3. sessions' \subseteq Requests \X Users
  BY <1>0, <1>1 DEF Recorded, TypeOK
<1>4. logged' \subseteq Requests \X {"allow", "deny", "error"} /\ hit' \subseteq Requests
  BY <1>0, <1>1 DEF Recorded, TypeOK
<1>5. /\ pc' \in [Requests -> Labels] /\ answer' \in [Requests -> Answers]
      /\ method' \in [Requests -> {"unknown", "voiceprint", "face", "pin"}]
      /\ snap' \in [Requests -> {None} \cup Row]
  BY <1>1 DEF Stepped, Factors
<1> QED
  BY <1>0, <1>1, <1>2, <1>3, <1>4, <1>5 DEF TypeOK, StoredType, Recorded

LEMMA HandleRows ==
  ASSUME IInv, NEW r \in Requests, Handle(r)
  PROVE  RowsInv'
<1>1. tool' = tool /\ Kept
  BY RequestRows, Working
<1>2. \A c \in Commands : (tool[c].pc = "enroll") =>
        tool[c].user \in Users /\ users[tool[c].user] # None
  BY DEF IInv, RowsInv
<1> QED
  BY <1>1, <1>2, RequestRows, RowsKept DEF RowsInv, Kept

LEMMA HandleStep ==
  ASSUME IInv, NEW r \in Requests, Handle(r)
  PROVE  IInv'
<1>1. Next /\ Stepped(r) /\ Recorded(r)
  BY RequestSteps, RequestRecords DEF Next
<1>2. ASSUME NEW q \in Requests, q # r
      PROVE  Begun(q)' /\ Achieved(q)' /\ Answered(q)'
  <2>1. Untouched(q) /\ sessions \subseteq sessions' /\ logged \subseteq logged'
    BY <1>1, <1>2 DEF Stepped, Recorded, Untouched
  <2>2. \A u \in Users : <<q, u>> \in sessions' => <<q, u>> \in sessions
    BY <1>1, <1>2 DEF Recorded
  <2> QED
    BY <1>1, <2>1, <2>2, UntouchedKeeps, UntouchedAnswered
<1>3. RequestsInv'
  BY <1>2, HandleBegun, HandleAchieved DEF RequestsInv
<1>4. AnswersTrue'
  BY <1>2, HandleAnswered, AnswersByRequestPrime
<1> QED
  BY <1>3, <1>4, HandleTypes, HandleRows, HandleSessions DEF IInv

\* The other steps leave sessions and what is logged alone.
LEMMA SessionsRemain ==
  ASSUME IInv, Next, sessions' = sessions, logged' = logged, hit \subseteq hit',
         \A r \in Requests : pc'[r] = pc[r] \/ r \in hit'
                                \/ pc[r] \notin {"log", "done", "dead"},
         \A r \in Requests : (pc[r] \in {"log", "done", "dead"})
                               => (pc'[r] \in {"log", "done", "dead"})
  PROVE  SessionsInv'
<1>1. ASSUME NEW s \in sessions
      PROVE  /\ s[2] = given'[s[1]].user /\ Proven(s[1])'
             /\ (<<s[1], "allow">> \in logged' \/ pc'[s[1]] = "log" \/ s[1] \in hit')
             /\ pc'[s[1]] \in {"log", "done", "dead"} /\ given'[s[1]].op = "bootstrap"
  <2>1. /\ s[1] \in Requests /\ pc[s[1]] \in {"log", "done", "dead"}
        /\ (<<s[1], "allow">> \in logged \/ pc[s[1]] = "log" \/ s[1] \in hit)
    BY OpenRemains DEF IInv, SessionsInv, SessionsAudited
  <2> QED
    BY <2>1, OpenRemains
<1>2. SessionsProven'
  BY <1>1 DEF SessionsProven, Proven
<1>3. SessionsAudited'
  BY <1>1 DEF SessionsAudited
<1> QED
  BY <1>1, <1>2, <1>3 DEF SessionsInv

LEMMA CrashStep ==
  ASSUME IInv, Crash
  PROVE  IInv'
<1>0. /\ TypeOK /\ Next /\ tool' = tool /\ given' = given /\ sessions' = sessions
      /\ logged' = logged /\ hit \subseteq hit' /\ Unwritten
  BY DEF IInv, Next, Crash, Unwritten
<1>1. \A q \in Requests : \/ Untouched(q)
                          \/ /\ pc'[q] = "dead" /\ pc[q] # "idle" /\ Active(q) /\ q \in hit'
                             /\ answer'[q] = answer[q]
  BY <1>0 DEF Crash, TypeOK, Untouched, Active
<1>2. SessionsInv'
  BY <1>0, <1>1, SessionsRemain DEF Untouched
<1>3. RowsInv'
  BY <1>0, RowsKept DEF RowsInv, Unwritten, IInv
<1>4. ASSUME NEW q \in Requests PROVE Begun(q)' /\ Achieved(q)' /\ Answered(q)'
  <2>1. CASE Untouched(q)
    BY <1>0, <2>1, UntouchedKeeps, UntouchedAnswered
  <2>2. CASE ~Untouched(q)
    <3>1. /\ pc'[q] = "dead" /\ pc[q] \notin {"idle", "done"} /\ answer'[q] = answer[q]
          /\ Begun(q) /\ Achieved(q)
      BY <1>1, <2>2 DEF Active, IInv, RequestsInv
    <3>2. answer'[q] = "none" /\ given'[q] \in Given
      BY <1>0, <3>1 DEF Begun, Achieved
    <3> QED
      BY <3>1, <3>2 DEF Begun, Achieved, Answered, Active, Past, Factors
  <2> QED
    BY <2>1, <2>2
<1>5. TypeOK'
  <2>1. pc' \in [Requests -> Labels]
    BY <1>0 DEF Crash, TypeOK, Labels
  <2>2. hit' \subseteq Requests /\ booted' \in BOOLEAN
    BY <1>0 DEF Crash, TypeOK
  <2>3. faults < MaxFaults /\ faults' = faults + 1 /\ faults \in 0 .. MaxFaults
    BY <1>0 DEF Crash, TypeOK
  <2>4. faults' \in 0 .. MaxFaults
    BY <2>3, FaultsAssumption
  <2> QED
    BY <1>0, <2>1, <2>2, <2>4 DEF Crash, TypeOK
<1> QED
  BY <1>2, <1>3, <1>4, <1>5, AnswersByRequestPrime DEF IInv, RequestsInv

LEMMA ReceiveStep ==
  ASSUME IInv, NEW r \in Requests, Receive(r)
  PROVE  IInv'
<1>0. /\ TypeOK /\ Next /\ users' = users /\ stored' = stored /\ tool' = tool
      /\ sessions' = sessions /\ logged' = logged /\ hit' = hit
  BY DEF IInv, Next, Receive
<1>1. PICK g \in Given : /\ given' = [given EXCEPT ![r] = g]
                         /\ window' = [window EXCEPT ![r] = {users[g.user]}]
  BY DEF Receive
<1>2. pc[r] = "idle" /\ answer[r] = "none" /\ g.user \in Users
  BY GivenType DEF Receive, IInv, RequestsInv, Achieved
<1>3. /\ pc' \in [Requests -> Labels] /\ pc'[r] = "read"
      /\ \A q \in Requests : (q # r) => (pc'[q] = pc[q])
  <2>1. Goto(r, "read") /\ "read" \in Labels
    BY DEF Receive, Labels
  <2> QED
    BY <1>0, <2>1, GotoStep
<1>4. \A q \in Requests : (q # r) => Untouched(q)
  BY <1>3 DEF Untouched, Receive
<1>5. /\ given'[r] = g /\ users'[g.user] \in window'[r] /\ answer'[r] = "none"
      /\ given' \in [Requests -> {None} \cup Given]
      /\ window' \in [Requests -> SUBSET ({None} \cup Row)]
  BY <1>0, <1>1, <1>2 DEF Receive, TypeOK
<1>6. Begun(r)' /\ Achieved(r)' /\ Answered(r)'
  BY <1>3, <1>5 DEF Begun, Achieved, Answered, Past, Factors
<1>7. \A q \in Requests : Begun(q)' /\ Achieved(q)' /\ Answered(q)'
  BY <1>0, <1>4, <1>6, UntouchedKeeps, UntouchedAnswered
<1>8. SessionsInv'
  BY <1>0, <1>2, <1>3, SessionsRemain
<1>9. RowsInv'
  BY <1>0 DEF RowsInv, EnrolmentsStand, IInv
<1>10. TypeOK'
  BY <1>0, <1>3, <1>5 DEF Receive, TypeOK
<1> QED
  BY <1>7, <1>8, <1>9, <1>10, AnswersByRequestPrime DEF IInv, RequestsInv

\* The steps of the server's start and of the tool touch no request.
LEMMA OutsideStep ==
  ASSUME IInv, Next, UNCHANGED server, UNCHANGED <<sessions, logged, hit>>
  PROVE  RequestsInv' /\ SessionsInv' /\ AnswersTrue'
<1>1. \A q \in Requests : Untouched(q)
  BY DEF server, Untouched
<1>2. \A q \in Requests : Begun(q)' /\ Achieved(q)' /\ Answered(q)'
  BY <1>1, UntouchedKeeps, UntouchedAnswered
<1>3. SessionsInv'
  BY SessionsRemain DEF server
<1> QED
  BY <1>2, <1>3, AnswersByRequestPrime DEF RequestsInv

LEMMA BootStep ==
  ASSUME IInv, Boot
  PROVE  IInv'
<1>0. /\ TypeOK /\ Next /\ tool' = tool /\ UNCHANGED server
      /\ UNCHANGED <<sessions, logged, hit, faults>> /\ booted' \in BOOLEAN /\ Kept
  BY NextKeeps DEF IInv, TypeOK, Next, Boot, Booted, SeedDemoUser
<1>1. Unwritten \/ \E u \in Users : Written(u)
  BY BootRows
<1>2. TypeOK'
  BY <1>0, <1>1, RowsKept DEF TypeOK, StoredType, server
<1>3. RowsInv'
  BY <1>0, <1>1, RowsKept DEF RowsInv, Kept, IInv
<1> QED
  BY <1>0, <1>2, <1>3, OutsideStep DEF IInv

ToolType == [pc : {"idle", "enroll", "verify", "identify", "done"},
             user : Users \cup {None}, samples : SUBSET Voices,
             row : {None} \cup Row, result : Users \cup {None}]

\* The tool begins an enrolment only for a user with a row, and goes on to its end.
LEMMA ToolTypes ==
  ASSUME IInv, NEW c \in Commands, ToolStart(c) \/ Run(c)
  PROVE  /\ tool' \in [Commands -> ToolType]
         /\ \A d \in Commands : (tool'[d].pc = "enroll") =>
               (tool'[d] = tool[d]) \/ (tool'[d].user \in Users /\ users[tool'[d].user] # None)
<1>0. tool \in [Commands -> ToolType] /\ users \in [Users -> {None} \cup Row]
  BY DEF IInv, TypeOK, ToolType
<1>1. CASE ToolStart(c)
  <2>1. PICK u \in Users, s \in Voiceprints, l \in {"enroll", "verify", "identify"} :
          /\ l = "identify" \/ users[u] # None
          /\ tool' = [tool EXCEPT ![c] = [pc |-> l, user |-> u, samples |-> s,
                                          row |-> users[u], result |-> None]]
    BY <1>1 DEF ToolStart
  <2> DEFINE new == [pc |-> l, user |-> u, samples |-> s, row |-> users[u], result |-> None]
  <2>2. new \in ToolType /\ (new.pc = "enroll" => new.user \in Users /\ users[new.user] # None)
    BY <1>0, <2>1 DEF ToolType, Voiceprints
  <2> HIDE DEF new
  <2> QED
    BY <1>0, <2>1, <2>2 DEF new
<1>2. ASSUME NEW x \in Users \cup {None}, tool' = [tool EXCEPT ![c].pc = "done", ![c].result = x]
      PROVE  /\ tool' \in [Commands -> ToolType]
             /\ \A d \in Commands : (tool'[d].pc = "enroll") => (tool'[d] = tool[d])
  BY <1>0, <1>2 DEF ToolType
<1>3. CASE ToolEnroll(c)
  <2>1. tool[c].user \in Users
    BY <1>3, ToolEnrollWritten
  <2> QED
    BY <1>2, <1>3, <2>1 DEF ToolEnroll
<1>4. CASE ToolFails(c)
  BY <1>0, <1>4 DEF ToolFails, ToolType
<1>5. CASE ToolVerify(c)
  <2>1. tool[c].user \in Users \cup {None}
    BY <1>0 DEF ToolType
  <2> QED
    BY <1>2, <1>5, <2>1 DEF ToolVerify
<1>6. CASE ToolIdentify(c)
  <2>1. PICK v \in tool[c].samples :
          \E u \in IF Identified(v) = {} THEN {None} ELSE Identified(v) :
            tool' = [tool EXCEPT ![c].pc = "done", ![c].result = u]
    BY <1>6 DEF ToolIdentify
  <2>2. Identified(v) \subseteq Users
    BY DEF Identified, Scored
  <2> QED
    BY <1>2, <2>1, <2>2
<1> QED
  BY <1>1, <1>3, <1>4, <1>5, <1>6 DEF Run

LEMMA ToolStep ==
  ASSUME IInv, NEW c \in Commands, ToolStart(c) \/ Run(c)
  PROVE  IInv'
<1>0. /\ TypeOK /\ Next /\ UNCHANGED server
      /\ UNCHANGED <<sessions, logged, hit, faults, booted>> /\ Kept
  BY NextKeeps
  DEF IInv, Next, Run, ToolStart, ToolEnroll, ToolFails, ToolVerify, ToolIdentify
<1>1. Unwritten \/ \E u \in Users : Written(u)
  BY ToolRows
<1>2. TypeOK'
  BY <1>0, <1>1, RowsKept, ToolTypes DEF TypeOK, StoredType, ToolType, server
<1>3. \A d \in Commands : (tool'[d].pc = "enroll") =>
         tool'[d].user \in Users /\ users'[tool'[d].user] # None
  BY <1>0, ToolTypes DEF Kept, IInv, RowsInv
<1>4. RowsInv'
  BY <1>1, <1>3, RowsKept DEF RowsInv
<1> QED
  BY <1>0, <1>2, <1>4, OutsideStep DEF IInv

-----------------------------------------------------------------------------

LEMMA Initially == Init => IInv
<1> SUFFICES ASSUME Init PROVE IInv
  OBVIOUS
<1>1. TypeOK
  <2>1. faults \in 0 .. MaxFaults
    BY FaultsAssumption DEF Init
  <2>2. /\ users \in [Users -> {None} \cup Row]
        /\ stored \in [Users -> [voice : {None} \cup Voiceprints, face : Faces \cup {None}]]
    BY DEF Init
  <2>3. /\ pc \in [Requests -> Labels] /\ given \in [Requests -> {None} \cup Given]
        /\ snap \in [Requests -> {None} \cup Row]
        /\ method \in [Requests -> {"unknown", "voiceprint", "face", "pin"}]
        /\ answer \in [Requests -> Answers]
        /\ window \in [Requests -> SUBSET ({None} \cup Row)]
    BY DEF Init, Labels, Answers
  <2>4. tool \in [Commands -> ToolType]
    BY DEF Init, ToolType
  <2>5. booted \in BOOLEAN
    BY DEF Init
  <2>6. /\ sessions \subseteq Requests \X Users
        /\ logged \subseteq Requests \X {"allow", "deny", "error"} /\ hit \subseteq Requests
    BY DEF Init
  <2> QED
    BY <2>1, <2>2, <2>3, <2>4, <2>5, <2>6 DEF TypeOK, ToolType
<1>2. RowsInv
  BY DEF Init, RowsInv, EnrolmentsStand
<1>3. RequestsInv
  BY DEF Init, RequestsInv, Begun, Achieved, Active, Past
<1>4. SessionsInv
  BY DEF Init, SessionsInv, SessionsProven, SessionsAudited
<1>5. AnswersTrue
  BY DEF Init, AnswersTrue
<1> QED
  BY <1>1, <1>2, <1>3, <1>4, <1>5 DEF IInv

LEMMA Stutters == IInv /\ UNCHANGED vars => IInv'
BY DEF vars, server, IInv, TypeOK, RowsInv, EnrolmentsStand, RequestsInv, Begun, Achieved,
   Proven, Enrolled, Active, SessionsInv, SessionsProven, SessionsAudited, AnswersTrue

\* The invariant is inductive.
THEOREM Invariance == Spec => []IInv
<1>1. Init => IInv
  BY Initially
<1>2. IInv /\ [Next]_vars => IInv'
  BY HandleStep, ReceiveStep, CrashStep, BootStep, ToolStep, Stutters DEF Next
<1> QED
  BY <1>1, <1>2, PTL DEF Spec

\* Every variable keeps its type, whatever the faults and whatever the tool does.
THEOREM TypeCorrect == Spec => []TypeOK
<1>1. IInv => TypeOK
  BY DEF IInv
<1> QED
  BY <1>1, Invariance, PTL

\* biometrics.py:6: a session is opened only for a user with a voice, a face or a PIN
\* that matched a row of that user the table held while the request ran.
THEOREM OpenedByProof == Spec => []SessionsProven
<1>1. IInv => SessionsProven
  BY DEF IInv, SessionsInv
<1> QED
  BY <1>1, Invariance, PTL

\* A session that is not in the audit log is one whose request is not over or met a fault.
THEOREM OpenedOnRecord == Spec => []SessionsAudited
<1>1. IInv => SessionsAudited
  BY DEF IInv, SessionsInv
<1> QED
  BY <1>1, Invariance, PTL

\* What bootstrap_session, enroll_voice and enroll_face answer is what they have done.
THEOREM AnswersHold == Spec => []AnswersTrue
<1>1. IInv => AnswersTrue
  BY DEF IInv
<1> QED
  BY <1>1, Invariance, PTL

\* No other write takes an enrolment back: each update of models.py is of one column.
THEOREM EnrolmentsHold == Spec => []EnrolmentsStand
<1>1. IInv => EnrolmentsStand
  BY DEF IInv, RowsInv
<1> QED
  BY <1>1, Invariance, PTL

-----------------------------------------------------------------------------
(* A handler never goes in a circle, and finds what its next step needs:   *)
(* what of RequestsEnd can be said of single steps.                        *)

\* How many steps a handler at the label l still has at the most.
Left(l) ==
  CASE l \in {"done", "dead"} -> 0
    [] l \in {"deny", "except"} -> 1
    [] l = "log" -> 2
    [] l \in {"create", "store"} -> 3
    [] l \in {"pin", "encode"} -> 4
    [] l = "match" -> 5
    [] l = "read" -> 6
    [] OTHER -> 7

\* The handler of q stays where it is or comes nearer to its end.
Nearer(q) == pc'[q] # pc[q] => Left(pc'[q]) < Left(pc[q])

LEMMA GotoNearer ==
  ASSUME TypeOK, NEW r \in Requests, NEW l, Goto(r, l), Left(l) < Left(pc[r])
  PROVE  \A q \in Requests : Nearer(q)
BY DEF TypeOK, Goto, Nearer

LEMMA AnswerNearer ==
  ASSUME TypeOK, NEW r \in Requests, NEW a, Answer(r, a), Active(r)
  PROVE  \A q \in Requests : Nearer(q)
<1>1. Left("done") < Left(pc[r])
  BY DEF TypeOK, Labels, Active, Left
<1> QED
  BY <1>1 DEF TypeOK, Answer, Nearer

LEMMA HandleNearer ==
  ASSUME TypeOK, NEW r \in Requests, Handle(r)
  PROVE  \A q \in Requests : Nearer(q)
<1> USE GotoNearer, AnswerNearer
<1>1. CASE GetUser(r)
  BY <1>1 DEF GetUser, Active, Left
<1>2. CASE MatchBiometrics(r)
  <2>1. /\ pc[r] = "match"
        /\ Goto(r, "create") \/ Goto(r, "pin") \/ Goto(r, "deny")
    BY <1>2 DEF MatchBiometrics
  <2> QED
    BY <2>1 DEF Left
<1>3. CASE MatchPin(r)
  BY <1>3 DEF MatchPin, Left
<1>4. CASE Deny(r) \/ LogAllowed(r) \/ Unavailable(r) \/ Except(r)
  BY <1>4 DEF Deny, LogAllowed, Unavailable, Except, Active
<1>5. CASE CreateSession(r) \/ StoreVoice(r) \/ StoreFace(r)
  BY <1>5 DEF CreateSession, StoreVoice, StoreFace, Left
<1>6. CASE EncodeSamples(r)
  BY <1>6 DEF EncodeSamples, Active, Left
<1>7. CASE Raises(r)
  BY <1>7 DEF Raises, Active, Left
<1> QED
  BY <1>1, <1>2, <1>3, <1>4, <1>5, <1>6, <1>7 DEF Handle

LEMMA CrashNearer ==
  ASSUME TypeOK, Crash
  PROVE  \A q \in Requests : Nearer(q)
<1>1. \A q \in Requests : pc'[q] # pc[q] => (Active(q) /\ pc'[q] = "dead")
  BY DEF Crash, TypeOK
<1>2. \A q \in Requests : Active(q) => Left("dead") < Left(pc[q])
  BY DEF TypeOK, Labels, Active, Left
<1> QED
  BY <1>1, <1>2 DEF Nearer

\* Every handler counts down: whatever the server, the tool or a fault does, a handler
\* stays where it is or gets nearer to its answer, the except clause whose own entry
\* raises included, and a factor that did not match is never tried again.
THEOREM HandlersCountDown == Spec => [][\A r \in Requests : Nearer(r)]_vars
<1>1. IInv /\ [Next]_vars => [\A r \in Requests : Nearer(r)]_vars
  <2> SUFFICES ASSUME IInv, Next PROVE \A r \in Requests : Nearer(r)
    OBVIOUS
  <2>1. TypeOK
    BY DEF IInv
  <2>2. ASSUME NEW r \in Requests, Receive(r)
        PROVE  \A q \in Requests : Nearer(q)
    BY <2>1, <2>2, GotoNearer DEF Receive, Left
  <2>3. CASE pc' = pc
    BY <2>3 DEF Nearer
  <2>4. CASE Boot \/ \E c \in Commands : ToolStart(c) \/ Run(c)
    BY <2>3, <2>4 DEF Boot, Booted, SeedDemoUser, ToolStart, Run, ToolEnroll, ToolFails,
       ToolVerify, ToolIdentify, server
  <2> QED
    BY <2>1, <2>2, <2>4, HandleNearer, CrashNearer DEF Next
<1> QED
  BY <1>1, Invariance, PTL DEF Spec

\* A request that is being handled has the server to itself and its demo users seeded,
\* and what its next statement uses is there: the row it names does not go away.
HasItsRow ==
  \A r \in Requests : Active(r) =>
    /\ booted
    /\ \A q \in Requests : Active(q) => q = r
    /\ given[r] \in Given
    /\ (pc[r] \in Past) => users[given[r].user] # None
    /\ (pc[r] = "store") => given[r].op \in {"voice", "face"}

OnlyOne == \A r \in Requests : Active(r) => booted /\ \A q \in Requests : Active(q) => q = r

LEMMA OnlyOneStep ==
  ASSUME IInv, OnlyOne, [Next]_vars
  PROVE  OnlyOne'
<1>0. TypeOK
  BY DEF IInv
<1>1. ASSUME NEW r \in Requests, Receive(r)
      PROVE  OnlyOne'
  <2>1. booted' /\ \A q \in Requests : q # r => pc'[q] = pc[q] /\ ~Active(q)
    BY <1>0, <1>1 DEF Receive, Goto, TypeOK
  <2> QED
    BY <2>1 DEF OnlyOne, Active
<1>2. ASSUME NEW r \in Requests, Handle(r)
      PROVE  OnlyOne'
  <2>1. Active(r) /\ booted' = booted
    BY <1>2, Working DEF Handle, GetUser, MatchBiometrics, MatchPin, Deny, CreateSession,
       LogAllowed, EncodeSamples, Unavailable, StoreVoice, StoreFace, Raises, Except
  <2>2. \A q \in Requests : q # r => pc'[q] = pc[q]
    BY <1>2, RequestSteps DEF Stepped
  <2> QED
    BY <2>1, <2>2 DEF OnlyOne, Active
<1>3. CASE Crash
  <2>1. \A q \in Requests : ~Active(q)'
    BY <1>0, <1>3 DEF Crash, Active, TypeOK
  <2> QED
    BY <2>1 DEF OnlyOne
<1>4. CASE Boot \/ (\E c \in Commands : ToolStart(c) \/ Run(c)) \/ UNCHANGED vars
  <2>1. pc' = pc /\ (booted' = booted \/ booted' = TRUE)
    <3>1. CASE Boot
      BY <3>1 DEF Boot, Booted, SeedDemoUser, server
    <3>2. CASE \E c \in Commands : ToolStart(c) \/ Run(c)
      BY <3>2 DEF ToolStart, Run, ToolEnroll, ToolFails, ToolVerify, ToolIdentify, server
    <3>3. CASE UNCHANGED vars
      BY <3>3 DEF server, vars
    <3> QED
      BY <1>4, <3>1, <3>2, <3>3
  <2> QED
    BY <2>1 DEF OnlyOne, Active
<1> QED
  BY <1>1, <1>2, <1>3, <1>4 DEF Next

\* No handler is kept waiting: once a request has come in it waits for no other one and
\* for nothing the tool does, so that with HandlersCountDown it ends when the server
\* goes on.
THEOREM NobodyWaits == Spec => []HasItsRow
<1>1. Init => OnlyOne
  BY DEF Init, OnlyOne, Active
<1>2. IInv /\ OnlyOne /\ [Next]_vars => OnlyOne'
  BY OnlyOneStep
<1>3. IInv /\ OnlyOne => HasItsRow
  BY DEF IInv, RequestsInv, Begun, OnlyOne, Active, HasItsRow
<1> QED
  BY <1>1, <1>2, <1>3, Invariance, PTL DEF Spec
=============================================================================
