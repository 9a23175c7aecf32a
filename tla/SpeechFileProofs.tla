-------------------------- MODULE SpeechFileProofs --------------------------
(***************************************************************************)
(* Proofs about SpeechFile for any number of requests and any length of    *)
(* audio.                                                                  *)
(***************************************************************************)
EXTENDS SpeechFile, SequenceTheorems, TLAPS

\* The file holds the first n chunks of r and nothing else.
Holds(f, r, n) == Len(f) = n /\ \A m \in 1 .. n : f[m] = <<r, m>>

\* A request that nobody has interfered with has the file for itself, and has written
\* all of its audio by the time the file is to be read.
Mine(r) ==
  /\ (Active(r) /\ ~shared[r]) => Holds(file, r, received[r])
  /\ (pc[r] = "idle") => (received[r] = 0)
  /\ (pc[r] \in {"path", "send"}) => (received[r] = Chunks)
  /\ (pc[r] = "send" /\ ~shared[r]) => (size[r] = Chunks)
  /\ (pc[r] = "done" /\ ~shared[r]) => Holds(answer[r], r, Chunks)
  /\ (pc[r] = "failed" /\ why[r] = "none") => shared[r]

IInv == TypeOK /\ \A r \in Requests : Mine(r)

LEMMA HoldsOwn ==
  ASSUME NEW r \in Requests, NEW f \in Seq(Cells), Holds(f, r, Chunks)
  PROVE  f = Own(r)
<1>1. f = [m \in 1 .. Len(f) |-> f[m]]
  OBVIOUS
<1> QED
  BY <1>1 DEF Holds, Own

\* Len(f) of a function on 1 .. n.
LEMMA SequenceOf ==
  ASSUME NEW n \in Nat, NEW f, DOMAIN f = 1 .. n, f = [m \in 1 .. n |-> f[m]],
         \A m \in 1 .. n : f[m] \in Cells
  PROVE  f \in Seq(Cells) /\ Len(f) = n
<1>1. f \in [1 .. n -> Cells]
  OBVIOUS
<1>2. f \in Seq(Cells)
  BY <1>1, SeqDef
<1> QED
  BY <1>1, <1>2, LenProperties

\* What a write does to the file.
LEMMA WriteStep ==
  ASSUME file \in Seq(Cells), NEW r \in Requests, NEW n \in 1 .. Chunks
  PROVE  /\ WriteAt(n, r) \in Seq(Cells)
         /\ Holds(file, r, n - 1) => Holds(WriteAt(n, r), r, n)
<1> DEFINE k == IF Len(file) < n THEN n ELSE Len(file)
           new == WriteAt(n, r)
<1>1. n \in Nat /\ Len(file) \in Nat /\ k \in Nat
  BY ChunksAssumption
<1>2. new = [m \in 1 .. k |->
               IF m = n THEN <<r, n>> ELSE IF m <= Len(file) THEN file[m] ELSE Hole]
  BY DEF WriteAt
<1>3. \A m \in 1 .. k : new[m] \in Cells
  <2>1. \A m \in 1 .. Len(file) : file[m] \in Cells
    OBVIOUS
  <2>2. <<r, n>> \in Cells /\ Hole \in Cells
    BY DEF Cells
  <2> HIDE DEF k
  <2> QED
    BY <1>1, <1>2, <2>1, <2>2
<1>4. new \in Seq(Cells) /\ Len(new) = k
  <2> HIDE DEF k
  <2>1. DOMAIN new = 1 .. k /\ new = [m \in 1 .. k |-> new[m]]
    BY <1>2
  <2> HIDE DEF new
  <2> QED
    BY <1>1, <1>3, <2>1, SequenceOf
<1>5. ASSUME Holds(file, r, n - 1) PROVE Holds(new, r, n)
  <2>1. k = n
    BY <1>1, <1>5 DEF Holds
  <2>2. \A m \in 1 .. n : new[m] = <<r, m>>
    <3> SUFFICES ASSUME NEW m \in 1 .. n PROVE new[m] = <<r, m>>
      OBVIOUS
    <3>1. CASE m = n
      BY <1>2, <2>1, <3>1
    <3>2. CASE m # n
      <4>1. m \in 1 .. n - 1 /\ m <= Len(file)
        BY <1>1, <1>5, <3>2 DEF Holds
      <4>2. file[m] = <<r, m>>
        BY <1>5, <4>1 DEF Holds
      <4> HIDE DEF k
      <4> QED
        BY <1>2, <2>1, <3>2, <4>1, <4>2
    <3> QED
      BY <3>1, <3>2
  <2> QED
    BY <1>4, <2>1, <2>2 DEF Holds
<1> QED
  BY <1>4, <1>5

-----------------------------------------------------------------------------
(* One lemma for each step.                                                *)

LEMMA SaveStep ==
  ASSUME IInv, NEW r \in Requests, Save(r)
  PROVE  IInv'
<1>1. TypeOK'
  BY DEF IInv, TypeOK, Save, Opened, Disturb, Labels
<1>2. Mine(r)'
  BY DEF IInv, TypeOK, Mine, Holds, Save, Opened, Disturb, Active
<1>3. \A q \in Requests : (q # r) => Mine(q)'
  BY DEF IInv, TypeOK, Mine, Save, Disturb, Active
<1> QED
  BY <1>1, <1>2, <1>3 DEF IInv

LEMMA ChunkStep ==
  ASSUME IInv, NEW r \in Requests, Chunk(r)
  PROVE  IInv'
<1> DEFINE n == received[r] + 1
<1>0. n \in 1 .. Chunks /\ file \in Seq(Cells) /\ received[r] \in Nat
  BY ChunksAssumption DEF IInv, TypeOK, Chunk
<1>1. file' \in Seq(Cells) /\ (Holds(file, r, received[r]) => Holds(file', r, n))
  <2>1. received[r] = n - 1 /\ file' = WriteAt(n, r)
    BY <1>0 DEF Chunk
  <2> HIDE DEF n
  <2> QED
    BY <1>0, <2>1, WriteStep
<1>2. received' \in [Requests -> 0 .. Chunks] /\ received'[r] = n
  BY <1>0, ChunksAssumption DEF IInv, TypeOK, Chunk
<1>3. TypeOK'
  BY <1>1, <1>2 DEF IInv, TypeOK, Chunk, Disturb
<1>4. Mine(r)'
  BY <1>1, <1>2 DEF IInv, TypeOK, Mine, Chunk, Disturb, Active
<1>5. \A q \in Requests : (q # r) => Mine(q)'
  BY DEF IInv, TypeOK, Mine, Chunk, Disturb, Active
<1> QED
  BY <1>3, <1>4, <1>5 DEF IInv

LEMMA RaisesStep ==
  ASSUME IInv, NEW r \in Requests, Refused(r) \/ SaveRaises(r)
  PROVE  IInv'
<1>1. TypeOK'
  BY DEF IInv, TypeOK, Refused, SaveRaises, FailsFor, Labels, Errors
<1>2. \A q \in Requests : Mine(q)'
  BY DEF IInv, TypeOK, Mine, Refused, SaveRaises, FailsFor, Active
<1> QED
  BY <1>1, <1>2 DEF IInv

LEMMA NotEmpty ==
  ASSUME NEW r \in Requests, Holds(file, r, Chunks)
  PROVE  file # << >>
BY ChunksAssumption DEF Holds

LEMMA SpeakStep ==
  ASSUME IInv, NEW r \in Requests, Speak(r)
  PROVE  IInv'
<1>1. TypeOK'
  BY DEF IInv, TypeOK, Speak, FailsFor, Labels, Errors
<1>2. \A q \in Requests : Mine(q)'
  BY NotEmpty DEF IInv, TypeOK, Mine, Speak, FailsFor, Active
<1> QED
  BY <1>1, <1>2 DEF IInv

LEMMA SpeakAudioStep ==
  ASSUME IInv, NEW r \in Requests, SpeakAudio(r)
  PROVE  IInv'
<1>1. TypeOK'
  BY DEF IInv, TypeOK, SpeakAudio, FailsFor, Labels, Errors
<1>2. \A q \in Requests : Mine(q)'
  BY NotEmpty DEF IInv, TypeOK, Mine, SpeakAudio, FailsFor, Active
<1> QED
  BY <1>1, <1>2 DEF IInv

LEMMA SendHeadersStep ==
  ASSUME IInv, NEW r \in Requests, SendHeaders(r)
  PROVE  IInv'
<1>0. Len(file) \in Nat
  BY DEF IInv, TypeOK
<1>1. TypeOK'
  <2>1. size' \in [Requests -> Nat]
    BY <1>0 DEF IInv, TypeOK, SendHeaders
  <2>2. pc' \in [Requests -> Labels] /\ why' \in [Requests -> Errors]
    BY DEF IInv, TypeOK, SendHeaders, FailsFor, Labels, Errors
  <2> QED
    BY <2>1, <2>2 DEF IInv, TypeOK, SendHeaders
<1>2. \A q \in Requests : Mine(q)'
  BY DEF IInv, TypeOK, Mine, Holds, SendHeaders, FailsFor, Active
<1> QED
  BY <1>1, <1>2 DEF IInv

LEMMA SendBodyStep ==
  ASSUME IInv, NEW r \in Requests, SendBody(r)
  PROVE  IInv'
<1>1. TypeOK'
  BY DEF IInv, TypeOK, SendBody, FailsFor, Labels, Errors
<1>2. \A q \in Requests : Mine(q)'
  BY DEF IInv, TypeOK, Mine, Holds, SendBody, FailsFor, Active
<1> QED
  BY <1>1, <1>2 DEF IInv

LEMMA Initially == Init => IInv
<1> SUFFICES ASSUME Init PROVE IInv
  OBVIOUS
<1>1. file \in Seq(Cells)
  <2>1. CASE file = [n \in 1 .. Chunks + 1 |-> Hole]
    <3>1. Chunks + 1 \in Nat /\ \A m \in 1 .. Chunks + 1 : file[m] \in Cells
      BY <2>1, ChunksAssumption DEF Cells
    <3> QED
      BY <2>1, <3>1, SequenceOf
  <2>2. CASE file = << >>
    BY <2>2
  <2> QED
    BY <2>1, <2>2 DEF Init
<1>2. TypeOK
  BY <1>1, ChunksAssumption DEF Init, TypeOK, Labels, Errors
<1>3. \A r \in Requests : Mine(r)
  BY DEF Init, Mine, Active
<1> QED
  BY <1>2, <1>3 DEF IInv

\* The invariant is inductive.
THEOREM Invariance == Spec => []IInv
<1>1. IInv /\ UNCHANGED vars => IInv'
  BY DEF vars, IInv, TypeOK, Mine, Active
<1>2. IInv /\ [Next]_vars => IInv'
  BY <1>1, SaveStep, ChunkStep, RaisesStep, SpeakStep, SpeakAudioStep, SendHeadersStep,
     SendBodyStep DEF Next
<1> QED
  BY Initially, <1>2, PTL DEF Spec

\* Every variable keeps its type.
THEOREM TypeCorrect == Spec => []TypeOK
<1>1. IInv => TypeOK
  BY DEF IInv
<1> QED
  BY <1>1, Invariance, PTL

\* A request that no other one touched the file under is answered with its own audio.
THEOREM AloneIsRight == Spec => []AloneSendsOwn
<1>1. IInv => AloneSendsOwn
  BY HoldsOwn DEF IInv, Mine, TypeOK, AloneSendsOwn
<1> QED
  BY <1>1, Invariance, PTL

\* A request for which neither edge-tts nor the file nor the log raised is failed by
\* another request or not at all.
THEOREM FailuresHaveReasons == Spec => []FailsWithReason
<1>1. IInv => FailsWithReason
  BY DEF IInv, Mine, FailsWithReason
<1> QED
  BY <1>1, Invariance, PTL
=============================================================================
