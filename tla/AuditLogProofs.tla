--------------------------- MODULE AuditLogProofs ---------------------------
(***************************************************************************)
(* Proofs about AuditLog, for any payloads and any bounds: the type        *)
(* invariant, that failures look like tampering in one way only, that a    *)
(* log that verifies says what the running process's last hash stands for, *)
(* that a chain that does not verify is not made to verify by going on,    *)
(* and that the log implements AuditTrail.                                 *)
(***************************************************************************)
EXTENDS AuditLog, LeastNumber, SequenceTheorems

Lines == Entries \cup Glued \cup {Corrupt}

\* The entry a line starts with.
FirstEntry(line) == IF line \in Glued THEN line.head ELSE line

\* The first entry of line i has its own hash right and names the entry before it, or
\* the predecessor of that entry.
Follows(i) ==
  LET e == FirstEntry(file[i])
  IN  /\ e.hash = Hash(e.prev, e.payload)
      /\ \/ e.prev = PrevHash(i)
         \/ i > 1 /\ e.prev = file[i - 1].prev

ReadableTo(i) == \A j \in 1 .. i : file[j] \in Entries

\* What can be read is a chain of entries and retries, unless somebody altered the
\* file; and so is the entry that starts the first line that cannot be read, because
\* a loss of power may bring it back.
ChainInv == damage = 0 => \A i \in DOMAIN file :
              (ReadableTo(i - 1) /\ file[i] # Corrupt) => Follows(i)

\* The running process knows the hash of the last entry, or that of the one before
\* it when the last was written by a call that raised.
LastHashInv ==
  (up /\ ~ReadRaises) => \/ last_hash = LoadLastHash
                         \/ file # << >> /\ last_hash = file[Len(file)].prev

IInv == TypeOK /\ ChainInv /\ LastHashInv

LEMMA EntryType ==
  ASSUME NEW prev \in Hashes, NEW p \in Payloads
  PROVE  /\ Entry(prev, p) \in Entries
         /\ Entry(prev, p).prev = prev
         /\ Entry(prev, p).payload = p
         /\ Entry(prev, p).hash = Hash(prev, p)
BY DEF Entry, Entries, Hashes, Hash

LEMMA EmptyFacts ==
  /\ Genesis \in Hashes
  /\ << >> \in Seq(Lines)
  /\ \A s \in Seq(Lines) : Len(s) \in Nat /\ (Len(s) = 0 <=> s = << >>)
<1>1. \A s \in Seq(Lines) : Len(s) \in Nat /\ (Len(s) = 0 <=> s = << >>)
  BY EmptySeq, LenProperties
<1>2. << >> \in Seq(Lines) /\ << >> \in Seq(Payloads)
  BY EmptySeq
<1> QED BY <1>1, <1>2 DEF Genesis, Hashes

\* Entries, glued lines and Corrupt are different things.
LEMMA LineKinds ==
  /\ Corrupt \notin Entries /\ Corrupt \notin Glued
  /\ \A e \in Entries : e \notin Glued
  /\ \A e \in Entries : [head |-> e] \in Glued /\ [head |-> e].head = e
  /\ \A l \in Glued : l.head \in Entries /\ l = [head |-> l.head]
<1>1. \A e \in Entries : e \notin Glued
  <2> SUFFICES ASSUME NEW e \in Entries, e \in Glued PROVE FALSE
    OBVIOUS
  <2>1. DOMAIN e = {"prev", "payload", "hash"}
    BY DEF Entries
  <2>2. DOMAIN e = {"head"}
    BY DEF Glued
  <2> QED BY <2>1, <2>2
<1>2. \A l \in Glued : l.head \in Entries /\ l = [head |-> l.head]
  BY DEF Glued
<1>3. \A e \in Entries : [head |-> e] \in Glued /\ [head |-> e].head = e
  BY DEF Glued
<1> QED BY <1>1, <1>2, <1>3, CorruptAssumption

\* A write behind a line, and a cut within it, leave it starting with the entry it
\* started with, or Corrupt.
LEMMA GlueFacts ==
  ASSUME NEW line \in Lines
  PROVE  /\ Glue(line) \in Lines
         /\ Glue(line) \notin Entries
         /\ line \notin Entries => Glue(line) = line
         /\ line \in Entries => Glue(line) \in Glued /\ Glue(line).head = line
         /\ Glue(line) # Corrupt =>
              line # Corrupt /\ FirstEntry(Glue(line)) = FirstEntry(line)
<1>1. CASE line \in Entries
  <2>1. Glue(line) = [head |-> line]
    BY <1>1 DEF Glue
  <2>2. Glue(line) \in Glued /\ Glue(line).head = line /\ line # Corrupt /\ line \notin Glued
    BY <1>1, <2>1, LineKinds
  <2>3. Glue(line) \notin Entries
    BY <2>2, LineKinds
  <2> QED BY <1>1, <2>2, <2>3 DEF FirstEntry, Lines
<1>2. CASE line \notin Entries
  BY <1>2 DEF Glue
<1> QED BY <1>1, <1>2

LEMMA CutToFacts ==
  ASSUME NEW line \in Lines, NEW cut \in CutTo(line)
  PROVE  /\ cut \in Lines
         /\ cut # Corrupt => line # Corrupt /\ FirstEntry(cut) = FirstEntry(line)
         /\ \/ cut = line
            \/ cut = Corrupt
            \/ line \in Glued /\ cut = line.head /\ cut \in Entries
<1>1. \/ cut = line
      \/ cut = Corrupt
      \/ line \in Glued /\ cut = line.head
  BY DEF CutTo
<1>2. CASE cut = line \/ cut = Corrupt
  BY <1>2 DEF Lines
<1>3. CASE line \in Glued /\ cut = line.head
  <2>1. cut \in Entries /\ cut \notin Glued /\ line # Corrupt
    BY <1>3, LineKinds
  <2>2. FirstEntry(cut) = FirstEntry(line)
    BY <1>3, <2>1 DEF FirstEntry
  <2> QED BY <1>3, <2>1, <2>2 DEF Lines
<1> QED BY <1>1, <1>2, <1>3

\* What a write does to the lines of the file.
LEMMA WrittenLines ==
  ASSUME TypeOK, NEW line \in Lines
  PROVE  /\ Written(line) \in Seq(Lines)
         /\ Len(Written(line)) = IF ended THEN Len(file) + 1 ELSE Len(file)
         /\ Len(Written(line)) > 0
         /\ ended => /\ \A j \in 1 .. Len(file) : Written(line)[j] = file[j]
                     /\ Written(line)[Len(file) + 1] = line
         /\ ~ended => /\ \A j \in 1 .. Len(file) - 1 : Written(line)[j] = file[j]
                      /\ Len(file) \in 1 .. Len(file)
                      /\ file[Len(file)] \in Lines
                      /\ Written(line)[Len(file)] = Glue(file[Len(file)])
<1>0. file \in Seq(Lines) /\ Len(file) \in Nat
  BY LenProperties DEF TypeOK, Lines
<1>1. CASE ended
  BY <1>0, <1>1, AppendProperties DEF Written
<1>2. CASE ~ended
  <2> DEFINE g == Glue(file[Len(file)])
  <2>1. Len(file) \in 1 .. Len(file)
    BY <1>0, <1>2, EmptySeq DEF TypeOK
  <2>2. file[Len(file)] \in Lines
    BY <1>0, <2>1, ElementOfSeq
  <2>3. g \in Lines
    BY <2>2, GlueFacts
  <2>4. Written(line) = [file EXCEPT ![Len(file)] = g]
    BY <1>2 DEF Written
  <2> HIDE DEF g
  <2>5. /\ Written(line) \in Seq(Lines)
        /\ Len(Written(line)) = Len(file)
        /\ \A j \in 1 .. Len(file) :
             Written(line)[j] = IF j = Len(file) THEN g ELSE file[j]
    BY <1>0, <2>1, <2>3, <2>4, ExceptSeq
  <2>6. \A j \in 1 .. Len(file) - 1 : j \in 1 .. Len(file) /\ j # Len(file)
    BY <1>0
  <2> QED BY <1>0, <1>2, <2>1, <2>2, <2>5, <2>6 DEF g
<1> QED BY <1>1, <1>2 DEF TypeOK

\* What a loss of power leaves: a beginning of the file, whose last line may be cut.
LEMMA CutLines ==
  ASSUME TypeOK, PowerLoss
  PROVE  \E n \in 0 .. Len(file) :
           /\ file' \in Seq(Lines)
           /\ Len(file') = n
           /\ n = 0 => ended'
           /\ ended' \in BOOLEAN
           /\ \A j \in 1 .. n : j < n => file'[j] = file[j]
           /\ n > 0 => file[n] \in Lines /\ file'[n] \in CutTo(file[n])
<1>0. file \in Seq(Lines) /\ Len(file) \in Nat /\ (Len(file) = 0 => ended)
  BY LenProperties, EmptyFacts DEF TypeOK, Lines
<1>1. PICK n \in 0 .. Len(file) :
        \/ file' = SubSeq(file, 1, n) /\ ended' = (n < Len(file) \/ ended)
        \/ /\ n > 0
           /\ \E line \in CutTo(file[n]) : file' = [SubSeq(file, 1, n) EXCEPT ![n] = line]
           /\ ended' = FALSE
  BY DEF PowerLoss
<1> DEFINE s == SubSeq(file, 1, n)
<1>2. n \in Nat /\ n <= Len(file) /\ \A j \in 1 .. n : file[j] \in Lines
  BY <1>0, ElementOfSeq
<1>3. s \in Seq(Lines) /\ Len(s) = n /\ \A j \in 1 .. n : s[j] = file[j]
  <2>1. s \in Seq(Lines) /\ Len(s) = IF 1 <= n THEN n - 1 + 1 ELSE 0
    BY <1>0, <1>2, SubSeqProperties
  <2>2. \A j \in 1 .. n - 1 + 1 : s[j] = file[1 + j - 1]
    BY <1>0, <1>2, SubSeqProperties
  <2> QED BY <1>2, <2>1, <2>2
<1>4. CASE file' = s /\ ended' = (n < Len(file) \/ ended)
  <2>1. n > 0 => file'[n] = file[n] /\ file[n] \in Lines
    BY <1>2, <1>3, <1>4
  <2>2. n > 0 => file'[n] \in CutTo(file[n])
    BY <2>1 DEF CutTo
  <2>3. n = 0 => ended'
    <3>1. n = 0 => (n < Len(file) \/ ended)
      BY <1>0, <1>2
    <3> QED BY <1>4, <3>1
  <2>4. ended' \in BOOLEAN
    BY <1>4
  <2> HIDE DEF s
  <2> QED BY <1>2, <1>3, <1>4, <2>1, <2>2, <2>3, <2>4
<1>5. CASE /\ n > 0
           /\ \E line \in CutTo(file[n]) : file' = [s EXCEPT ![n] = line]
           /\ ended' = FALSE
  <2>1. PICK line \in CutTo(file[n]) : file' = [s EXCEPT ![n] = line]
    BY <1>5
  <2>2. file[n] \in Lines /\ n \in 1 .. n
    BY <1>2, <1>5
  <2>3. line \in Lines
    BY <2>2, CutToFacts
  <2> HIDE DEF s
  <2>4. /\ file' \in Seq(Lines) /\ Len(file') = n
        /\ \A j \in 1 .. n : file'[j] = IF j = n THEN line ELSE s[j]
    BY <1>2, <1>3, <2>1, <2>2, <2>3, ExceptSeq
  <2>5. \A j \in 1 .. n : j < n => file'[j] = file[j]
    BY <1>2, <1>3, <2>4
  <2>6. file'[n] = line
    BY <2>2, <2>4
  <2>7. n > 0 => file[n] \in Lines /\ file'[n] \in CutTo(file[n])
    BY <2>1, <2>2, <2>6
  <2>8. n # 0
    BY <2>2
  <2>9. ended' \in BOOLEAN
    BY <1>5
  <2> QED BY <2>4, <2>5, <2>7, <2>8, <2>9
<1> QED BY <1>1, <1>4, <1>5

\* An alteration changes what the first entry of one line says and nothing else.
LEMMA DamagedLines ==
  ASSUME TypeOK, Damage
  PROVE  \E i \in 1 .. Len(file), p \in Payloads :
           /\ file' \in Seq(Lines)
           /\ Len(file') = Len(file)
           /\ \A j \in 1 .. Len(file) : j # i => file'[j] = file[j]
           /\ \/ /\ file[i] \in Entries /\ file'[i] \in Entries
                 /\ file'[i].payload = p
                 /\ file'[i].hash = file[i].hash /\ file'[i].prev = file[i].prev
              \/ /\ file[i] \in Glued /\ file'[i] \in Glued
                 /\ file'[i].head.payload = p
<1>0. file \in Seq(Lines) /\ DOMAIN file = 1 .. Len(file) /\ Len(file) \in Nat
  BY LenProperties DEF TypeOK, Lines
<1>1. PICK i \in 1 .. Len(file), p \in Payloads :
        file[i] # Corrupt /\ file' = [file EXCEPT ![i] = Altered(@, p)]
  BY <1>0 DEF Damage
<1> DEFINE l == Altered(file[i], p)
<1>2. file[i] \in Entries \/ file[i] \in Glued
  BY <1>0, <1>1, ElementOfSeq DEF Lines
<1>3. CASE file[i] \in Entries
  <2>1. l = [file[i] EXCEPT !.payload = p]
    BY <1>3 DEF Altered
  <2>2. /\ l \in Entries /\ l.payload = p
        /\ l.hash = file[i].hash /\ l.prev = file[i].prev
    BY <1>3, <2>1 DEF Entries
  <2>3. l \in Lines
    BY <2>2 DEF Lines
  <2> HIDE DEF l
  <2>4. /\ file' \in Seq(Lines) /\ Len(file') = Len(file)
        /\ \A j \in 1 .. Len(file) : file'[j] = IF j = i THEN l ELSE file[j]
    BY <1>0, <1>1, <2>3, ExceptSeq DEF l
  <2> QED BY <1>0, <1>1, <1>3, <2>2, <2>4
<1>4. CASE file[i] \in Glued
  <2>1. file[i] \notin Entries /\ file[i].head \in Entries
    BY <1>4, LineKinds
  <2>2. l = [head |-> [file[i].head EXCEPT !.payload = p]]
    BY <2>1 DEF Altered
  <2>3. [file[i].head EXCEPT !.payload = p] \in Entries
        /\ [file[i].head EXCEPT !.payload = p].payload = p
    BY <2>1 DEF Entries
  <2>4. l \in Glued /\ l.head.payload = p
    BY <2>2, <2>3, LineKinds
  <2>5. l \in Lines
    BY <2>4 DEF Lines
  <2> HIDE DEF l
  <2>6. /\ file' \in Seq(Lines) /\ Len(file') = Len(file)
        /\ \A j \in 1 .. Len(file) : file'[j] = IF j = i THEN l ELSE file[j]
    BY <1>0, <1>1, <2>5, ExceptSeq DEF l
  <2> QED BY <1>0, <1>1, <1>4, <2>4, <2>6
<1> QED BY <1>2, <1>3, <1>4

-----------------------------------------------------------------------------
(* The invariant holds initially and every step keeps it.                  *)

LEMMA InitIInv == Init => IInv
<1> SUFFICES ASSUME Init PROVE IInv
  OBVIOUS
<1>1. /\ file \in Seq(Lines)
      /\ (file = << >>) => ended
      /\ last_hash \in Hashes
  BY EmptyFacts DEF Init
<1>2. faults \in 0 .. MaxFaults /\ damage \in 0 .. MaxDamage
  BY BoundsAssumption DEF Init
<1>3. ended \in BOOLEAN /\ up \in BOOLEAN
  BY DEF Init
<1>4. TypeOK
  BY <1>1, <1>2, <1>3 DEF TypeOK, Lines
<1>5. DOMAIN file = {}
  BY DEF Init
<1>6. ChainInv
  BY <1>5 DEF ChainInv
<1>7. LastHashInv
  BY DEF Init, LastHashInv
<1> QED BY <1>4, <1>6, <1>7 DEF IInv

LEMMA TypeStep ==
  ASSUME TypeOK, [Next]_vars
  PROVE  TypeOK'
<1> USE DEF TypeOK, Lines
<1>1. ASSUME NEW p \in Payloads, Log(p)
      PROVE  TypeOK'
  <2>1. Entry(last_hash, p) \in Lines /\ Entry(last_hash, p).hash \in Hashes
    BY EntryType, AppendProperties DEF Hashes, Hash, Entries
  <2>2. file' \in Seq(Lines) /\ file' # << >>
    BY <2>1, <1>1, WrittenLines, EmptySeq DEF Log
  <2> QED BY <1>1, <2>1, <2>2 DEF Log
<1>2. ASSUME NEW p \in Payloads, LogFails(p)
      PROVE  TypeOK'
  <2>1. Entry(last_hash, p) \in Lines /\ Corrupt \in Lines
    BY EntryType
  <2>2. Written(Entry(last_hash, p)) \in Seq(Lines)
        /\ Written(Entry(last_hash, p)) # << >>
    BY <2>1, WrittenLines, EmptySeq
  <2>3. Written(Corrupt) \in Seq(Lines) /\ Written(Corrupt) # << >>
    BY <2>1, WrittenLines, EmptySeq
  <2>4. faults' \in 0 .. MaxFaults
    BY <1>2, BoundsAssumption DEF LogFails
  <2>5. \/ file' = Written(Entry(last_hash, p)) /\ ended' \in BOOLEAN
        \/ file' = Written(Corrupt) /\ ended' = FALSE
        \/ file' = file /\ ended' = ended
    BY <1>2 DEF LogFails
  <2>6. /\ file' \in Seq(Lines)
        /\ (file' = << >>) => ended'
        /\ ended' \in BOOLEAN
    BY <2>2, <2>3, <2>5
  <2> QED BY <1>2, <2>4, <2>6 DEF LogFails
<1>3. CASE Boot
  <2>1. LoadLastHash \in Hashes
    <3>1. CASE file = << >>
      BY <3>1, EmptySeq DEF LoadLastHash, Genesis, Hashes
    <3>2. CASE file # << >>
      <4>1. Len(file) \in 1 .. Len(file) /\ DOMAIN file = 1 .. Len(file)
        BY <3>2, EmptySeq, LenProperties
      <4>2. file[Len(file)] \in Entries
        BY <1>3, <4>1 DEF Boot, ReadRaises
      <4> QED BY <3>2, <4>2 DEF LoadLastHash, Entries
    <3> QED BY <3>1, <3>2
  <2> QED BY <1>3, <2>1 DEF Boot
<1>4. CASE Crash
  <2>1. faults' \in 0 .. MaxFaults
    BY <1>4, BoundsAssumption DEF Crash
  <2>2. last_hash' \in Hashes
    BY <1>4, EmptyFacts DEF Crash
  <2> QED BY <1>4, <2>1, <2>2 DEF Crash
<1>5. CASE PowerLoss
  <2>1. faults' \in 0 .. MaxFaults
    BY <1>5, BoundsAssumption DEF PowerLoss
  <2>2. last_hash' \in Hashes
    BY <1>5, EmptyFacts DEF PowerLoss
  <2>3. up' \in BOOLEAN /\ damage' \in 0 .. MaxDamage
    BY <1>5 DEF PowerLoss
  <2>4. /\ file' \in Seq(Lines) /\ ended' \in BOOLEAN
        /\ Len(file') = 0 => ended'
    BY <1>5, CutLines
  <2>5. (file' = << >>) => ended'
    BY <2>4, EmptyFacts
  <2> QED BY <2>1, <2>2, <2>3, <2>4, <2>5
<1>6. CASE Damage
  <2>1. file' \in Seq(Lines) /\ Len(file') # 0
    BY <1>6, DamagedLines
  <2>2. file' # << >>
    BY <2>1, EmptyFacts
  <2> QED BY <1>6, <2>1, <2>2, BoundsAssumption DEF Damage
<1>7. CASE UNCHANGED vars
  BY <1>7 DEF vars
<1> QED BY <1>1, <1>2, <1>3, <1>4, <1>5, <1>6, <1>7 DEF Next

LEMMA FileDomain ==
  ASSUME TypeOK
  PROVE  /\ file \in Seq(Lines)
         /\ DOMAIN file = 1 .. Len(file)
         /\ Len(file) \in Nat
         /\ file # << >> => Len(file) \in 1 .. Len(file)
         /\ \A i \in 1 .. Len(file) : file[i] \in Lines
BY LenProperties, EmptyFacts, ElementOfSeq DEF TypeOK, Lines

\* A line keeps following as long as it starts with the same entry and the lines
\* before it stay.
LEMMA FollowsStays ==
  ASSUME NEW i \in Nat \ {0}, \A j \in 1 .. i - 1 : file'[j] = file[j],
         FirstEntry(file'[i]) = FirstEntry(file[i]), Follows(i)
  PROVE  Follows(i)'
<1>1. i # 1 => file'[i - 1] = file[i - 1]
  OBVIOUS
<1>2. PrevHash(i)' = PrevHash(i)
  BY <1>1 DEF PrevHash
<1>3. FirstEntry(file[i])' = FirstEntry(file[i])
  BY DEF FirstEntry
<1> QED BY <1>1, <1>2, <1>3 DEF Follows

\* What ChainInv says when the lines that can be read are among the old ones.
LEMMA ChainStays ==
  ASSUME TypeOK, ChainInv, damage = 0, NEW i \in 1 .. Len(file),
         \A j \in 1 .. i - 1 : file'[j] = file[j], ReadableTo(i - 1)',
         file[i] # Corrupt, FirstEntry(file'[i]) = FirstEntry(file[i])
  PROVE  Follows(i)'
<1>1. i \in Nat \ {0} /\ i \in DOMAIN file
  BY FileDomain
<1>2. ReadableTo(i - 1)
  BY DEF ReadableTo
<1>3. Follows(i)
  BY <1>1, <1>2 DEF ChainInv
<1> QED BY <1>1, <1>3, FollowsStays

\* A write keeps the chain when the process knows the last hash, or the one before it.
LEMMA WrittenChain ==
  ASSUME TypeOK, TypeOK', ChainInv, LastHashInv, up, damage = 0,
         NEW line \in Lines, file' = Written(line),
         line # Corrupt => /\ line \in Entries
                           /\ line.prev = last_hash
                           /\ line.hash = Hash(line.prev, line.payload)
  PROVE  \A i \in DOMAIN file' : (ReadableTo(i - 1)' /\ file'[i] # Corrupt) => Follows(i)'
<1> SUFFICES ASSUME NEW i \in DOMAIN file', ReadableTo(i - 1)', file'[i] # Corrupt
             PROVE  Follows(i)'
  OBVIOUS
<1>1. /\ DOMAIN file = 1 .. Len(file) /\ Len(file) \in Nat
      /\ DOMAIN file' = 1 .. Len(file') /\ Len(file') \in Nat
      /\ i \in Nat \ {0}
  BY FileDomain, LenProperties DEF TypeOK
<1>2. /\ Len(file') = IF ended THEN Len(file) + 1 ELSE Len(file)
      /\ ended => /\ \A j \in 1 .. Len(file) : file'[j] = file[j]
                  /\ file'[Len(file) + 1] = line
      /\ ~ended => /\ \A j \in 1 .. Len(file) - 1 : file'[j] = file[j]
                   /\ file[Len(file)] \in Lines
                   /\ file'[Len(file)] = Glue(file[Len(file)])
  BY WrittenLines
<1>3. CASE i \in 1 .. Len(file)
  <2>1. \A j \in 1 .. i - 1 : file'[j] = file[j]
    BY <1>1, <1>2, <1>3
  <2>2. file[i] # Corrupt /\ FirstEntry(file'[i]) = FirstEntry(file[i])
    <3>1. CASE file'[i] = file[i]
      BY <3>1
    <3>2. CASE ~ended /\ i = Len(file)
      BY <1>2, <3>2, GlueFacts
    <3>3. ended => file'[i] = file[i]
      BY <1>2, <1>3
    <3>4. (~ended /\ i # Len(file)) => file'[i] = file[i]
      BY <1>1, <1>2, <1>3
    <3> QED BY <3>1, <3>2, <3>3, <3>4
  <2> QED BY <1>3, <2>1, <2>2, ChainStays
<1>4. CASE ended /\ i = Len(file) + 1
  <2>1. file'[i] = line
    BY <1>2, <1>4
  <2>2. /\ line \in Entries /\ line.prev = last_hash
        /\ line.hash = Hash(line.prev, line.payload)
    BY <2>1
  <2>3. FirstEntry(file'[i]) = line
    BY <2>1, <2>2, LineKinds DEF FirstEntry
  <2>4. ~ReadRaises
    BY <1>1, <1>2, <1>4 DEF ReadableTo, ReadRaises
  <2>5. file # << >> => i - 1 = Len(file) /\ i # 1 /\ file'[i - 1] = file[Len(file)]
    BY <1>1, <1>2, <1>4, FileDomain
  <2>6. file = << >> => i = 1
    BY <1>1, <1>4, EmptyFacts
  <2>7. PrevHash(i)' = LoadLastHash
    BY <2>5, <2>6 DEF PrevHash, LoadLastHash
  <2>8. \/ line.prev = PrevHash(i)'
        \/ i > 1 /\ line.prev = file'[i - 1].prev
    BY <1>1, <2>2, <2>4, <2>5, <2>7 DEF LastHashInv
  <2>9. FirstEntry(file[i])' = line
    BY <2>3 DEF FirstEntry
  <2> QED BY <2>2, <2>8, <2>9 DEF Follows
<1> QED BY <1>1, <1>2, <1>3, <1>4 DEF TypeOK

LEMMA ChainStep ==
  ASSUME IInv, TypeOK', [Next]_vars
  PROVE  ChainInv'
<1> USE DEF IInv
<1> DEFINE Chain == \A i \in DOMAIN file : (ReadableTo(i - 1) /\ file[i] # Corrupt) => Follows(i)
<1> SUFFICES ASSUME damage' = 0 PROVE Chain'
  BY DEF ChainInv
<1>0. damage = 0
  BY DEF Next, Boot, Log, LogFails, Crash, PowerLoss, Damage, vars, TypeOK
<1>1. file' = file => Chain'
  BY <1>0 DEF ChainInv, ReadableTo, Follows, PrevHash, FirstEntry
<1>2. ASSUME NEW p \in Payloads, Log(p) \/ LogFails(p)
      PROVE  Chain'
  <2> DEFINE e == Entry(last_hash, p)
  <2>1. up /\ last_hash \in Hashes
    BY <1>2 DEF Log, LogFails, TypeOK
  <2>2. /\ e \in Entries /\ e \in Lines /\ Corrupt \in Lines
        /\ e.prev = last_hash /\ e.hash = Hash(e.prev, e.payload)
    BY <2>1, EntryType DEF Lines
  <2>3. file' = Written(e) \/ file' = Written(Corrupt) \/ file' = file
    BY <1>2 DEF Log, LogFails
  <2> HIDE DEF e
  <2>4. CASE file' = Written(e)
    BY <1>0, <2>1, <2>2, <2>4, WrittenChain
  <2>5. CASE file' = Written(Corrupt)
    BY <1>0, <2>1, <2>2, <2>5, WrittenChain
  <2> QED BY <1>1, <2>3, <2>4, <2>5
<1>3. CASE Boot \/ Crash \/ UNCHANGED vars
  BY <1>1, <1>3 DEF Boot, Crash, vars
<1>4. CASE PowerLoss
  <2>1. PICK n \in 0 .. Len(file) :
          /\ Len(file') = n
          /\ \A j \in 1 .. n : j < n => file'[j] = file[j]
          /\ n > 0 => file[n] \in Lines /\ file'[n] \in CutTo(file[n])
    BY <1>4, CutLines
  <2>2. /\ Len(file) \in Nat /\ n \in Nat
        /\ DOMAIN file' = 1 .. n
    BY <2>1, FileDomain, LenProperties DEF TypeOK
  <2> SUFFICES ASSUME NEW i \in DOMAIN file', ReadableTo(i - 1)', file'[i] # Corrupt
               PROVE  Follows(i)'
    OBVIOUS
  <2>3. i \in 1 .. Len(file) /\ \A j \in 1 .. i - 1 : file'[j] = file[j]
    BY <2>1, <2>2
  <2>4. file[i] # Corrupt /\ FirstEntry(file'[i]) = FirstEntry(file[i])
    <3>1. CASE i < n
      BY <2>1, <2>2, <3>1
    <3>2. CASE i = n
      BY <2>1, <2>2, <3>2, CutToFacts
    <3> QED BY <2>2, <3>1, <3>2
  <2> QED BY <1>0, <2>3, <2>4, ChainStays
<1>5. CASE Damage
  BY <1>5 DEF Damage, TypeOK
<1> QED BY <1>2, <1>3, <1>4, <1>5 DEF Next

LEMMA LastHashStep ==
  ASSUME IInv, TypeOK', [Next]_vars
  PROVE  LastHashInv'
<1> USE DEF IInv
<1>0. /\ DOMAIN file = 1 .. Len(file) /\ Len(file) \in Nat
      /\ DOMAIN file' = 1 .. Len(file') /\ Len(file') \in Nat
      /\ file' # << >> => Len(file') \in DOMAIN file'
  BY FileDomain, LenProperties, EmptySeq DEF TypeOK
\* Whatever is written where a line was unfinished, the file cannot be read.
<1>1. ASSUME NEW line \in Lines, file' = Written(line), ~ended \/ line = Corrupt
      PROVE  ReadRaises'
  <2>1. /\ Len(file') \in DOMAIN file'
        /\ \/ file'[Len(file')] = Corrupt
           \/ file[Len(file)] \in Lines /\ file'[Len(file')] = Glue(file[Len(file)])
    <3>1. CASE ended
      <4>1. Len(file') = Len(file) + 1 /\ file'[Len(file) + 1] = line /\ line = Corrupt
        BY <1>1, <3>1, WrittenLines
      <4> QED BY <1>0, <4>1
    <3>2. CASE ~ended
      <4>1. /\ Len(file') = Len(file) /\ Len(file) \in 1 .. Len(file)
            /\ file[Len(file)] \in Lines /\ file'[Len(file)] = Glue(file[Len(file)])
        BY <1>1, <3>2, WrittenLines
      <4> QED BY <1>0, <4>1
    <3> QED BY <3>1, <3>2
  <2>2. file'[Len(file')] \notin Entries
    BY <2>1, GlueFacts, LineKinds
  <2> QED BY <2>1, <2>2 DEF ReadRaises
<1>2. ASSUME NEW p \in Payloads, Log(p) \/ LogFails(p)
      PROVE  LastHashInv'
  <2> DEFINE e == Entry(last_hash, p)
  <2>1. /\ e \in Lines /\ Corrupt \in Lines
        /\ e.prev = last_hash
    BY EntryType DEF Lines, TypeOK
  <2>2. \/ file' = Written(e) /\ (last_hash' = e.hash \/ last_hash' = last_hash)
        \/ file' = Written(Corrupt)
        \/ file' = file /\ up' = up /\ last_hash' = last_hash
    BY <1>2 DEF Log, LogFails
  <2> HIDE DEF e
  <2>3. CASE file' = Written(e) /\ (last_hash' = e.hash \/ last_hash' = last_hash)
    <3>1. CASE ended
      <4>1. file'[Len(file')] = e /\ file' # << >>
        BY <2>1, <2>3, <3>1, WrittenLines, EmptyFacts DEF TypeOK, Lines
      <4> QED BY <2>1, <2>3, <4>1 DEF LastHashInv, LoadLastHash
    <3>2. CASE ~ended
      BY <1>1, <2>1, <2>3, <3>2 DEF LastHashInv
    <3> QED BY <3>1, <3>2
  <2>4. CASE file' = Written(Corrupt)
    BY <1>1, <2>1, <2>4 DEF LastHashInv
  <2>5. CASE file' = file /\ up' = up /\ last_hash' = last_hash
    BY <2>5 DEF LastHashInv, ReadRaises, LoadLastHash
  <2> QED BY <2>2, <2>3, <2>4, <2>5
<1>3. CASE Boot
  BY <1>3 DEF Boot, LastHashInv, LoadLastHash
<1>4. CASE Crash \/ PowerLoss
  BY <1>4 DEF Crash, PowerLoss, LastHashInv
<1>5. CASE Damage
  <2>1. PICK k \in 1 .. Len(file), p \in Payloads :
          /\ Len(file') = Len(file)
          /\ \A j \in 1 .. Len(file) : j # k => file'[j] = file[j]
          /\ \/ /\ file[k] \in Entries /\ file'[k] \in Entries
                /\ file'[k].hash = file[k].hash /\ file'[k].prev = file[k].prev
             \/ /\ file[k] \in Glued /\ file'[k] \in Glued
    BY <1>5, DamagedLines
  <2>2. ReadRaises => ReadRaises'
    BY <1>0, <2>1, LineKinds DEF ReadRaises
  <2>3. file # << >> /\ file' # << >> /\ Len(file) \in 1 .. Len(file)
    BY <1>0, <2>1, EmptyFacts DEF TypeOK, Lines
  <2>4. ~ReadRaises' => /\ file'[Len(file')].hash = file[Len(file)].hash
                        /\ file'[Len(file')].prev = file[Len(file)].prev
    <3>1. CASE k = Len(file)
      BY <1>0, <2>1, <3>1, LineKinds DEF ReadRaises
    <3>2. CASE k # Len(file)
      BY <1>0, <2>1, <2>3, <3>2
    <3> QED BY <3>1, <3>2
  <2> QED BY <1>5, <2>2, <2>3, <2>4 DEF Damage, LastHashInv, LoadLastHash
<1>6. CASE UNCHANGED vars
  BY <1>6 DEF vars, LastHashInv, ReadRaises, LoadLastHash
<1> QED BY <1>2, <1>3, <1>4, <1>5, <1>6 DEF Next

LEMMA NextIInv == IInv /\ [Next]_vars => IInv'
BY TypeStep, ChainStep, LastHashStep DEF IInv
-----------------------------------------------------------------------------
(* What the invariant gives.                                               *)

\* In a chain that verifies, the hash of an entry is the list of all payloads up
\* to it: the first entry for which it were not has a predecessor for which it is.
LEMMA HashIsHistory ==
  ASSUME TypeOK, ~ReadRaises, \A i \in DOMAIN file : Linked(i)
  PROVE  \A i \in 1 .. Len(file) :
           /\ Len(file[i].hash) = i
           /\ \A j \in 1 .. i : file[i].hash[j] = file[j].payload
<1> DEFINE Holds(i) == /\ Len(file[i].hash) = i
                       /\ \A j \in 1 .. i : file[i].hash[j] = file[j].payload
           Bad == {i \in 1 .. Len(file) : ~Holds(i)}
<1>0. /\ DOMAIN file = 1 .. Len(file) /\ Len(file) \in Nat
      /\ \A i \in 1 .. Len(file) : file[i] \in Entries
  BY FileDomain DEF ReadRaises
<1>1. ASSUME NEW i \in 1 .. Len(file), \A k \in 1 .. i - 1 : Holds(k)
      PROVE  Holds(i)
  <2>1. /\ file[i].prev \in Seq(Payloads) /\ file[i].payload \in Payloads
        /\ file[i].hash = Append(file[i].prev, file[i].payload)
        /\ file[i].prev = PrevHash(i)
        /\ i \in Nat \ {0}
    BY <1>0 DEF Entries, Hashes, Linked, Hash
  <2>2. /\ Len(file[i].prev) = i - 1
        /\ \A j \in 1 .. i - 1 : file[i].prev[j] = file[j].payload
    <3>1. CASE i = 1
      BY <3>1, <2>1, EmptySeq DEF PrevHash, Genesis
    <3>2. CASE i # 1
      <4>1. i - 1 \in 1 .. i - 1 /\ file[i].prev = file[i - 1].hash
        BY <3>2, <2>1 DEF PrevHash
      <4>2. Holds(i - 1)
        BY <4>1, <1>1
      <4> QED BY <4>1, <4>2
    <3> QED BY <3>1, <3>2
  <2>3. /\ Len(file[i].hash) = Len(file[i].prev) + 1
        /\ \A j \in 1 .. Len(file[i].prev) : file[i].hash[j] = file[i].prev[j]
        /\ file[i].hash[Len(file[i].prev) + 1] = file[i].payload
    BY <2>1, AppendProperties
  <2>4. ASSUME NEW j \in 1 .. i
        PROVE  file[i].hash[j] = file[j].payload
    <3>1. j \in 1 .. i - 1 \/ j = i
      BY <2>1
    <3> QED BY <3>1, <2>1, <2>2, <2>3
  <2> QED BY <2>1, <2>2, <2>3, <2>4
<1>2. Bad = {}
  <2> SUFFICES ASSUME Bad # {} PROVE FALSE
    OBVIOUS
  <2> HIDE DEF Holds
  <2>1. Bad \in SUBSET Nat
    BY <1>0
  <2>2. PICK m \in Bad : \A k \in Bad : m <= k
    <3> HIDE DEF Bad
    <3> QED BY <2>1, LeastNat
  <2>3. \A k \in 1 .. m - 1 : Holds(k)
    BY <1>0, <2>2
  <2>4. m \in 1 .. Len(file) /\ ~Holds(m)
    BY <2>2
  <2> QED BY <1>1, <2>3, <2>4
<1> QED BY <1>2

LEMMA IntactFacts ==
  ASSUME Verify = "intact"
  PROVE  ~ReadRaises /\ \A i \in DOMAIN file : Linked(i)
BY DEF Verify

LEMMA InvVerifiedIsHistory == IInv => VerifiedIsHistory
<1> SUFFICES ASSUME IInv, up, Verify = "intact"
             PROVE  \/ Contents = last_hash
                    \/ \E p \in Payloads : Contents = Append(last_hash, p)
  BY DEF VerifiedIsHistory
<1>0. /\ DOMAIN file = 1 .. Len(file) /\ Len(file) \in Nat
      /\ ~ReadRaises /\ \A i \in DOMAIN file : Linked(i)
      /\ \A i \in 1 .. Len(file) : file[i] \in Entries
  BY FileDomain, IntactFacts DEF IInv, ReadRaises
<1>1. Contents \in Seq(Payloads) /\ Len(Contents) = Len(file)
  <2>1. \A i \in 1 .. Len(file) : file[i].payload \in Payloads
    BY <1>0 DEF Entries
  <2>2. Contents \in [1 .. Len(file) -> Payloads]
    BY <1>0, <2>1 DEF Contents
  <2> QED BY <1>0, <2>2, SeqDef
<1>2. Contents = LoadLastHash
  <2>1. CASE file = << >>
    BY <1>0, <1>1, <2>1, EmptySeq DEF LoadLastHash, Genesis
  <2>2. CASE file # << >>
    <3>1. Len(file) \in 1 .. Len(file)
      BY <2>2, FileDomain DEF IInv
    <3>2. /\ file[Len(file)].hash \in Seq(Payloads)
          /\ Len(file[Len(file)].hash) = Len(Contents)
      BY <1>0, <1>1, <3>1, HashIsHistory DEF Entries, Hashes, IInv
    <3>3. \A j \in 1 .. Len(file) : file[Len(file)].hash[j] = Contents[j]
      BY <1>0, <3>1, HashIsHistory DEF Contents, IInv
    <3>4. Contents = file[Len(file)].hash
      BY <1>1, <3>2, <3>3, SeqEqual
    <3> QED BY <2>2, <3>4 DEF LoadLastHash
  <2> QED BY <2>1, <2>2
<1>3. CASE last_hash = LoadLastHash
  BY <1>2, <1>3
<1>4. CASE file # << >> /\ last_hash = file[Len(file)].prev
  <2>1. Len(file) \in 1 .. Len(file)
    BY <1>4, FileDomain DEF IInv
  <2>2. /\ file[Len(file)].payload \in Payloads
        /\ file[Len(file)].hash = Append(last_hash, file[Len(file)].payload)
    BY <1>0, <1>4, <2>1 DEF Linked, Hash, Entries
  <2>3. Contents = file[Len(file)].hash
    BY <1>2, <1>4 DEF LoadLastHash
  <2> QED BY <2>2, <2>3
<1> QED BY <1>0, <1>3, <1>4 DEF IInv, LastHashInv

LEMMA InvOnlyRetriesBreak == IInv => OnlyRetriesBreak
<1> SUFFICES ASSUME IInv, damage = 0, Verify = "broken", NEW i \in DOMAIN file
             PROVE  Linked(i) \/ Retried(i)
  BY DEF OnlyRetriesBreak
<1>1. \A j \in DOMAIN file : file[j] \in Entries
  BY DEF Verify, ReadRaises
<1>2. DOMAIN file = 1 .. Len(file) /\ Len(file) \in Nat
  BY FileDomain DEF IInv
<1>3. ReadableTo(i - 1)
  BY <1>1, <1>2 DEF ReadableTo
<1>4. Follows(i)
  BY <1>1, <1>3, LineKinds DEF IInv, ChainInv
<1>5. FirstEntry(file[i]) = file[i]
  BY <1>1, LineKinds DEF FirstEntry
<1> QED BY <1>4, <1>5 DEF Follows, Linked, Retried

-----------------------------------------------------------------------------
(* The refinement of AuditTrail.                                           *)

\* The readable records of f are its first k.
Cut(f, k) == /\ k \in 0 .. Len(f)
             /\ \A i \in 1 .. k : f[i] \in Entries
             /\ (k < Len(f)) => (f[k + 1] \notin Entries)

LEMMA CutExists ==
  ASSUME NEW f \in Seq(Lines)
  PROVE  \E k : Cut(f, k)
<1> DEFINE T == {i \in 1 .. Len(f) : f[i] \notin Entries}
<1>0. Len(f) \in Nat
  BY LenProperties
<1>1. CASE T = {}
  <2>1. Cut(f, Len(f))
    BY <1>0, <1>1 DEF Cut
  <2> QED BY <2>1
<1>2. CASE T # {}
  <2>1. T \in SUBSET Nat
    BY <1>0
  <2>2. PICK m \in T : \A i \in T : m <= i
    BY <1>2, <2>1, LeastNat
  <2>3. m \in 1 .. Len(f) /\ f[m] \notin Entries
    BY <2>2
  <2>4. \A i \in 1 .. m - 1 : f[i] \in Entries
    BY <1>0, <2>2, <2>3
  <2>5. m - 1 \in 0 .. Len(f) /\ m - 1 < Len(f) /\ (m - 1) + 1 = m
    BY <1>0, <2>3
  <2>6. Cut(f, m - 1)
    BY <2>3, <2>4, <2>5 DEF Cut
  <2> QED BY <2>6
<1> QED BY <1>1, <1>2

LEMMA CutUnique ==
  ASSUME NEW f \in Seq(Lines), NEW k, Cut(f, k)
  PROVE  /\ ReadLen(f) = k
         /\ ReadableIn(f) = [i \in 1 .. k |-> f[i].payload]
         /\ ReadableIn(f) \in Seq(Payloads)
         /\ Len(ReadableIn(f)) = k
         /\ \A i \in 1 .. k : ReadableIn(f)[i] = f[i].payload
<1> DEFINE good == {n \in 0 .. Len(f) : \A i \in 1 .. n : f[i] \in Entries}
<1>0. Len(f) \in Nat /\ k \in Nat /\ k <= Len(f)
  BY LenProperties DEF Cut
<1>1. k \in good
  BY DEF Cut
<1>2. ASSUME NEW m \in good PROVE m <= k
  <2>1. CASE k < Len(f)
    <3>1. f[k + 1] \notin Entries
      BY <2>1 DEF Cut
    <3>2. ~ (k + 1 \in 1 .. m)
      BY <1>2, <3>1
    <3> QED BY <1>0, <1>2, <3>2
  <2>2. CASE ~ (k < Len(f))
    BY <1>0, <1>2, <2>2
  <2> QED BY <2>1, <2>2
<1>3. \A n \in good : (\A m \in good : m <= n) => n = k
  BY <1>0, <1>1, <1>2
<1>4. k = CHOOSE n \in good : \A m \in good : m <= n
  <2> HIDE DEF good
  <2> QED BY <1>1, <1>2, <1>3
<1>5. ReadLen(f) = k
  BY <1>4 DEF ReadLen
<1>6. ReadableIn(f) = [i \in 1 .. k |-> f[i].payload]
  BY <1>5 DEF ReadableIn
<1>7. \A i \in 1 .. k : f[i].payload \in Payloads
  BY DEF Cut, Entries
<1>8. ReadableIn(f) \in [1 .. k -> Payloads]
  BY <1>6, <1>7
<1>9. ReadableIn(f) \in Seq(Payloads)
  BY <1>0, <1>8, SeqDef
<1> QED BY <1>0, <1>5, <1>6, <1>8, <1>9, LenProperties

\* The spoiled record, from the line after those that can be read.
LEMMA CutSpoiled ==
  ASSUME NEW f \in Seq(Lines), NEW k, Cut(f, k)
  PROVE  /\ k = Len(f) => SpoiledIn(f) = {}
         /\ k < Len(f) /\ f[k + 1] \in Glued => SpoiledIn(f) = {f[k + 1].head.payload}
         /\ k < Len(f) /\ f[k + 1] \notin Glued => SpoiledIn(f) = {}
<1>1. DOMAIN f = 1 .. Len(f) /\ Len(f) \in Nat /\ k \in Nat /\ k <= Len(f)
  BY LenProperties DEF Cut
<1>2. SpoiledIn(f) = {f[i].head.payload : i \in {j \in 1 .. Len(f) : j = k + 1 /\ f[j] \in Glued}}
  BY <1>1, CutUnique DEF SpoiledIn
<1>3. k = Len(f) => {j \in 1 .. Len(f) : j = k + 1 /\ f[j] \in Glued} = {}
  BY <1>1
<1>4. k < Len(f) /\ f[k + 1] \in Glued
        => {j \in 1 .. Len(f) : j = k + 1 /\ f[j] \in Glued} = {k + 1}
  BY <1>1
<1>5. k < Len(f) /\ f[k + 1] \notin Glued
        => {j \in 1 .. Len(f) : j = k + 1 /\ f[j] \in Glued} = {}
  BY <1>1
<1> QED BY <1>2, <1>3, <1>4, <1>5

\* A file that still holds the first l records, and no more, reads as their prefix.
LEMMA ReadsPrefix ==
  ASSUME NEW f \in Seq(Lines), NEW g \in Seq(Lines), NEW k, NEW l, Cut(f, k), Cut(g, l),
         l <= k, \A i \in 1 .. l : g[i] = f[i]
  PROVE  ReadableIn(g) = SubSeq(ReadableIn(f), 1, l)
<1> DEFINE s == ReadableIn(f)
<1>0. k \in Nat /\ l \in Nat
  BY LenProperties DEF Cut
<1>1. s \in Seq(Payloads) /\ Len(s) = k /\ \A i \in 1 .. k : s[i] = f[i].payload
  BY CutUnique
<1>2. /\ ReadableIn(g) \in Seq(Payloads) /\ Len(ReadableIn(g)) = l
      /\ \A i \in 1 .. l : ReadableIn(g)[i] = g[i].payload
  BY CutUnique
<1> HIDE DEF s
<1>3. SubSeq(s, 1, l) \in Seq(Payloads) /\ Len(SubSeq(s, 1, l)) = l
      /\ \A i \in 1 .. l : SubSeq(s, 1, l)[i] = s[i]
  <2>1. \A i \in 1 .. l : s[i] \in Payloads
    BY <1>0, <1>1, ElementOfSeq
  <2> QED BY <1>0, <1>1, <2>1, SubSeqProperties
<1>4. \A i \in 1 .. l : ReadableIn(g)[i] = SubSeq(s, 1, l)[i]
  BY <1>0, <1>1, <1>2, <1>3
<1>5. ReadableIn(g) = SubSeq(s, 1, l)
  BY <1>2, <1>3, <1>4, SeqEqual
<1> QED BY <1>5 DEF s

LEMMA FullPrefix ==
  ASSUME NEW f \in Seq(Lines), NEW k, Cut(f, k)
  PROVE  ReadableIn(f) = SubSeq(ReadableIn(f), 1, k)
<1>1. k <= k
  BY LenProperties DEF Cut
<1> QED BY <1>1, ReadsPrefix

\* A file whose first k lines stay, and whose next line still cannot be read or is not
\* there, reads as before.
LEMMA ReadsSame ==
  ASSUME NEW f \in Seq(Lines), NEW g \in Seq(Lines), NEW k, Cut(f, k), Cut(g, k),
         \A i \in 1 .. k : g[i] = f[i],
         k < Len(f), k < Len(g), f[k + 1] = g[k + 1]
  PROVE  ReadableIn(g) = ReadableIn(f) /\ SpoiledIn(g) = SpoiledIn(f)
<1>1. k <= k
  BY LenProperties DEF Cut
<1>2. ReadableIn(g) = ReadableIn(f)
  BY <1>1, ReadsPrefix, FullPrefix
<1>3. SpoiledIn(g) = SpoiledIn(f)
  BY CutSpoiled
<1> QED BY <1>2, <1>3

\* A file with one record more to read reads as the old one with it at the end.
LEMMA ReadsMore ==
  ASSUME NEW f \in Seq(Lines), NEW g \in Seq(Lines), NEW k, Cut(f, k), Cut(g, k + 1),
         \A i \in 1 .. k : g[i] = f[i]
  PROVE  ReadableIn(g) = Append(ReadableIn(f), g[k + 1].payload)
<1> DEFINE s == ReadableIn(f)
           t == ReadableIn(g)
           p == g[k + 1].payload
<1>0. k \in Nat /\ k + 1 \in 1 .. k + 1
  BY LenProperties DEF Cut
<1>1. s \in Seq(Payloads) /\ Len(s) = k /\ \A i \in 1 .. k : s[i] = f[i].payload
  BY CutUnique
<1>2. t \in Seq(Payloads) /\ Len(t) = k + 1 /\ \A i \in 1 .. k + 1 : t[i] = g[i].payload
  BY CutUnique
<1>3. p \in Payloads
  BY <1>0 DEF Cut, Entries
<1> HIDE DEF s, t, p
<1>4. /\ Append(s, p) \in Seq(Payloads) /\ Len(Append(s, p)) = k + 1
      /\ \A i \in 1 .. k : Append(s, p)[i] = s[i]
      /\ Append(s, p)[k + 1] = p
  <2>1. /\ Append(s, p) \in Seq(Payloads) /\ Len(Append(s, p)) = Len(s) + 1
        /\ \A i \in 1 .. Len(s) : Append(s, p)[i] = s[i]
        /\ Append(s, p)[Len(s) + 1] = p
    BY <1>1, <1>3, AppendProperties
  <2> QED BY <1>1, <2>1
<1>5. ASSUME NEW i \in 1 .. k + 1 PROVE t[i] = Append(s, p)[i]
  <2>1. CASE i = k + 1
    BY <1>2, <1>4, <2>1 DEF p
  <2>2. CASE i # k + 1
    <3>1. i \in 1 .. k
      BY <1>0, <2>2
    <3> QED BY <1>1, <1>2, <1>4, <3>1
  <2> QED BY <2>1, <2>2
<1>6. t = Append(s, p)
  BY <1>2, <1>4, <1>5, SeqEqual
<1> QED BY <1>6 DEF s, t, p

\* A line written where a line was unfinished spoils that line; one written after it
\* follows what can be read, if it is an entry itself.
LEMMA WriteReads ==
  ASSUME IInv, TypeOK', NEW line \in Entries \cup {Corrupt}, file' = Written(line)
  PROVE  \/ Readable' = Readable /\ Spoiled' = Spoiled
         \/ /\ Readable # << >> /\ Spoiled = {}
            /\ Readable' = SubSeq(Readable, 1, Len(Readable) - 1)
            /\ Spoiled' = {Readable[Len(Readable)]}
         \/ /\ line \in Entries /\ Spoiled = {} /\ Spoiled' = {}
            /\ Readable' = Append(Readable, line.payload)
<1>0. /\ file \in Seq(Lines) /\ file' \in Seq(Lines) /\ Len(file) \in Nat
      /\ line \in Lines
  BY LenProperties DEF IInv, TypeOK, Lines
<1>1. PICK k : Cut(file, k)
  BY <1>0, CutExists
<1>2. k \in Nat /\ k <= Len(file)
  BY <1>0, <1>1 DEF Cut
<1>3. /\ Len(file') = IF ended THEN Len(file) + 1 ELSE Len(file)
      /\ ended => /\ \A j \in 1 .. Len(file) : file'[j] = file[j]
                  /\ file'[Len(file) + 1] = line
      /\ ~ended => /\ \A j \in 1 .. Len(file) - 1 : file'[j] = file[j]
                   /\ Len(file) \in 1 .. Len(file)
                   /\ file[Len(file)] \in Lines
                   /\ file'[Len(file)] = Glue(file[Len(file)])
  BY <1>0, WrittenLines DEF IInv
<1>4. CASE k < Len(file)
  <2>1. \A j \in 1 .. k : file'[j] = file[j] /\ file[j] \in Entries
    BY <1>0, <1>1, <1>2, <1>3, <1>4 DEF Cut
  <2>2. file[k + 1] \notin Entries
    BY <1>1, <1>4 DEF Cut
  <2>3. k < Len(file') /\ file'[k + 1] = file[k + 1]
    <3>1. CASE ended
      BY <1>0, <1>2, <1>3, <1>4, <3>1
    <3>2. CASE ~ended /\ k + 1 = Len(file)
      BY <1>0, <1>2, <1>3, <1>4, <2>2, <3>2, GlueFacts
    <3>3. CASE ~ended /\ k + 1 # Len(file)
      BY <1>0, <1>2, <1>3, <1>4, <3>3
    <3> QED BY <3>1, <3>2, <3>3
  <2>4. Cut(file', k)
    BY <1>0, <1>2, <1>3, <2>1, <2>2, <2>3 DEF Cut
  <2> QED BY <1>0, <1>1, <1>4, <2>1, <2>3, <2>4, ReadsSame DEF Readable, Spoiled
<1>5. CASE k = Len(file) /\ ~ended
  <2>1. /\ k \in 1 .. k /\ file[k] \in Entries
        /\ file'[k] \in Glued /\ file'[k].head = file[k] /\ file'[k] \notin Entries
    BY <1>1, <1>3, <1>5, GlueFacts DEF Cut
  <2>2. k - 1 \in Nat /\ k - 1 < Len(file') /\ (k - 1) + 1 = k /\ k - 1 <= k
    BY <1>2, <1>3, <1>5, <2>1
  <2>3. Cut(file', k - 1)
    <3>1. \A j \in 1 .. k - 1 : file'[j] \in Entries
      BY <1>1, <1>2, <1>3, <1>5 DEF Cut
    <3> QED BY <2>1, <2>2, <3>1 DEF Cut
  <2>4. /\ Readable \in Seq(Payloads) /\ Len(Readable) = k
        /\ Readable[k] = file[k].payload
    BY <1>0, <1>1, <2>1, CutUnique DEF Readable
  <2>5. Readable' = SubSeq(Readable, 1, k - 1)
    <3>1. \A j \in 1 .. k - 1 : file'[j] = file[j]
      BY <1>3, <1>5
    <3> QED BY <1>0, <1>1, <2>2, <2>3, <3>1, ReadsPrefix DEF Readable
  <2>6. Spoiled = {}
    BY <1>0, <1>1, <1>5, CutSpoiled DEF Spoiled
  <2>7. Spoiled' = {Readable[k]}
    BY <1>0, <2>1, <2>2, <2>3, <2>4, CutSpoiled DEF Spoiled
  <2>8. Readable # << >>
    BY <2>1, <2>4, EmptySeq
  <2> QED BY <2>4, <2>5, <2>6, <2>7, <2>8
<1>6. CASE k = Len(file) /\ ended
  <2>1. Spoiled = {}
    BY <1>0, <1>1, <1>6, CutSpoiled DEF Spoiled
  <2>2. /\ Len(file') = k + 1 /\ file'[k + 1] = line
        /\ \A j \in 1 .. k : file'[j] = file[j] /\ file'[j] \in Entries
    BY <1>1, <1>3, <1>6 DEF Cut
  <2>3. CASE line \notin Entries
    <3>1. line = Corrupt
      BY <2>3
    <3>2. Cut(file', k) /\ k < Len(file') /\ file'[k + 1] \notin Glued /\ k <= k
      BY <1>2, <2>2, <2>3, <3>1, LineKinds DEF Cut
    <3>3. Readable' = Readable
      <4>1. Readable' = SubSeq(Readable, 1, k)
        BY <1>0, <1>1, <2>2, <3>2, ReadsPrefix DEF Readable
      <4>2. Readable = SubSeq(Readable, 1, k)
        BY <1>0, <1>1, FullPrefix DEF Readable
      <4> QED BY <4>1, <4>2
    <3>4. Spoiled' = {}
      BY <1>0, <3>2, CutSpoiled DEF Spoiled
    <3> QED BY <2>1, <3>3, <3>4
  <2>4. CASE line \in Entries
    <3>1. Cut(file', k + 1)
      <4>1. k + 1 \in 0 .. Len(file') /\ ~ (k + 1 < Len(file'))
        BY <1>2, <2>2
      <4>2. \A j \in 1 .. k + 1 : file'[j] \in Entries
        BY <1>2, <2>2, <2>4
      <4> QED BY <4>1, <4>2 DEF Cut
    <3>2. Readable' = Append(Readable, line.payload)
      BY <1>0, <1>1, <2>2, <3>1, ReadsMore DEF Readable
    <3>3. Spoiled' = {}
      BY <1>0, <2>2, <3>1, CutSpoiled DEF Spoiled
    <3> QED BY <2>1, <2>4, <3>2, <3>3
  <2> QED BY <2>3, <2>4
<1> QED BY <1>2, <1>4, <1>5, <1>6 DEF IInv, TypeOK

\* A loss of power leaves what can be read as it was, or takes records off its end, or
\* brings the spoiled record back.
LEMMA CutReads ==
  ASSUME IInv, TypeOK', PowerLoss
  PROVE  \/ Readable' = Readable /\ Spoiled' = Spoiled
         \/ /\ \E l \in 0 .. Len(Readable) : Readable' = SubSeq(Readable, 1, l)
            /\ Spoiled' = {}
         \/ /\ \E r \in Spoiled : Readable' = Append(Readable, r)
            /\ Spoiled' = {}
<1>0. file \in Seq(Lines) /\ file' \in Seq(Lines) /\ Len(file) \in Nat
  BY LenProperties DEF IInv, TypeOK, Lines
<1>1. PICK k : Cut(file, k)
  BY <1>0, CutExists
<1>2. PICK n \in 0 .. Len(file) :
        /\ Len(file') = n
        /\ \A j \in 1 .. n : j < n => file'[j] = file[j]
        /\ n > 0 => file[n] \in Lines /\ file'[n] \in CutTo(file[n])
  BY CutLines DEF IInv
<1>3. /\ k \in Nat /\ n \in Nat /\ k <= Len(file) /\ n <= Len(file)
      /\ \A j \in 1 .. k : file[j] \in Entries
      /\ k < Len(file) => file[k + 1] \notin Entries
      /\ Len(Readable) = k
  BY <1>0, <1>1, <1>2, CutUnique DEF Cut, Readable
\* The end of what can be read comes to lie at l, with nothing spoiled behind it.
<1>4. ASSUME NEW l \in 0 .. k, Cut(file', l), \A j \in 1 .. l : file'[j] = file[j],
             l < Len(file') => file'[l + 1] \notin Glued
      PROVE  /\ \E m \in 0 .. Len(Readable) : Readable' = SubSeq(Readable, 1, m)
             /\ Spoiled' = {}
  <2>1. Readable' = SubSeq(Readable, 1, l)
    <3>1. l <= k
      BY <1>3, <1>4
    <3> QED BY <1>0, <1>1, <1>4, <3>1, ReadsPrefix DEF Readable
  <2>2. l = Len(file') \/ l < Len(file')
    BY <1>2, <1>3, <1>4 DEF Cut
  <2>3. Spoiled' = {}
    BY <1>0, <1>4, <2>2, CutSpoiled DEF Spoiled
  <2> QED BY <1>3, <2>1, <2>3
<1>5. CASE n > k + 1
  <2>1. /\ \A j \in 1 .. k : file'[j] = file[j]
        /\ k < Len(file) /\ k < Len(file') /\ file'[k + 1] = file[k + 1]
    BY <1>2, <1>3, <1>5
  <2>2. Cut(file', k)
    BY <1>2, <1>3, <1>5, <2>1 DEF Cut
  <2> QED BY <1>0, <1>1, <2>1, <2>2, ReadsSame DEF Readable, Spoiled
<1>6. CASE n = k + 1
  <2>1. /\ \A j \in 1 .. k : file'[j] = file[j] /\ file'[j] \in Entries
        /\ k < Len(file) /\ k < Len(file') /\ Len(file') = k + 1
        /\ file[k + 1] \in Lines /\ file[k + 1] \notin Entries
        /\ file'[k + 1] \in CutTo(file[k + 1])
    BY <1>2, <1>3, <1>6
  <2>2. \/ file'[k + 1] = file[k + 1]
        \/ file'[k + 1] = Corrupt
        \/ file[k + 1] \in Glued /\ file'[k + 1] = file[k + 1].head /\ file'[k + 1] \in Entries
    BY <2>1, CutToFacts
  <2>3. CASE file'[k + 1] = file[k + 1]
    <3>1. Cut(file', k)
      BY <1>3, <2>1, <2>3 DEF Cut
    <3> QED BY <1>0, <1>1, <2>1, <2>3, <3>1, ReadsSame DEF Readable, Spoiled
  <2>4. CASE file'[k + 1] = Corrupt
    <3>1. Cut(file', k) /\ file'[k + 1] \notin Glued
      BY <1>3, <2>1, <2>4, LineKinds DEF Cut
    <3>2. k \in 0 .. k
      BY <1>3
    <3> QED BY <1>4, <2>1, <3>1, <3>2
  <2>5. CASE file[k + 1] \in Glued /\ file'[k + 1] = file[k + 1].head /\ file'[k + 1] \in Entries
    <3>1. Cut(file', k + 1)
      <4>1. k + 1 \in 0 .. Len(file') /\ ~ (k + 1 < Len(file'))
        BY <1>3, <2>1
      <4>2. \A j \in 1 .. k + 1 : file'[j] \in Entries
        BY <1>3, <2>1, <2>5
      <4> QED BY <4>1, <4>2 DEF Cut
    <3>2. Readable' = Append(Readable, file[k + 1].head.payload)
      BY <1>0, <1>1, <2>1, <2>5, <3>1, ReadsMore DEF Readable
    <3>3. Spoiled' = {}
      BY <1>0, <2>1, <3>1, CutSpoiled DEF Spoiled
    <3>4. Spoiled = {file[k + 1].head.payload}
      BY <1>0, <1>1, <2>1, <2>5, CutSpoiled DEF Spoiled
    <3> QED BY <3>2, <3>3, <3>4
  <2> QED BY <2>2, <2>3, <2>4, <2>5
<1>7. CASE n <= k
  <2>1. CASE n = 0 \/ file'[n] = file[n]
    <3>1. \A j \in 1 .. n : file'[j] = file[j]
      BY <1>2, <1>3, <2>1
    <3>2. Cut(file', n)
      BY <1>2, <1>3, <1>7, <3>1 DEF Cut
    <3>3. n \in 0 .. k /\ ~ (n < Len(file'))
      BY <1>2, <1>3, <1>7
    <3> QED BY <1>4, <3>1, <3>2, <3>3
  <2>2. CASE n # 0 /\ file'[n] # file[n]
    <3>1. /\ n \in 1 .. k /\ file[n] \in Entries /\ file[n] \in Lines
          /\ file'[n] \in CutTo(file[n])
      BY <1>2, <1>3, <1>7, <2>2
    <3>2. file'[n] = Corrupt
      BY <2>2, <3>1, CutToFacts, LineKinds
    <3>3. /\ n - 1 \in 0 .. k /\ (n - 1) + 1 = n /\ n - 1 \in 0 .. Len(file')
          /\ \A j \in 1 .. n - 1 : file'[j] = file[j] /\ file'[j] \in Entries
      BY <1>2, <1>3, <1>7, <3>1
    <3>4. Cut(file', n - 1) /\ file'[(n - 1) + 1] \notin Glued
      BY <3>2, <3>3, LineKinds DEF Cut
    <3> QED BY <1>4, <3>3, <3>4
  <2> QED BY <2>1, <2>2
<1> QED BY <1>3, <1>5, <1>6, <1>7

\* An alteration changes one record that can be read, the spoiled one, or none.
LEMMA DamageReads ==
  ASSUME IInv, TypeOK', Damage
  PROVE  \/ /\ \E i \in DOMAIN Readable, p \in Payloads : Readable' = [Readable EXCEPT ![i] = p]
            /\ Spoiled' = Spoiled
         \/ /\ Readable' = Readable /\ Spoiled # {}
            /\ \E p \in Payloads : Spoiled' = {p}
         \/ Readable' = Readable /\ Spoiled' = Spoiled
<1>0. file \in Seq(Lines) /\ file' \in Seq(Lines) /\ Len(file) \in Nat
  BY LenProperties DEF IInv, TypeOK, Lines
<1>1. PICK k : Cut(file, k)
  BY <1>0, CutExists
<1>2. PICK i \in 1 .. Len(file), p \in Payloads :
        /\ Len(file') = Len(file)
        /\ \A j \in 1 .. Len(file) : j # i => file'[j] = file[j]
        /\ \/ /\ file[i] \in Entries /\ file'[i] \in Entries
              /\ file'[i].payload = p
           \/ /\ file[i] \in Glued /\ file'[i] \in Glued
              /\ file'[i].head.payload = p
  BY DamagedLines DEF IInv
<1>3. /\ k \in Nat /\ k <= Len(file)
      /\ \A j \in 1 .. k : file[j] \in Entries
      /\ k < Len(file) => file[k + 1] \notin Entries
  BY <1>0, <1>1 DEF Cut
<1>4. Cut(file', k)
  <2>1. \A j \in 1 .. k : file'[j] \in Entries
    BY <1>0, <1>2, <1>3, LineKinds
  <2>2. (k < Len(file')) => (file'[k + 1] \notin Entries)
    <3> SUFFICES ASSUME k < Len(file) PROVE file'[k + 1] \notin Entries
      BY <1>2
    <3>1. k + 1 \in 1 .. Len(file) /\ file[k + 1] \notin Entries
      BY <1>0, <1>3
    <3> QED BY <1>2, <3>1, LineKinds
  <2> QED BY <1>0, <1>2, <1>3, <2>1, <2>2 DEF Cut
<1>5. /\ Readable = [j \in 1 .. k |-> file[j].payload]
      /\ Readable' = [j \in 1 .. k |-> file'[j].payload]
  BY <1>0, <1>1, <1>4, CutUnique DEF Readable
<1>6. i # k + 1 => Spoiled' = Spoiled
  <2> SUFFICES ASSUME i # k + 1 PROVE Spoiled' = Spoiled
    OBVIOUS
  <2>1. CASE k = Len(file)
    BY <1>0, <1>1, <1>2, <1>4, <2>1, CutSpoiled DEF Spoiled
  <2>2. CASE k < Len(file)
    <3>1. file'[k + 1] = file[k + 1] /\ k < Len(file')
      BY <1>0, <1>2, <1>3, <2>2
    <3> QED BY <1>0, <1>1, <1>4, <2>2, <3>1, CutSpoiled DEF Spoiled
  <2> QED BY <1>0, <1>3, <2>1, <2>2
<1>7. CASE i \in 1 .. k
  <2>1. file'[i].payload = p
    BY <1>2, <1>3, <1>7, LineKinds
  <2>2. \A j \in 1 .. k : file'[j].payload = IF j = i THEN p ELSE file[j].payload
    BY <1>0, <1>2, <1>3, <2>1
  <2>3. Readable' = [j \in 1 .. k |-> IF j = i THEN p ELSE file[j].payload]
    BY <1>5, <2>2
  <2>4. Readable' = [Readable EXCEPT ![i] = p]
    BY <1>5, <2>3
  <2>5. i # k + 1
    BY <1>3, <1>7
  <2> QED BY <1>2, <1>5, <1>6, <1>7, <2>4, <2>5
<1>8. CASE i \notin 1 .. k
  <2>1. \A j \in 1 .. k : file'[j].payload = file[j].payload
    BY <1>0, <1>2, <1>3, <1>8
  <2>2. Readable' = Readable
    BY <1>5, <2>1
  <2>3. CASE i = k + 1
    <3>1. /\ k < Len(file) /\ k < Len(file')
          /\ file[k + 1] \in Glued /\ file'[k + 1] \in Glued
          /\ file'[k + 1].head.payload = p
      BY <1>0, <1>2, <1>3, <2>3
    <3>2. Spoiled # {} /\ Spoiled' = {p}
      BY <1>0, <1>1, <1>4, <3>1, CutSpoiled DEF Spoiled
    <3> QED BY <1>2, <2>2, <3>2
  <2> QED BY <1>6, <2>2, <2>3
<1> QED BY <1>7, <1>8

LEMMA TrailInit == Init => Trail!Init
<1> SUFFICES ASSUME Init PROVE Trail!Init
  OBVIOUS
<1>1. file = << >> /\ file \in Seq(Lines)
  BY EmptyFacts DEF Init
<1>2. Cut(file, 0) /\ Len(file) = 0
  BY <1>1, EmptySeq DEF Cut
<1>3. Readable \in Seq(Payloads) /\ Len(Readable) = 0
  BY <1>1, <1>2, CutUnique DEF Readable
<1>4. Readable = << >>
  BY <1>3, EmptySeq
<1>5. Spoiled = {}
  BY <1>1, <1>2, CutSpoiled DEF Spoiled
<1> QED BY <1>4, <1>5 DEF Init, Trail!Init

LEMMA TrailStep ==
  ASSUME IInv, TypeOK', [Next]_vars
  PROVE  [Trail!Next]_(Trail!vars)
<1> USE DEF Trail!Next, Trail!vars
<1>1. (file' = file) => (Readable' = Readable /\ Spoiled' = Spoiled)
  BY DEF Readable, Spoiled
<1>2. CASE Boot
  BY <1>1, <1>2 DEF Boot, Trail!Start
<1>3. ASSUME NEW p \in Payloads, Log(p) \/ LogFails(p)
      PROVE  [Trail!Next]_(Trail!vars)
  <2> DEFINE e == Entry(last_hash, p)
  <2>1. e \in Entries /\ e.payload = p
    BY EntryType DEF IInv, TypeOK
  <2>2. /\ file' = Written(e) \/ file' = Written(Corrupt) \/ file' = file
        /\ up /\ up' = up /\ damage' = damage
    BY <1>3 DEF Log, LogFails
  <2>3. \/ Readable' = Readable /\ Spoiled' = Spoiled
        \/ /\ Readable # << >> /\ Spoiled = {}
           /\ Readable' = SubSeq(Readable, 1, Len(Readable) - 1)
           /\ Spoiled' = {Readable[Len(Readable)]}
        \/ /\ Spoiled = {} /\ Spoiled' = {}
           /\ Readable' = Append(Readable, p)
    <3> HIDE DEF e
    <3>1. CASE file' = Written(e)
      BY <2>1, <3>1, WriteReads
    <3>2. CASE file' = Written(Corrupt)
      BY <3>2, WriteReads, LineKinds
    <3> QED BY <1>1, <2>2, <3>1, <3>2
  <2> QED BY <2>2, <2>3 DEF Trail!Record, Trail!LoseNewest, Trail!Prefix
<1>4. CASE Crash
  BY <1>1, <1>4 DEF Crash, Trail!Stop
<1>5. CASE PowerLoss
  <2>1. \/ Readable' = Readable /\ Spoiled' = Spoiled
        \/ /\ \E l \in 0 .. Len(Readable) : Readable' = SubSeq(Readable, 1, l)
           /\ Spoiled' = {}
        \/ /\ \E r \in Spoiled : Readable' = Append(Readable, r)
           /\ Spoiled' = {}
    BY <1>5, CutReads
  <2> QED BY <1>5, <2>1 DEF PowerLoss, Trail!Stop, Trail!Prefix
<1>6. CASE Damage
  <2>1. \/ /\ \E i \in DOMAIN Readable, p \in Payloads : Readable' = [Readable EXCEPT ![i] = p]
           /\ Spoiled' = Spoiled
        \/ /\ Readable' = Readable /\ Spoiled # {}
           /\ \E p \in Payloads : Spoiled' = {p}
        \/ Readable' = Readable /\ Spoiled' = Spoiled
    BY <1>6, DamageReads
  <2> QED BY <1>6, <2>1 DEF Damage, Trail!Alter
<1>7. CASE UNCHANGED vars
  BY <1>1, <1>7 DEF vars
<1> QED BY <1>2, <1>3, <1>4, <1>5, <1>6, <1>7 DEF Next

-----------------------------------------------------------------------------
(* A chain that no longer verifies.                                        *)

\* What verify() finds fault with.
Faulty(i) == file[i] \notin Entries \/ ~Linked(i)

LEMMA FaultyLine == Verify # "intact" <=> \E i \in DOMAIN file : Faulty(i)
BY DEF Verify, ReadRaises, Faulty

\* A faulty line stays faulty as long as the lines up to it stay.
LEMMA FaultyStays ==
  ASSUME NEW i \in Nat \ {0}, \A j \in 1 .. i : file'[j] = file[j], Faulty(i)
  PROVE  Faulty(i)'
<1>1. file'[i] = file[i]
  OBVIOUS
<1>2. i # 1 => file'[i - 1] = file[i - 1]
  OBVIOUS
<1> QED BY <1>1, <1>2 DEF Faulty, Linked, PrevHash

\* A file from which nothing has been taken, and that nobody altered, has all its
\* lines still, or one that is not an entry.
LEMMA LinesStay ==
  ASSUME TypeOK, TypeOK', [Next]_vars, NothingTaken
  PROVE  \/ \A j \in 1 .. Len(file) : file'[j] = file[j]
         \/ \E j \in 1 .. Len(file') : file'[j] \notin Entries
<1>0. /\ Len(file) \in Nat /\ Len(file') \in Nat
      /\ DOMAIN file = 1 .. Len(file)
      /\ Corrupt \in Lines
  BY FileDomain, LenProperties DEF TypeOK, Lines
<1>1. ASSUME NEW line \in Lines, file' = Written(line)
      PROVE  \/ \A j \in 1 .. Len(file) : file'[j] = file[j]
             \/ \E j \in 1 .. Len(file') : file'[j] \notin Entries
  <2>1. CASE ended
    BY <1>1, <2>1, WrittenLines
  <2>2. CASE ~ended
    <3>1. /\ Len(file') = Len(file) /\ Len(file) \in 1 .. Len(file)
          /\ file[Len(file)] \in Lines /\ file'[Len(file)] = Glue(file[Len(file)])
      BY <1>1, <2>2, WrittenLines
    <3>2. file'[Len(file)] \notin Entries
      BY <3>1, GlueFacts
    <3> QED BY <3>1, <3>2
  <2> QED BY <2>1, <2>2
<1>2. ASSUME NEW p \in Payloads, Log(p) \/ LogFails(p)
      PROVE  \/ \A j \in 1 .. Len(file) : file'[j] = file[j]
             \/ \E j \in 1 .. Len(file') : file'[j] \notin Entries
  <2>1. \/ file' = Written(Entry(last_hash, p))
        \/ file' = Written(Corrupt)
        \/ file' = file
    BY <1>2 DEF Log, LogFails
  <2>2. Entry(last_hash, p) \in Lines
    BY EntryType DEF Lines, TypeOK
  <2> QED BY <1>0, <1>1, <2>1, <2>2
<1>3. CASE Boot \/ Crash \/ UNCHANGED vars
  BY <1>3 DEF Boot, Crash, vars
<1>4. CASE PowerLoss
  <2>1. PICK n \in 0 .. Len(file) :
          /\ Len(file') = n
          /\ \A j \in 1 .. n : j < n => file'[j] = file[j]
          /\ n > 0 => file[n] \in Lines /\ file'[n] \in CutTo(file[n])
    BY <1>4, CutLines
  <2>2. n = Len(file)
    BY <1>0, <2>1 DEF NothingTaken
  <2>3. n > 0 => n \in DOMAIN file /\ n \in 1 .. n
    BY <1>0, <2>2
  <2>4. n > 0 => file'[n] = file[n] \/ file'[n] \notin Entries
    BY <2>1, <2>3, CutToFacts, LineKinds DEF NothingTaken
  <2>5. n \in Nat
    BY <1>0, <2>2
  <2>6. CASE n > 0 /\ file'[n] \notin Entries
    BY <2>1, <2>3, <2>6
  <2>7. CASE n = 0 \/ file'[n] = file[n]
    <3>1. ASSUME NEW j \in 1 .. n PROVE file'[j] = file[j]
      <4>1. j < n \/ j = n
        BY <2>5
      <4> QED BY <2>1, <2>5, <2>7, <4>1
    <3> QED BY <2>2, <3>1
  <2> QED BY <2>4, <2>5, <2>6, <2>7
<1>5. CASE Damage
  BY <1>5 DEF Damage, TypeOK, NothingTaken
<1> QED BY <1>2, <1>3, <1>4, <1>5 DEF Next

LEMMA LaunderStep ==
  ASSUME TypeOK, TypeOK', [Next]_vars
  PROVE  (Verify # "intact" /\ NothingTaken) => Verify' # "intact"
<1> SUFFICES ASSUME Verify # "intact", NothingTaken
             PROVE  Verify' # "intact"
  OBVIOUS
<1>0. /\ DOMAIN file = 1 .. Len(file) /\ Len(file) \in Nat
      /\ DOMAIN file' = 1 .. Len(file') /\ Len(file') \in Nat
      /\ Len(file') >= Len(file)
  BY LenProperties DEF TypeOK, NothingTaken
<1>1. PICK i \in DOMAIN file : Faulty(i)
  BY FaultyLine
<1>2. CASE \A j \in 1 .. Len(file) : file'[j] = file[j]
  <2>1. i \in Nat \ {0} /\ \A j \in 1 .. i : file'[j] = file[j]
    BY <1>0, <1>2
  <2>2. Faulty(i)' /\ i \in DOMAIN file'
    BY <1>0, <1>1, <2>1, FaultyStays
  <2> QED BY <2>2 DEF Verify, ReadRaises, Faulty
<1>3. CASE \E j \in 1 .. Len(file') : file'[j] \notin Entries
  BY <1>0, <1>3 DEF Verify, ReadRaises
<1> QED BY <1>2, <1>3, LinesStay

-----------------------------------------------------------------------------
(* The theorems.                                                           *)

LEMMA Invariance == Spec => []IInv
BY InitIInv, NextIInv, PTL DEF Spec

\* The variables keep their types, and only a file that is not empty can lack the
\* newline at its end.
THEOREM TypeCorrect == Spec => []TypeOK
<1>1. IInv => TypeOK
  BY DEF IInv
<1> QED BY <1>1, Invariance, PTL

\* Whatever fails, in whatever order and however often: in a file nobody altered,
\* every entry at which verify() finds the chain broken names the predecessor of the
\* entry before it, as the entry after a write that raised when the file was closed
\* does (logger.py:107-127).
THEOREM AlarmsExplained == Spec => []OnlyRetriesBreak
BY Invariance, InvOnlyRetriesBreak, PTL

\* A log that verifies while a process writes to it says exactly what that process's
\* last hash stands for, or one entry more, also after alterations and losses.
THEOREM VerifiedHistory == Spec => []VerifiedIsHistory
BY Invariance, InvVerifiedIsHistory, PTL

\* A chain that does not verify stays so while nothing is taken off the file and
\* nobody alters it: no restart, write or failure on top of it, in whatever order,
\* makes verify() answer "intact" again.
THEOREM NothingLaundered == Spec => NeverLaundered
<1>1. IInv /\ IInv' /\ [Next]_vars =>
        [ (Verify # "intact" /\ NothingTaken) => Verify' # "intact" ]_vars
  BY LaunderStep DEF IInv
<1> QED BY Invariance, <1>1, PTL DEF Spec, NeverLaundered

\* The log with its file, hashes and failures implements the append-only trail: every
\* step of it records one thing, spoils the newest, takes from the end, brings back
\* what was spoiled, stops, alters or changes nothing.
THEOREM TrailImplemented == Spec => ImplementsTrail
<1>1. IInv /\ IInv' /\ [Next]_vars => [Trail!Next]_(Trail!vars)
  BY TrailStep DEF IInv
<1> QED BY Invariance, TrailInit, <1>1, PTL DEF Spec, ImplementsTrail, Trail!Spec
=============================================================================
