------------------------------ MODULE AuditLog ------------------------------
(***************************************************************************)
(* src/audit/logger.py: the hash-chained JSONL audit log, with the         *)
(* failures its file can meet, and the start-up check of src/main.py.      *)
(*                                                                         *)
(* The file is the sequence of its lines.  Every line but the last is      *)
(* followed by a newline; the last one is when "ended" is TRUE.  A line    *)
(* holds one entry, or something json.loads refuses: it is Glued (a whole  *)
(* entry with the bytes of later writes behind it) or Corrupt (it starts   *)
(* with a part of an entry).  A write that fails half-way leaves a Corrupt *)
(* line, or a whole entry without its newline, to which the next write is  *)
(* then appended; a file cut back far enough shows that entry again.       *)
(*                                                                         *)
(* SHA-256 is taken to be free of collisions: the hash of a payload and a  *)
(* previous hash is the sequence of the payloads that led to it.           *)
(***************************************************************************)
EXTENDS Integers, Sequences

CONSTANTS Payloads,      \* what an entry says (user, role, action, decision, ...)
          Corrupt,       \* a line that is not JSON
          MaxLines,      \* bound: lines in the file
          MaxFaults,     \* bound: failed writes and stops
          MaxDamage      \* bound: alterations of a stored line from outside

VARIABLES file,          \* the lines of log_path; << >> when it does not exist
          ended,         \* does the file end with a newline (or is it empty)?
          up,            \* has a process built its AuditLogger?
          last_hash,     \* AuditLogger._last_hash of that process
          faults,        \* failed writes and stops so far
          damage         \* alterations so far

vars == <<file, ended, up, last_hash, faults, damage>>

Hashes  == Seq(Payloads)
Genesis == << >>
Hash(prev, payload) == Append(prev, payload)

Entries == [prev : Hashes, payload : Payloads, hash : Hashes]

ASSUME BoundsAssumption == /\ MaxLines \in Nat
                           /\ MaxFaults \in Nat
                           /\ MaxDamage \in Nat

\* A line that starts with a whole entry and goes on with other bytes.
Glued == [head : Entries]

ASSUME CorruptAssumption == Corrupt \notin Entries \cup Glued

Entry(prev, payload) ==
  [prev |-> prev, payload |-> payload, hash |-> Hash(prev, payload)]

-----------------------------------------------------------------------------
(* Reading.                                                                *)

\* _read_entries raises on the first line that is not one JSON value.
ReadRaises == \E i \in DOMAIN file : file[i] \notin Entries

\* Mutant of LoadLastHash: the newest entry itself, as get_entries(1) gives it.
MutantLoadLastHash == IF file = << >> THEN Genesis ELSE <<file[Len(file)]>>

\* _load_last_hash: entries[-1]["entry_hash"], or the genesis hash.
LoadLastHash == IF file = << >> THEN Genesis ELSE file[Len(file)].hash

\* What an entry of the file must name as its prev_hash.
PrevHash(i) == IF i = 1 THEN Genesis ELSE file[i - 1].hash

Linked(i) == /\ file[i].prev = PrevHash(i)
             /\ file[i].hash = Hash(file[i].prev, file[i].payload)

\* Mutant of Verify: only the newest entry is verified.
MutantVerify == IF ReadRaises THEN "raises"
                ELSE IF file = << >> \/ Linked(Len(file)) THEN "intact"
                ELSE "broken"

\* What verify() answers; /audit/verify and verify_or_raise go through it.
Verify == IF ReadRaises THEN "raises"
          ELSE IF \A i \in DOMAIN file : Linked(i) THEN "intact"
          ELSE "broken"

-----------------------------------------------------------------------------
(* Writing.                                                                *)

Bounded(f) == Len(f) <= MaxLines

\* Mutant of Written: the file is opened for writing, not for appending.
MutantWritten(line) == <<line>>

\* A line with the bytes of a further write behind it.
Glue(line) == IF line \in Entries THEN [head |-> line] ELSE line

\* The file after "line" is written in append mode: it lands on the last line when
\* the file does not end with a newline.
Written(line) == IF ended THEN Append(file, line)
                 ELSE [file EXCEPT ![Len(file)] = Glue(@)]

\* log(): the entry is written, and only then _last_hash moves.
Log(p) ==
  LET e == Entry(last_hash, p)
  IN  /\ up
      /\ file' = Written(e)
      /\ Bounded(file')
      /\ ended' = TRUE
      /\ last_hash' = e.hash
      /\ UNCHANGED <<up, faults, damage>>

\* Mutant of LogFails: _last_hash is moved before the write.
MutantLogFails(p) ==
  LET e == Entry(last_hash, p)
  IN  /\ up
      /\ faults < MaxFaults
      /\ faults' = faults + 1
      /\ \/ file' = Written(e) /\ ended' \in BOOLEAN
         \/ file' = Written(Corrupt) /\ ended' = FALSE
         \/ UNCHANGED <<file, ended>>
      /\ Bounded(file')
      /\ last_hash' = e.hash
      /\ UNCHANGED <<up, damage>>

\* log() raises from write or close (a full disk): nothing, a part of the line, all
\* of it but the newline, or all of it is in the file, and _last_hash has not moved.
LogFails(p) ==
  LET e == Entry(last_hash, p)
  IN  /\ up
      /\ faults < MaxFaults
      /\ faults' = faults + 1
      /\ \/ file' = Written(e) /\ ended' \in BOOLEAN
         \/ file' = Written(Corrupt) /\ ended' = FALSE
         \/ UNCHANGED <<file, ended>>
      /\ Bounded(file')
      /\ UNCHANGED <<up, last_hash, damage>>

-----------------------------------------------------------------------------
(* The process and the machine.                                            *)

\* Mutant of Boot: _last_hash is not loaded from the file.
MutantBoot == /\ ~up
              /\ ~ReadRaises
              /\ up' = TRUE
              /\ last_hash' = Genesis
              /\ UNCHANGED <<file, ended, faults, damage>>

\* The lifespan handler: the constructor raises on a line that is not JSON (no
\* process), and a chain that does not verify is reported and then accepted.
Boot == /\ ~up
        /\ ~ReadRaises
        /\ up' = TRUE
        /\ last_hash' = LoadLastHash
        /\ UNCHANGED <<file, ended, faults, damage>>

\* The process ends; what it wrote is in the file.
Crash == /\ up
         /\ faults < MaxFaults
         /\ faults' = faults + 1
         /\ up' = FALSE
         /\ last_hash' = Genesis
         /\ UNCHANGED <<file, ended, damage>>

\* What a line can be cut to, other than to nothing: a part of its first entry, that
\* entry without its newline, or what it is but for its newline.
CutTo(line) == {line, Corrupt} \cup {l.head : l \in {line} \cap Glued}

\* The machine loses power: log() does not fsync, so the file comes back cut after a
\* line, or within one.
PowerLoss == /\ faults < MaxFaults
             /\ faults' = faults + 1
             /\ up' = FALSE
             /\ last_hash' = Genesis
             /\ \E n \in 0 .. Len(file) :
                  \/ /\ file' = SubSeq(file, 1, n)
                     /\ ended' = (n < Len(file) \/ ended)
                  \/ /\ n > 0
                     /\ \E line \in CutTo(file[n]) :
                          file' = [SubSeq(file, 1, n) EXCEPT ![n] = line]
                     /\ ended' = FALSE
             /\ UNCHANGED damage

\* A line whose (first) entry is made to say p.
Altered(line, p) == IF line \in Entries THEN [line EXCEPT !.payload = p]
                    ELSE [head |-> [line.head EXCEPT !.payload = p]]

\* Somebody or something else alters what a stored entry says.
Damage == /\ damage < MaxDamage
          /\ damage' = damage + 1
          /\ \E i \in DOMAIN file, p \in Payloads :
               /\ file[i] # Corrupt
               /\ file' = [file EXCEPT ![i] = Altered(@, p)]
               /\ file' # file
          /\ UNCHANGED <<ended, up, last_hash, faults>>

-----------------------------------------------------------------------------

Init == /\ file = << >>
        /\ ended = TRUE
        /\ up = FALSE
        /\ last_hash = Genesis
        /\ faults = 0
        /\ damage = 0

Next == \/ Boot
        \/ \E p \in Payloads : Log(p)
        \/ \E p \in Payloads : LogFails(p)
        \/ Crash
        \/ PowerLoss
        \/ Damage

Spec == Init /\ [][Next]_vars

-----------------------------------------------------------------------------
(* Properties.                                                             *)

TypeOK == /\ file \in Seq(Entries \cup Glued \cup {Corrupt})
          /\ ended \in BOOLEAN
          /\ (file = << >>) => ended
          /\ up \in BOOLEAN
          /\ last_hash \in Hashes
          /\ faults \in 0 .. MaxFaults
          /\ damage \in 0 .. MaxDamage

\* The entry names the predecessor that the entry before it names.
Retried(i) == /\ i > 1
              /\ file[i].prev = file[i - 1].prev
              /\ file[i].hash = Hash(file[i].prev, file[i].payload)

\* No crash, failed write or loss of power, in whatever order, makes verify() report
\* a broken chain, but in one way: a write whose line is complete in the file raises
\* when the file is closed, and the next entry names the same predecessor.  Any other
\* break is an alteration from outside (logger.py verify, log, _load_last_hash).
OnlyRetriesBreak ==
  (Verify = "broken" /\ damage = 0) => \A i \in DOMAIN file : Linked(i) \/ Retried(i)

\* The payloads of the entries, in order.
Contents == [i \in DOMAIN file |-> file[i].payload]

\* When verify() says a running log is intact, the file says exactly what the
\* process's in-memory hash stands for, or one entry more (a write that raised
\* after all of the line was in the file), whatever was altered or lost before.
VerifiedIsHistory ==
  (up /\ Verify = "intact") =>
     \/ Contents = last_hash
     \/ \E p \in Payloads : Contents = Append(last_hash, p)

\* Nothing has been taken off the file, neither a line nor what follows the first
\* entry of a glued one, and nobody has altered it.
NothingTaken == /\ Len(file') >= Len(file)
                /\ \A i \in DOMAIN file : file[i] \in Glued => file'[i] \notin Entries
                /\ damage' = damage

\* A chain that no longer verifies is never made to verify again by restarting
\* and logging on top of it: only losing the bad part of the file can do that.
NeverLaundered ==
  [][ (Verify # "intact" /\ NothingTaken) => Verify' # "intact" ]_vars

\* How many lines of a file can be read: those before the first that is not an entry.
ReadLen(f) == LET good == {n \in 0 .. Len(f) : \A i \in 1 .. n : f[i] \in Entries}
              IN  CHOOSE n \in good : \A m \in good : m <= n

\* The records that can be read back, and the record spoiled by what was written
\* behind it, if that is why the next line cannot be read.
ReadableIn(f) == [i \in 1 .. ReadLen(f) |-> f[i].payload]
SpoiledIn(f)  == {f[i].head.payload : i \in {j \in DOMAIN f : /\ j = ReadLen(f) + 1
                                                            /\ f[j] \in Glued}}

Readable == ReadableIn(file)
Spoiled  == SpoiledIn(file)

Trail == INSTANCE AuditTrail WITH trail <- Readable, spoiled <- Spoiled

\* The log implements the append-only trail of AuditTrail.
ImplementsTrail == Trail!Spec

-----------------------------------------------------------------------------
(* What the documentation says and the code does not do.                   *)

\* logger.py:6-8 and README.md:389: the chain is verified at start-up and a
\* mismatch means the system refuses to boot.
RefusesBrokenChain == [][ (~up /\ up') => Verify = "intact" ]_vars
=============================================================================
