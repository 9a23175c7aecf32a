----------------------------- MODULE PowerMode -----------------------------
(***************************************************************************)
(* src/power_mode.py and the handlers that set the mode: /power/set and    *)
(* the power commands of /agent/task.  The mode is written to a file of    *)
(* its own, which then replaces the mode file in one step.                 *)
(*                                                                         *)
(* Setting a mode begins at the label "tmp" and ends in an answer.         *)
(***************************************************************************)
EXTENDS EventLoop

VARIABLES mode, tmp,     \* what the mode file and its .tmp hold
          wanted,        \* the mode each request sets
          due            \* observes the modes the file may hold: the last one
                         \* acknowledged, and those whose writing got no answer

powerVars == <<mode, tmp, wanted, due>>

MODES       == {"normal", "red"}
Contents    == MODES \cup {"none", "cut"}        \* no file; a file cut short
PowerLabels == {"tmp", "replace", "log"}

PowerInit == /\ mode = "none"
             /\ tmp = "none"
             /\ wanted = [r \in Requests |-> "normal"]
             /\ due = {"normal"}

\* _read of a file that can be read, or of none: anything but a mode counts as normal.
Persisted == IF mode \in MODES THEN mode ELSE "normal"

\* get_power_mode returns m to r.  A file that is there and cannot be opened (no handle
\* left, or somebody has it open on Windows) counts as normal as well.
GetPowerMode(r, m) == \/ m = Persisted /\ Fine
                      \/ m = "normal" /\ mode # "none" /\ Fault({r})

\* set_power_mode is called with a mode that has passed its check.
Sets(r, m) == /\ wanted' = [wanted EXCEPT ![r] = m]
              /\ due' = due \cup {m}
              /\ UNCHANGED <<mode, tmp>>

\* Mutant of WriteTmp: the mode file itself is opened and written.
MutantWriteTmp(r) ==
  /\ UNCHANGED <<wanted, due, tmp>>
  /\ \/ Goes(r, "tmp", "replace") /\ mode' = "cut" /\ Fine
     \/ Answers(r, "tmp", "500") /\ mode' = "cut" /\ Fault({r})

\* _write: the temporary file, whole or, when the disk is full, cut short.
WriteTmp(r) ==
  /\ UNCHANGED <<mode, wanted, due>>
  /\ \/ Goes(r, "tmp", "replace") /\ tmp' = wanted[r] /\ Fine
     \/ Answers(r, "tmp", "500") /\ tmp' = "cut" /\ Fault({r})

\* os.replace, or it raises (somebody has the file open on Windows).
Replace(r) ==
  /\ UNCHANGED <<wanted, due>>
  /\ \/ Goes(r, "replace", "log") /\ mode' = tmp /\ tmp' = "none" /\ Fine
     \/ Answers(r, "replace", "500") /\ UNCHANGED <<mode, tmp>> /\ Fault({r})

\* The entry in the audit log and the answer; log() can raise.
LogPower(r) ==
  /\ UNCHANGED <<mode, tmp, wanted>>
  /\ \/ Answers(r, "log", "set") /\ due' = {wanted[r]} /\ Fine
     \/ Answers(r, "log", "500") /\ UNCHANGED due /\ Fault({r})

PowerStep(r) == WriteTmp(r) \/ Replace(r) \/ LogPower(r)

\* Whatever write fails and wherever the server stops, the mode file holds the mode
\* last acknowledged or one whose writing was never answered: never a mode nobody
\* asked for since (power_mode.py _write).  This is about the file; a read of it that
\* fails is answered with "normal" all the same (GetPowerMode).
ModeKept == Persisted \in due
=============================================================================
