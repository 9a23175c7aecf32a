------------------------------ MODULE Engines ------------------------------
(***************************************************************************)
(* The handlers of src/main.py that ask somebody else: /ollama/chat,       *)
(* /router/decide, /transcribe, and /agent/task with the process it        *)
(* starts.  The first three hold the event loop while they wait; the agent *)
(* is awaited, so other handlers run until it has ended or its time is     *)
(* over.                                                                   *)
(***************************************************************************)
EXTENDS Sandbox

EngineLabels == {"ollama", "router", "fallback", "whisper", "spawn", "agent", "timeout",
                 "reap", "parse"}

\* ollama_chat: the answer comes, or urlopen raises or times out.  A reply whose
\* content is not a string raises after the try ("odd_reply", a 500 as well).
OllamaAsks(r) == Takes(r, "idle", "ollama") /\ Fine /\ UNCHANGED <<box, child>>

OllamaChat(r) ==
  /\ \E a \in {"reply", "error", "odd_reply"} : Answers(r, "ollama", a)
  /\ Fine
  /\ UNCHANGED <<box, child>>

RouterAsks(r) == Takes(r, "idle", "router") /\ Fine /\ UNCHANGED <<box, child>>

\* Mutant of RouterDecide: what the router names is not checked.
MutantRouterDecide(r) ==
  /\ Fine
  /\ UNCHANGED <<box, child>>
  /\ \/ \E a \in {"ollama", "opencode", "other"} : Answers(r, "router", a)
     \/ Goes(r, "router", "fallback")

\* router_decide: an engine, or anything else that came back, or nothing in time.
RouterDecide(r) ==
  /\ Fine
  /\ UNCHANGED <<box, child>>
  /\ \/ \E engine \in {"ollama", "opencode"} : Answers(r, "router", engine)
     \/ Goes(r, "router", "fallback")

\* _keyword_fallback names one of the two whatever the data set holds.
KeywordFallback(r) ==
  /\ \E engine \in {"ollama", "opencode"} : Answers(r, "fallback", engine)
  /\ Fine
  /\ UNCHANGED <<box, child>>

\* transcribe never finds _whisper_lock taken: it does not await while it has it.
Transcribes(r) == Takes(r, "idle", "whisper") /\ Fine /\ UNCHANGED <<box, child>>

Transcribe(r) ==
  /\ \E a \in {"heard", "refused", "error"} : Answers(r, "whisper", a)
  /\ Fine
  /\ UNCHANGED <<box, child>>

AgentAsks(r) == Takes(r, "idle", "spawn") /\ Fine /\ UNCHANGED <<box, child>>

\* create_subprocess_exec; the command may be missing or not executable, and it may be
\* a shim that starts the agent and waits for it.
SpawnAgent(r) ==
  /\ Fine
  /\ UNCHANGED box
  /\ \/ /\ Awaits(r, "spawn", "agent")
        /\ \E c \in Alive : child' = [child EXCEPT ![r] = c]
     \/ Answers(r, "spawn", "error") /\ UNCHANGED child

\* communicate() is over.
AgentEnds(r) ==
  /\ Takes(r, "agent", "parse")
  /\ child[r] \notin {"none"} \cup Alive
  /\ Fine
  /\ UNCHANGED <<box, child>>

\* The time is over, and the loop has come round to it.
AgentTimesOut(r) == Takes(r, "agent", "timeout") /\ Fine /\ UNCHANGED <<box, child>>

\* Mutant of KillAgent: the timeout is answered and the process left alone.
MutantKillAgent(r) == Answers(r, "timeout", "error") /\ Fine /\ UNCHANGED <<box, child>>


\* kill() and the await of wait().  It is the process started here that is killed: the
\* agent behind a shim goes on.  For a process that has ended just before, kill()
\* does nothing, or raises ProcessLookupError, which the outer except answers.
KillAgent(r) ==
  /\ Fine
  /\ UNCHANGED box
  /\ \/ /\ Awaits(r, "timeout", "reap")
        /\ child' = [child EXCEPT ![r] = CASE @ = "running" -> "killed"
                                           [] @ = "shim"    -> "orphan"
                                           [] OTHER         -> @]
     \/ /\ Answers(r, "timeout", "error")
        /\ child[r] \notin Alive
        /\ UNCHANGED child

\* wait() is over.
Reap(r) ==
  /\ TakesAndAnswers(r, "reap", "error")
  /\ child[r] \notin Alive
  /\ Fine
  /\ UNCHANGED <<box, child>>

\* The agent behind a shim that was killed ends some time.
OrphanEnds(r) ==
  /\ child[r] = "orphan"
  /\ child' = [child EXCEPT ![r] = "killed"]
  /\ UNCHANGED <<loopVars, box>>

\* The text parts of the output; without any there is an error.  Nothing catches what
\* "odd" output raises: a line that is JSON but no object, an event whose part is no
\* object, a part whose text is no string.
ParseAgent(r) ==
  /\ Answers(r, "parse", CASE child[r] = "text" -> "done"
                           [] child[r] = "odd"  -> "500"
                           [] OTHER             -> "error")
  /\ Fine
  /\ UNCHANGED <<box, child>>

EngineStep(r) ==
  \/ OllamaChat(r) \/ RouterDecide(r) \/ KeywordFallback(r) \/ Transcribe(r) \/ SpawnAgent(r)
  \/ AgentEnds(r) \/ KillAgent(r) \/ Reap(r) \/ ParseAgent(r)
=============================================================================
