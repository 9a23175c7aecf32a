------------------------------- MODULE Server -------------------------------
(***************************************************************************)
(* The handlers of src/main.py on their one event loop: /chat with the     *)
(* sandbox, the engines, the power mode.  The server can stop at any point *)
(* and is started again (docker-compose.yml); containers and processes do  *)
(* not stop with it.                                                       *)
(*                                                                         *)
(* /speak is in SpeechFile, sessions and enrolment in Sessions, /approve   *)
(* in PolicyGateway: they hold nothing the handlers here use.              *)
(***************************************************************************)
EXTENDS Engines, Chat, PowerMode

vars == <<loopVars, box, child, llm, powerVars>>

-----------------------------------------------------------------------------

Init == /\ LoopInit
        /\ PowerInit
        /\ box = [r \in Requests |-> "none"]
        /\ child = [r \in Requests |-> "none"]
        /\ llm = [r \in Requests |-> FALSE]

\* power_set, or agent_task with one of the power commands.
PowerAsks(r) ==
  /\ Takes(r, "idle", "tmp")
  /\ \E m \in MODES : Sets(r, m)
  /\ Fine
  /\ UNCHANGED <<box, child, llm>>

\* power_set with another mode, agent_task, ollama_chat or router_decide with
\* nothing in it, transcribe with no audio: an answer at once.
Declines(r) ==
  /\ TakesAndAnswers(r, "idle", "refused")
  /\ Fine
  /\ UNCHANGED <<box, child, llm, powerVars>>

PowerStatus(r) ==
  /\ \E m \in MODES : TakesAndAnswers(r, "idle", m) /\ GetPowerMode(r, m)
  /\ UNCHANGED <<box, child, llm, powerVars>>

Arrives(r) ==
  \/ GetUser(r) /\ UNCHANGED powerVars
  \/ (OllamaAsks(r) \/ RouterAsks(r) \/ Transcribes(r) \/ AgentAsks(r))
       /\ UNCHANGED <<llm, powerVars>>
  \/ PowerAsks(r)
  \/ PowerStatus(r)
  \/ Declines(r)

\* What the server does of itself once a request has come.
Handles(r) ==
  \/ (SandboxStep(r) \/ EngineStep(r)) /\ UNCHANGED <<llm, powerVars>>
  \/ ChatStep(r) /\ UNCHANGED powerVars
  \/ PowerStep(r) /\ UNCHANGED <<box, child, llm>>

Outside(r) ==
  \/ (ContainerExits(r) \/ ChildExits(r) \/ OrphanEnds(r)) /\ UNCHANGED <<llm, powerVars>>
  \/ AgentTimesOut(r) /\ UNCHANGED <<llm, powerVars>>

\* Containers, agents and files stay when the server stops.
Crash == Stop /\ UNCHANGED <<box, child, llm, powerVars>>

Next == (\E r \in Requests : Arrives(r) \/ Handles(r) \/ Outside(r)) \/ Crash

Spec == Init /\ [][Next]_vars

\* A handler that can go on does, and the agent's time runs out.  Each request ends,
\* so the loop is free for good in the end, and weak fairness is enough.
FairSpec == Spec /\ \A r \in Requests :
              /\ WF_vars(Handles(r))
              /\ WF_vars(AgentTimesOut(r) /\ UNCHANGED <<llm, powerVars>>)

-----------------------------------------------------------------------------
(* Properties.                                                             *)

Labels  == {"idle", "done", "lost"} \cup SandboxLabels \cup ChatLabels \cup EngineLabels
             \cup PowerLabels
Replies == {"none", "refused", "500", "error", "reply", "odd_reply", "denied", "hitl", "result",
            "output", "ollama", "opencode", "heard", "done", "set"} \cup MODES

TypeOK ==
  /\ loop \in {Nobody} \cup Requests
  /\ pc \in [Requests -> Labels]
  /\ answer \in [Requests -> Replies]
  /\ faults \in 0 .. MaxFaults
  /\ hit \subseteq Requests
  /\ box \in [Requests -> Boxes]
  /\ child \in [Requests -> Children]
  /\ llm \in [Requests -> BOOLEAN]
  /\ mode \in Contents
  /\ tmp \in Contents
  /\ wanted \in [Requests -> MODES]
  /\ due \subseteq MODES

\* Once a request has its answer no process the server itself has started for it goes
\* on: not the agent command whose time was over, not a snippet, and not a snippet's
\* container unless Docker failed on it (docker_executor.py:103-111,
\* main.py:2753-2755).  Where the agent command is a shim the agent it has started may go
\* on, as an "orphan".
NothingRunsOn ==
  \A r \in Requests : pc[r] = "done" =>
    /\ child[r] \notin Alive
    /\ (r \notin hit) => (box[r] # "running")

\* A mission is told done, and a snippet's output sent, only if what ran ended by
\* itself and was not killed, and then no container is left (main.py:2785-2796,
\* docker_executor.py:113-115).
DoneMeansEnded ==
  \A r \in Requests :
    /\ (answer[r] = "done") => (child[r] = "text")
    /\ (answer[r] = "output") =>
          \/ box[r] = "gone" /\ child[r] = "none"
          \/ box[r] = "none" /\ child[r] \in {"text", "silent", "odd"}

\* A handler ends in an exception only when the host failed under it, when the LLM
\* was asked for, or when the agent printed JSON of another shape than its events have
\* (or, answered as "odd_reply", Ollama sent something else than a text): whatever the
\* sandbox, a tool or an engine raises is answered with an error (main.py:481-488).
ErrorsExplained ==
  \A r \in Requests :
    (answer[r] = "500") => (r \in hit \/ llm[r] \/ child[r] = "odd")

=============================================================================
