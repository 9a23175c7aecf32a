---------------------------- MODULE ServerProofs ----------------------------
(***************************************************************************)
(* Proofs about Server for any number of requests and faults: what is left *)
(* running, what answers and errors mean, which mode is read, and that     *)
(* every handler counts down and none blocks the loop for good.            *)
(***************************************************************************)
EXTENDS Server, TLAPS

Ended == {"text", "silent", "odd"}

\* Where a handler has started neither a container nor a process.
Before == {"idle", "classify", "talk", "gateway", "tool", "snippet", "ollama", "router",
           "fallback", "whisper", "spawn"} \cup PowerLabels

\* What was started for a request, by where its handler is.
Fits(r) ==
  /\ (pc[r] \in Before) => (box[r] = "none" /\ child[r] = "none")
  /\ (pc[r] = "start") => (box[r] = "created" /\ child[r] = "none")
  /\ (pc[r] \in {"wait", "kill"}) => (box[r] \in {"running", "exited"} /\ child[r] = "none")
  /\ (pc[r] \in {"discard", "logs", "remove"}) => (box[r] = "exited" /\ child[r] = "none")
  /\ (pc[r] = "child") => (box[r] = "none" /\ child[r] \in Ended \cup Alive)
  /\ (pc[r] = "ran") => \/ box[r] = "gone" /\ child[r] = "none"
                        \/ box[r] = "none" /\ child[r] \in Ended
  /\ (pc[r] \in {"agent", "timeout"}) => (box[r] = "none" /\ child[r] \in Ended \cup Alive)
  /\ (pc[r] \in {"reap", "parse"}) => (box[r] = "none" /\ child[r] \notin Alive)

\* What is left of it at the end, and what was said of it.
Over(r) ==
  /\ (pc[r] \in {"raised", "error", "done"}) =>
        (child[r] \notin Alive /\ (r \notin hit => box[r] # "running"))
  /\ (answer[r] = "done") => (child[r] = "text")
  /\ (answer[r] = "output") => \/ box[r] = "gone" /\ child[r] = "none"
                               \/ box[r] = "none" /\ child[r] \in Ended
  /\ (answer[r] = "500") => (r \in hit \/ llm[r] \/ child[r] = "odd")
  /\ (pc[r] # "done") => (answer[r] = "none")

\* The mode a handler is setting, by how far it is.
Setting(r) ==
  /\ (pc[r] \in PowerLabels) => (loop = r /\ wanted[r] \in due)
  /\ (pc[r] = "replace") => (tmp = wanted[r])
  /\ (pc[r] = "log") => (mode = wanted[r])

RequestsInv == \A r \in Requests : Fits(r) /\ Over(r)

PowerInv == ModeKept /\ \A r \in Requests : Setting(r)

IInv == TypeOK /\ RequestsInv /\ PowerInv

-----------------------------------------------------------------------------
(* The moves of the event loop.                                            *)

LoopType ==
  /\ loop \in {Nobody} \cup Requests
  /\ pc \in [Requests -> Labels]
  /\ answer \in [Requests -> Replies]
  /\ faults \in 0 .. MaxFaults
  /\ hit \subseteq Requests

\* r moves from a to b: with the loop, to it, or away from it.
Moved(r, a, b) ==
  /\ pc[r] = a /\ pc'[r] = b
  /\ pc' \in [Requests -> Labels]
  /\ loop' \in {Nobody} \cup Requests
  /\ \A q \in Requests : (q # r) => (pc'[q] = pc[q])

Silent == answer' = answer

Said(r, a) ==
  /\ answer'[r] = a
  /\ answer' \in [Requests -> Replies]
  /\ \A q \in Requests : (q # r) => (answer'[q] = answer[q])

LEMMA TakesStep ==
  ASSUME LoopType, NEW r \in Requests, NEW a, NEW b \in Labels, Takes(r, a, b)
  PROVE  Moved(r, a, b) /\ Silent /\ loop' = r /\ loop = Nobody
BY DEF LoopType, Takes, Jump, Moved, Silent

LEMMA GoesStep ==
  ASSUME LoopType, NEW r \in Requests, NEW a, NEW b \in Labels, Goes(r, a, b)
  PROVE  Moved(r, a, b) /\ Silent /\ loop' = r /\ loop = r
BY DEF LoopType, Goes, At, Jump, Moved, Silent

LEMMA AwaitsStep ==
  ASSUME LoopType, NEW r \in Requests, NEW a, NEW b \in Labels, Awaits(r, a, b)
  PROVE  Moved(r, a, b) /\ Silent /\ loop = r
BY DEF LoopType, Awaits, At, Jump, Moved, Silent

LEMMA AnswersStep ==
  ASSUME LoopType, NEW r \in Requests, NEW a, NEW x \in Replies, Answers(r, a, x)
  PROVE  Moved(r, a, "done") /\ Said(r, x) /\ loop = r
BY DEF LoopType, Answers, At, Jump, Moved, Said, Labels

\* An answer at once, with the loop free.
LEMMA AnsweredAtOnce ==
  ASSUME LoopType, NEW r \in Requests, NEW a, NEW x \in Replies, TakesAndAnswers(r, a, x)
  PROVE  Moved(r, a, "done") /\ Said(r, x) /\ loop' = loop /\ loop = Nobody
BY DEF LoopType, TakesAndAnswers, Jump, Moved, Said, Labels

\* Faults are counted, and remembered for the request.
Counted(r) == faults' \in 0 .. MaxFaults /\ hit \subseteq hit' /\ hit' \subseteq hit \cup {r}

LEMMA FineStep ==
  ASSUME LoopType, NEW r \in Requests, Fine
  PROVE  Counted(r)
BY DEF LoopType, Fine, Counted

LEMMA FaultStep ==
  ASSUME LoopType, NEW r \in Requests, Fault({r})
  PROVE  Counted(r) /\ r \in hit'
<1>1. faults < MaxFaults /\ faults' = faults + 1 /\ faults \in 0 .. MaxFaults /\ hit' = hit \cup {r}
  BY DEF LoopType, Fault
<1>2. faults' \in 0 .. MaxFaults
  BY <1>1, FaultsAssumption
<1> QED
  BY <1>1, <1>2 DEF Counted

HostType ==
  /\ box \in [Requests -> Boxes]
  /\ child \in [Requests -> Children]

\* What r has started is now in the states b and c.
Host(r, b, c) ==
  /\ box' \in [Requests -> Boxes] /\ child' \in [Requests -> Children]
  /\ box'[r] = b /\ child'[r] = c
  /\ \A q \in Requests : (q # r) => (box'[q] = box[q] /\ child'[q] = child[q])

LEMMA BoxStep ==
  ASSUME HostType, NEW r \in Requests, NEW b \in Boxes, Became(r, b), child' = child
  PROVE  Host(r, b, child[r])
BY DEF HostType, Became, Host

LEMMA ChildStep ==
  ASSUME HostType, NEW r \in Requests, NEW c \in Children, box' = box,
         child' = [child EXCEPT ![r] = c]
  PROVE  Host(r, box[r], c)
BY DEF HostType, Host

LEMMA NoHostStep ==
  ASSUME HostType, NEW r \in Requests, box' = box, child' = child
  PROVE  Host(r, box[r], child[r])
BY DEF HostType, Host

LEMMA Names ==
  /\ SandboxLabels \cup ChatLabels \cup EngineLabels \cup PowerLabels \subseteq Labels
  /\ {"idle", "done", "lost"} \subseteq Labels
  /\ MODES \subseteq Replies
BY DEF Labels, Replies

LEMMA Parts ==
  ASSUME TypeOK
  PROVE  LoopType /\ HostType
BY DEF TypeOK, LoopType, HostType

\* A step for r: everything of the other requests stays.
Local(r) ==
  /\ LoopType' /\ HostType'
  /\ \A q \in Requests : (q # r) => /\ pc'[q] = pc[q] /\ answer'[q] = answer[q]
                                    /\ box'[q] = box[q] /\ child'[q] = child[q]
                                    /\ (q \in hit') = (q \in hit)
  /\ hit \subseteq hit'

LEMMA Together ==
  ASSUME TypeOK, NEW r \in Requests, NEW a, NEW b, NEW x, NEW y, NEW z,
         Moved(r, a, b), Counted(r), Host(r, y, z),
         Silent \/ Said(r, x)
  PROVE  /\ Local(r) /\ pc[r] = a /\ pc'[r] = b /\ box'[r] = y /\ child'[r] = z
         /\ answer'[r] = answer[r] \/ answer'[r] = x
BY Parts DEF Local, Moved, Counted, Host, Silent, Said, LoopType, HostType

\* What a step leaves for its own request.
Leaves(r) == Local(r) /\ Fits(r)' /\ Over(r)' /\ pc'[r] \notin PowerLabels
             /\ loop \in {r, Nobody}

\* run_python.
LEMMA SandboxSteps ==
  ASSUME IInv, NEW r \in Requests, SandboxStep(r), llm' = llm
  PROVE  Leaves(r)
<1>0. TypeOK /\ LoopType /\ HostType /\ Fits(r) /\ Over(r)
  BY Parts DEF IInv, RequestsInv
<1> USE DEF Leaves, Local, Fits, Over, Before, Ended, Alive, PowerLabels, Moved, Counted, Host,
        Boxes, Children, Silent, Said, LoopType, HostType
<1>1. CASE RunPython(r)
  BY <1>0, <1>1, Names, GoesStep, FineStep, BoxStep, ChildStep, NoHostStep
     DEF RunPython, Raises, SandboxLabels
<1>2. CASE StartContainer(r)
  BY <1>0, <1>2, Names, GoesStep, FineStep, FaultStep, BoxStep, NoHostStep
     DEF StartContainer, Raises, SandboxLabels
<1>3. CASE WaitReturns(r)
  BY <1>0, <1>3, Names, GoesStep, FineStep, NoHostStep DEF WaitReturns, SandboxLabels
<1>4. CASE WaitFails(r)
  BY <1>0, <1>4, Names, GoesStep, FineStep, FaultStep, NoHostStep
     DEF WaitFails, SandboxLabels
<1>5. CASE Kill(r)
  BY <1>0, <1>5, Names, GoesStep, FineStep, FaultStep, BoxStep, NoHostStep
     DEF Kill, Raises, SandboxLabels
<1>6. CASE Discard(r)
  BY <1>0, <1>6, Names, GoesStep, FineStep, FaultStep, BoxStep, NoHostStep
     DEF Discard, Raises, SandboxLabels
<1>7. CASE Logs(r)
  BY <1>0, <1>7, Names, GoesStep, FineStep, FaultStep, NoHostStep
     DEF Logs, Raises, SandboxLabels
<1>8. CASE Remove(r)
  BY <1>0, <1>8, Names, GoesStep, FineStep, FaultStep, BoxStep, NoHostStep
     DEF Remove, Raises, SandboxLabels
<1>9. CASE ChildReturns(r)
  BY <1>0, <1>9, Names, GoesStep, FineStep, ChildStep, NoHostStep
     DEF ChildReturns, Raises, SandboxLabels
<1> QED
  BY <1>1, <1>2, <1>3, <1>4, <1>5, <1>6, <1>7, <1>8, <1>9 DEF SandboxStep

\* The handlers that ask an engine, and the agent.
LEMMA EngineSteps ==
  ASSUME IInv, NEW r \in Requests, EngineStep(r), llm' = llm
  PROVE  Leaves(r)
<1>0. TypeOK /\ LoopType /\ HostType /\ Fits(r) /\ Over(r)
  BY Parts DEF IInv, RequestsInv
<1> USE DEF Leaves, Local, Fits, Over, Before, Ended, Alive, PowerLabels, Moved, Counted, Host,
        Boxes, Children, Silent, Said, LoopType, HostType
<1>1. CASE OllamaChat(r)
  BY <1>0, <1>1, Names, AnswersStep, FineStep, NoHostStep
     DEF OllamaChat, Replies, EngineLabels
<1>2. CASE RouterDecide(r)
  BY <1>0, <1>2, Names, AnswersStep, GoesStep, FineStep, NoHostStep
     DEF RouterDecide, Replies, EngineLabels
<1>3. CASE KeywordFallback(r)
  BY <1>0, <1>3, Names, AnswersStep, FineStep, NoHostStep
     DEF KeywordFallback, Replies, EngineLabels
<1>4. CASE Transcribe(r)
  BY <1>0, <1>4, Names, AnswersStep, FineStep, NoHostStep
     DEF Transcribe, Replies, EngineLabels
<1>5. CASE SpawnAgent(r)
  BY <1>0, <1>5, Names, AnswersStep, AwaitsStep, FineStep, ChildStep, NoHostStep
     DEF SpawnAgent, Replies, EngineLabels
<1>6. CASE AgentEnds(r)
  BY <1>0, <1>6, Names, TakesStep, FineStep, NoHostStep DEF AgentEnds, EngineLabels
<1>7. CASE KillAgent(r)
  BY <1>0, <1>7, Names, AnswersStep, AwaitsStep, FineStep, ChildStep, NoHostStep
     DEF KillAgent, Replies, EngineLabels
<1>8. CASE Reap(r)
  BY <1>0, <1>8, Names, FineStep, NoHostStep, AnsweredAtOnce DEF Reap, Replies, EngineLabels
<1>9. CASE ParseAgent(r)
  BY <1>0, <1>9, Names, AnswersStep, FineStep, NoHostStep
     DEF ParseAgent, Replies, EngineLabels
<1> QED
  BY <1>1, <1>2, <1>3, <1>4, <1>5, <1>6, <1>7, <1>8, <1>9 DEF EngineStep

\* A chat request after its user was found.
LEMMA ChatSteps ==
  ASSUME IInv, NEW r \in Requests, ChatStep(r)
  PROVE  Leaves(r)
<1>0. TypeOK /\ LoopType /\ HostType /\ Fits(r) /\ Over(r)
  BY Parts DEF IInv, RequestsInv
<1> USE DEF Leaves, Local, Fits, Over, Before, Ended, Alive, PowerLabels, Moved, Counted, Host,
        Silent, Said, LoopType, HostType
<1>1. CASE BuildSystemPrompt(r)
  BY <1>0, <1>1, Names, AnswersStep, FineStep, NoHostStep
     DEF BuildSystemPrompt, Replies, ChatLabels
<1>2. CASE Classify(r)
  BY <1>0, <1>2, Names, GoesStep, FineStep, NoHostStep DEF Classify, ChatLabels
<1>3. CASE Talk(r)
  BY <1>0, <1>3, Names, AnswersStep, FineStep, FaultStep, NoHostStep
     DEF Talk, Replies, ChatLabels
<1>4. CASE Gateway(r)
  BY <1>0, <1>4, Names, AnswersStep, GoesStep, FineStep, FaultStep, NoHostStep
     DEF Gateway, Replies, SandboxLabels, ChatLabels
<1>5. CASE ExecuteTool(r)
  BY <1>0, <1>5, Names, AnswersStep, GoesStep, FineStep, NoHostStep
     DEF ExecuteTool, Replies, ChatLabels
<1>6. CASE SnippetEnds(r)
  BY <1>0, <1>6, Names, AnswersStep, GoesStep, FineStep, NoHostStep
     DEF SnippetEnds, Replies, ChatLabels
<1>7. CASE Except(r)
  BY <1>0, <1>7, Names, AnswersStep, FineStep, FaultStep, NoHostStep
     DEF Except, Replies, ChatLabels
<1> QED
  BY <1>1, <1>2, <1>3, <1>4, <1>5, <1>6, <1>7 DEF ChatStep

\* A request comes.
LEMMA ArriveSteps ==
  ASSUME IInv, NEW r \in Requests, Arrives(r), ~PowerAsks(r)
  PROVE  Leaves(r)
<1>0. TypeOK /\ LoopType /\ HostType /\ Fits(r) /\ Over(r)
  BY Parts DEF IInv, RequestsInv
<1> USE DEF Leaves, Local, Fits, Over, Before, Ended, Alive, PowerLabels, Moved, Counted, Host,
        Silent, Said, LoopType, HostType
<1>1. CASE GetUser(r)
  BY <1>0, <1>1, Names, TakesStep, FineStep, FaultStep, NoHostStep, AnsweredAtOnce
     DEF GetUser, Replies, ChatLabels
<1>2. CASE OllamaAsks(r)
  BY <1>0, <1>2, Names, TakesStep, FineStep, NoHostStep
     DEF OllamaAsks, EngineLabels, Jump
<1>3. CASE RouterAsks(r)
  BY <1>0, <1>3, Names, TakesStep, FineStep, NoHostStep
     DEF RouterAsks, EngineLabels, Jump
<1>4. CASE Transcribes(r)
  BY <1>0, <1>4, Names, TakesStep, FineStep, NoHostStep
     DEF Transcribes, EngineLabels, Jump
<1>5. CASE AgentAsks(r)
  BY <1>0, <1>5, Names, TakesStep, FineStep, NoHostStep
     DEF AgentAsks, EngineLabels, Jump
<1>6. CASE PowerStatus(r)
  <2>1. PICK m \in MODES : TakesAndAnswers(r, "idle", m) /\ GetPowerMode(r, m)
    BY <1>6 DEF PowerStatus
  <2>2. m \in {"normal", "red"} /\ m \in Replies
    BY DEF MODES, Replies
  <2>3. Moved(r, "idle", "done") /\ Said(r, m) /\ loop' = loop /\ loop = Nobody
    BY <1>0, <2>1, <2>2, AnsweredAtOnce
  <2>4. Counted(r) /\ Host(r, box[r], child[r])
    BY <1>0, <1>6, <2>1, FineStep, FaultStep, NoHostStep DEF PowerStatus, GetPowerMode
  <2>5. answer'[r] \notin {"done", "output", "500"}
    BY <2>2, <2>3 DEF Said
  <2>6. box[r] = "none" /\ child[r] = "none"
    BY <1>0, <2>3 DEF Fits, Moved, Before
  <2>7. Local(r) /\ pc'[r] = "done" /\ box'[r] = "none" /\ child'[r] = "none"
    BY <1>0, <2>3, <2>4, <2>6, Together
  <2> QED
    BY <2>3, <2>5, <2>7 DEF Leaves, Fits, Over, Before, Alive, PowerLabels
<1>7. CASE Declines(r)
  BY <1>0, <1>7, Names, FineStep, NoHostStep, AnsweredAtOnce DEF Declines, Replies
<1> QED
  BY <1>1, <1>2, <1>3, <1>4, <1>5, <1>6, <1>7 DEF Arrives

\* What goes on outside: a container or a process ends, an agent's time is over.
LEMMA OutsideSteps ==
  ASSUME IInv, NEW r \in Requests, Outside(r)
  PROVE  /\ Local(r) /\ Fits(r)' /\ Over(r)'
         /\ \/ (loop \in {r, Nobody}) /\ pc'[r] \notin PowerLabels
            \/ loop' = loop /\ pc'[r] = pc[r]
<1>0. /\ TypeOK /\ LoopType /\ HostType /\ Fits(r) /\ Over(r)
  BY Parts DEF IInv, RequestsInv
<1>1. CASE ContainerExits(r)
  BY <1>0, <1>1 DEF ContainerExits, Became, loopVars, Local, Fits, Over, Before, Ended, Alive,
     PowerLabels, LoopType, HostType, Boxes
<1>2. CASE ChildExits(r)
  BY <1>0, <1>2 DEF ChildExits, loopVars, Local, Fits, Over, Before, Ended, Alive,
     PowerLabels, LoopType, HostType, Children
<1>3. CASE AgentTimesOut(r)
  BY <1>0, <1>3, Names, TakesStep, FineStep, NoHostStep
     DEF AgentTimesOut, EngineLabels, Local, Fits, Over, Before, Ended, Alive, PowerLabels, Moved,
     Counted, Host, Silent, LoopType, HostType
<1>4. CASE OrphanEnds(r) /\ llm' = llm
  BY <1>0, <1>4 DEF OrphanEnds, loopVars, Local, Fits, Over, Before, Ended, Alive,
     PowerLabels, LoopType, HostType, Children
<1> QED
  BY <1>1, <1>2, <1>3, <1>4 DEF Outside

\* The steps of a handler that sets the mode.
LEMMA PowerSteps ==
  ASSUME IInv, NEW r \in Requests,
         (PowerStep(r) /\ UNCHANGED <<box, child, llm>>) \/ PowerAsks(r)
  PROVE  Local(r) /\ Fits(r)' /\ Over(r)' /\ loop \in {r, Nobody}
<1>0. /\ TypeOK /\ LoopType /\ HostType /\ Fits(r) /\ Over(r)
  BY Parts DEF IInv, RequestsInv
<1>1. CASE WriteTmp(r) /\ UNCHANGED <<box, child, llm>>
  BY <1>0, <1>1, Names, GoesStep, AnswersStep, FineStep, FaultStep, NoHostStep
     DEF WriteTmp, Replies, Local, Fits, Over, Before, Ended, Alive, PowerLabels, Moved,
     Counted, Host, Silent, Said, LoopType, HostType
<1>2. CASE Replace(r) /\ UNCHANGED <<box, child, llm>>
  BY <1>0, <1>2, Names, GoesStep, AnswersStep, FineStep, FaultStep, NoHostStep
     DEF Replace, Replies, Local, Fits, Over, Before, Ended, Alive, PowerLabels, Moved,
     Counted, Host, Silent, Said, LoopType, HostType
<1>3. CASE LogPower(r) /\ UNCHANGED <<box, child, llm>>
  BY <1>0, <1>3, Names, AnswersStep, FineStep, FaultStep, NoHostStep
     DEF LogPower, Replies, Local, Fits, Over, Before, Ended, Alive, PowerLabels, Moved,
     Counted, Host, Silent, Said, LoopType, HostType
<1>4. CASE PowerAsks(r)
  BY <1>0, <1>4, Names, TakesStep, FineStep, NoHostStep
     DEF PowerAsks, Local, Fits, Over, Before, Ended, Alive, PowerLabels, Moved,
     Counted, Host, Silent, LoopType, HostType
<1> QED
  BY <1>1, <1>2, <1>3, <1>4 DEF PowerStep

\* The requests that the step is not for.
LEMMA OthersKeep ==
  ASSUME IInv, NEW r \in Requests, Local(r), NEW q \in Requests, q # r, llm'[q] = llm[q]
  PROVE  Fits(q)' /\ Over(q)'
BY DEF IInv, RequestsInv, Local, Fits, Over

PowerType ==
  /\ mode \in Contents /\ tmp \in Contents
  /\ wanted \in [Requests -> MODES] /\ due \subseteq MODES

\* A step that has nothing to do with the mode.
LEMMA ModeAside ==
  ASSUME IInv, NEW r \in Requests, Local(r), UNCHANGED powerVars,
         \/ (loop \in {r, Nobody}) /\ pc'[r] \notin PowerLabels
         \/ loop' = loop /\ pc'[r] = pc[r]
  PROVE  PowerInv' /\ PowerType'
<1>1. /\ ModeKept /\ \A q \in Requests : Setting(q)
      /\ mode' = mode /\ tmp' = tmp /\ wanted' = wanted /\ due' = due
  BY DEF IInv, PowerInv, powerVars
<1>2. ModeKept' /\ PowerType'
  BY <1>1 DEF ModeKept, Persisted, PowerType, IInv, TypeOK
<1>3. ASSUME NEW q \in Requests PROVE Setting(q)'
  <2>1. CASE pc'[q] \notin PowerLabels
    BY <2>1 DEF Setting, PowerLabels
  <2>2. CASE pc'[q] \in PowerLabels
    <3>1. pc'[q] = pc[q]
      BY <2>2 DEF Local
    <3>2. loop = q
      BY <1>1, <2>2, <3>1 DEF Setting
    <3>3. loop' = loop
      BY <2>2, <3>2, NobodyAssumption
    <3> QED
      BY <1>1, <3>1, <3>3 DEF Setting
  <2> QED
    BY <2>1, <2>2
<1> QED
  BY <1>2, <1>3 DEF PowerInv

\* While a mode is being set nobody else is setting one.
LEMMA ModeSteps ==
  ASSUME IInv, NEW r \in Requests, PowerStep(r) \/ PowerAsks(r)
  PROVE  PowerInv' /\ PowerType'
<1>0. /\ TypeOK /\ LoopType /\ ModeKept /\ \A q \in Requests : Setting(q)
  BY Parts DEF IInv, PowerInv
<1>1. loop \in {r, Nobody} /\ \A q \in Requests : (q # r) => (pc'[q] = pc[q])
  BY <1>0
  DEF PowerStep, PowerAsks, WriteTmp, Replace, LogPower, Goes, Answers, Takes, At, Jump,
     LoopType
<1>2. \A q \in Requests : (q # r) => (pc'[q] \notin PowerLabels)
  BY <1>0, <1>1, NobodyAssumption DEF Setting
<1>3. \A q \in Requests : (q # r) => Setting(q)'
  BY <1>2 DEF Setting, PowerLabels
<1>4. CASE WriteTmp(r)
  <2>1. wanted[r] \in due /\ pc[r] = "tmp" /\ loop = r
    BY <1>0, <1>4 DEF WriteTmp, Goes, Answers, At, Setting, PowerLabels
  <2>2. Setting(r)'
    BY <1>0, <1>4, <2>1 DEF WriteTmp, Goes, Answers, Jump, Setting, PowerLabels, LoopType
  <2>3. ModeKept' /\ PowerType'
    BY <1>0, <1>4 DEF WriteTmp, ModeKept, Persisted, PowerType, TypeOK, Contents
  <2> QED
    BY <1>3, <2>2, <2>3 DEF PowerInv
<1>5. CASE Replace(r)
  <2>1. wanted[r] \in due /\ pc[r] = "replace" /\ loop = r /\ tmp = wanted[r]
    BY <1>0, <1>5 DEF Replace, Goes, Answers, At, Setting, PowerLabels
  <2>2. Setting(r)'
    BY <1>0, <1>5, <2>1 DEF Replace, Goes, Answers, Jump, Setting, PowerLabels, LoopType
  <2>3. ModeKept' /\ PowerType'
    BY <1>0, <1>5, <2>1 DEF Replace, ModeKept, Persisted, PowerType, TypeOK, Contents
  <2> QED
    BY <1>3, <2>2, <2>3 DEF PowerInv
<1>6. CASE LogPower(r)
  <2>1. pc[r] = "log" /\ mode = wanted[r] /\ wanted[r] \in MODES
    BY <1>0, <1>6 DEF LogPower, Answers, At, Setting, TypeOK
  <2>2. Setting(r)'
    BY <1>0, <1>6, <2>1 DEF LogPower, Answers, Jump, Setting, PowerLabels, LoopType
  <2>3. ModeKept' /\ PowerType'
    BY <1>0, <1>6, <2>1 DEF LogPower, ModeKept, Persisted, PowerType, TypeOK, Contents
  <2> QED
    BY <1>3, <2>2, <2>3 DEF PowerInv
<1>7. CASE PowerAsks(r)
  <2>1. PICK m \in MODES : Sets(r, m)
    BY <1>7 DEF PowerAsks
  <2>2. Setting(r)'
    BY <1>0, <1>7, <2>1
    DEF PowerAsks, Takes, Jump, Sets, Setting, PowerLabels, LoopType, TypeOK
  <2>3. ModeKept' /\ PowerType'
    BY <1>0, <2>1 DEF Sets, ModeKept, Persisted, PowerType, TypeOK
  <2> QED
    BY <1>3, <2>2, <2>3 DEF PowerInv
<1> QED
  BY <1>4, <1>5, <1>6, <1>7 DEF PowerStep

-----------------------------------------------------------------------------
(* The inductive step.                                                     *)

\* llm of the other requests, and its type.
LlmKept(r) ==
  /\ llm' \in [Requests -> BOOLEAN]
  /\ \A q \in Requests : (q # r) => (llm'[q] = llm[q])

LEMMA LlmUnchanged ==
  ASSUME IInv, NEW r \in Requests, llm' = llm
  PROVE  LlmKept(r)
BY DEF IInv, TypeOK, LlmKept

LEMMA LlmSteps ==
  ASSUME IInv, NEW r \in Requests, Arrives(r) \/ Handles(r) \/ Outside(r)
  PROVE  LlmKept(r)
<1>1. CASE GetUser(r)
  BY <1>1 DEF IInv, TypeOK, LlmKept, GetUser
<1>2. CASE ~GetUser(r)
  <2>1. llm' = llm
    BY <1>2 DEF Arrives, Handles, Outside, PowerAsks, PowerStatus, Declines, ChatStep,
       BuildSystemPrompt, Classify, Talk, Gateway, ExecuteTool, SnippetEnds, Except
  <2> QED
    BY <2>1, LlmUnchanged
<1> QED
  BY <1>1, <1>2

LEMMA ForOne ==
  ASSUME IInv, NEW r \in Requests, Local(r), Fits(r)', Over(r)', PowerInv', PowerType', LlmKept(r)
  PROVE  IInv'
<1>1. \A q \in Requests : Fits(q)' /\ Over(q)'
  BY OthersKeep DEF LlmKept
<1>2. TypeOK'
  BY DEF TypeOK, Local, LoopType, HostType, PowerType, LlmKept
<1> QED
  BY <1>1, <1>2 DEF IInv, RequestsInv

LEMMA RequestStep ==
  ASSUME IInv, NEW r \in Requests, Arrives(r) \/ Handles(r) \/ Outside(r)
  PROVE  IInv'
<1>0. LlmKept(r)
  BY LlmSteps
<1>1. CASE (SandboxStep(r) \/ EngineStep(r)) /\ UNCHANGED <<llm, powerVars>>
  <2>1. Leaves(r)
    BY <1>1, SandboxSteps, EngineSteps
  <2>2. PowerInv' /\ PowerType'
    BY <1>1, <2>1, ModeAside DEF Leaves
  <2> QED
    BY <1>0, <2>1, <2>2, ForOne DEF Leaves
<1>2. CASE ChatStep(r) /\ UNCHANGED powerVars
  <2>1. Leaves(r)
    BY <1>2, ChatSteps
  <2>2. PowerInv' /\ PowerType'
    BY <1>2, <2>1, ModeAside DEF Leaves
  <2> QED
    BY <1>0, <2>1, <2>2, ForOne DEF Leaves
<1>3. CASE (PowerStep(r) /\ UNCHANGED <<box, child, llm>>) \/ PowerAsks(r)
  BY <1>0, <1>3, PowerSteps, ModeSteps, ForOne
<1>4. CASE Arrives(r) /\ ~PowerAsks(r)
  <2>1. Leaves(r) /\ UNCHANGED powerVars
    BY <1>4, ArriveSteps DEF Arrives, PowerStatus, Declines
  <2>2. PowerInv' /\ PowerType'
    BY <2>1, ModeAside DEF Leaves
  <2> QED
    BY <1>0, <2>1, <2>2, ForOne DEF Leaves
<1>5. CASE Outside(r)
  <2>1. Local(r) /\ Fits(r)' /\ Over(r)' /\ UNCHANGED powerVars
    BY <1>5, OutsideSteps DEF Outside
  <2>2. \/ (loop \in {r, Nobody}) /\ pc'[r] \notin PowerLabels
        \/ loop' = loop /\ pc'[r] = pc[r]
    BY <1>5, OutsideSteps
  <2>3. PowerInv' /\ PowerType'
    BY <2>1, <2>2, ModeAside
  <2> QED
    BY <1>0, <2>1, <2>3, ForOne
<1> QED
  BY <1>1, <1>2, <1>3, <1>4, <1>5 DEF Handles, Arrives

LEMMA CrashStep ==
  ASSUME IInv, Crash
  PROVE  IInv'
<1>0. /\ TypeOK /\ LoopType /\ HostType /\ RequestsInv /\ PowerInv
      /\ UNCHANGED <<box, child, llm, powerVars>> /\ answer' = answer /\ hit' = hit \cup Open
  BY Parts DEF IInv, Crash, Stop, Fault
<1>1. /\ pc' = [r \in Requests |-> IF r \in Open THEN "lost" ELSE pc[r]]
      /\ loop' = Nobody /\ faults < MaxFaults /\ faults' = faults + 1
  BY DEF Crash, Stop, Fault
<1>2. \A r \in Requests : pc'[r] \in {"idle", "done", "lost"}
                            /\ (pc'[r] # "lost" => pc'[r] = pc[r])
                            /\ (pc'[r] = "lost" => answer[r] = "none")
  BY <1>0, <1>1 DEF Open, RequestsInv, Over
<1>3. \A r \in Requests : Fits(r)' /\ Over(r)'
  BY <1>0, <1>2 DEF RequestsInv, Fits, Over, Before, PowerLabels
<1>4. PowerInv'
  <2>1. ModeKept'
    BY <1>0 DEF PowerInv, powerVars, ModeKept, Persisted
  <2>2. \A r \in Requests : Setting(r)'
    BY <1>2 DEF Setting, PowerLabels
  <2> QED
    BY <2>1, <2>2 DEF PowerInv
<1>5. TypeOK'
  <2>1. pc' \in [Requests -> Labels]
    BY <1>0, <1>1 DEF LoopType, Labels
  <2>2. faults \in 0 .. MaxFaults
    BY <1>0 DEF LoopType
  <2>3. faults' \in 0 .. MaxFaults
    BY <1>1, <2>2, FaultsAssumption
  <2>4. hit' \subseteq Requests
    BY <1>0 DEF Open, LoopType
  <2> QED
    BY <1>0, <1>1, <2>1, <2>3, <2>4 DEF TypeOK, powerVars
<1> QED
  BY <1>3, <1>4, <1>5 DEF IInv, RequestsInv

LEMMA Initially == Init => IInv
<1> SUFFICES ASSUME Init PROVE IInv
  OBVIOUS
<1>1. TypeOK
  <2>1. faults \in 0 .. MaxFaults
    BY FaultsAssumption DEF Init, LoopInit
  <2>2. /\ loop \in {Nobody} \cup Requests /\ pc \in [Requests -> Labels]
        /\ answer \in [Requests -> Replies] /\ hit \subseteq Requests
    BY DEF Init, LoopInit, Labels, Replies
  <2>3. HostType /\ llm \in [Requests -> BOOLEAN]
    BY DEF Init, HostType, Boxes, Children
  <2>4. PowerType
    BY DEF Init, PowerInit, PowerType, Contents, MODES
  <2> QED
    BY <2>1, <2>2, <2>3, <2>4 DEF TypeOK, HostType, PowerType
<1>2. RequestsInv
  BY DEF Init, LoopInit, RequestsInv, Fits, Over, Before, PowerLabels
<1>3. PowerInv
  BY
  DEF Init, LoopInit, PowerInit, PowerInv, ModeKept, Persisted, MODES, Setting,
      PowerLabels
<1> QED
  BY <1>1, <1>2, <1>3 DEF IInv

LEMMA Stutters == IInv /\ UNCHANGED vars => IInv'
BY DEF vars, loopVars, powerVars, IInv, TypeOK, RequestsInv, Fits, Over, PowerInv, ModeKept,
   Persisted, Setting

\* The invariant is inductive.
THEOREM Invariance == Spec => []IInv
<1>1. Init => IInv
  BY Initially
<1>2. IInv /\ [Next]_vars => IInv'
  BY RequestStep, CrashStep, Stutters DEF Next
<1> QED
  BY <1>1, <1>2, PTL DEF Spec

\* Every variable keeps its type, whatever fails.
THEOREM TypeCorrect == Spec => []TypeOK
<1>1. IInv => TypeOK
  BY DEF IInv
<1> QED
  BY <1>1, Invariance, PTL

\* After the answer no process the server has started itself goes on, the agent's
\* command or shim included, and no snippet's container unless Docker failed on it.  An
\* agent that a killed shim has left behind is not meant: it may go on.
THEOREM NothingLeftRunning == Spec => []NothingRunsOn
<1>1. IInv => NothingRunsOn
  BY DEF IInv, RequestsInv, Over, NothingRunsOn
<1> QED
  BY <1>1, Invariance, PTL

\* "done" and a snippet's output are answered only for what ended by itself.
THEOREM DoneIsEnded == Spec => []DoneMeansEnded
<1>1. IInv => DoneMeansEnded
  BY DEF IInv, RequestsInv, Over, DoneMeansEnded, Ended
<1> QED
  BY <1>1, Invariance, PTL

\* A handler ends in an exception only for the reasons listed.
THEOREM ErrorsHaveReasons == Spec => []ErrorsExplained
<1>1. IInv => ErrorsExplained
  BY DEF IInv, RequestsInv, Over, ErrorsExplained
<1> QED
  BY <1>1, Invariance, PTL

\* The mode in the file is the one last acknowledged or one whose writing got no answer,
\* whatever write fails and wherever the server stops.
THEOREM ModeStays == Spec => []ModeKept
<1>1. IInv => ModeKept
  BY DEF IInv, PowerInv
<1> QED
  BY <1>1, Invariance, PTL

-----------------------------------------------------------------------------
(* A handler never goes in a circle, and never waits for another one: what *)
(* of EveryRequestEnds can be said of single steps.                        *)

\* How many steps a handler at the label l still has at the most.
Left(l) ==
  CASE l \in {"done", "lost"} -> 0
    [] l \in {"talk", "ollama", "fallback", "whisper", "ran", "error", "reap", "parse", "log"} -> 1
    [] l \in {"raised", "tool", "router", "timeout", "replace"} -> 2
    [] l \in {"discard", "remove", "child", "agent", "tmp"} -> 3
    [] l \in {"kill", "logs", "spawn"} -> 4
    [] l = "wait" -> 5
    [] l = "start" -> 6
    [] l = "snippet" -> 7
    [] l = "gateway" -> 8
    [] l = "classify" -> 9
    [] OTHER -> 10

\* The handler of q stays where it is or comes nearer to its end.
Nearer(q) == pc'[q] # pc[q] => Left(pc'[q]) < Left(pc[q])

\* A jump of r from a to b.
LEMMA JumpDown ==
  ASSUME LoopType, NEW r \in Requests, NEW b, Jump(r, b), Left(b) < Left(pc[r])
  PROVE  \A q \in Requests : Nearer(q)
BY DEF LoopType, Jump, Nearer

LEMMA StaysDown ==
  ASSUME pc' = pc
  PROVE  \A q \in Requests : Nearer(q)
BY DEF Nearer

LEMMA SandboxDown ==
  ASSUME LoopType, NEW r \in Requests, SandboxStep(r)
  PROVE  \A q \in Requests : Nearer(q)
<1> USE JumpDown DEF Goes, Raises, At, Left
<1>1. CASE RunPython(r)
  BY <1>1 DEF RunPython
<1>2. CASE StartContainer(r)
  BY <1>2 DEF StartContainer
<1>3. CASE WaitReturns(r) \/ WaitFails(r)
  BY <1>3 DEF WaitReturns, WaitFails
<1>4. CASE Kill(r)
  BY <1>4 DEF Kill
<1>5. CASE Discard(r) \/ Logs(r) \/ Remove(r)
  BY <1>5 DEF Discard, Logs, Remove
<1>6. CASE ChildReturns(r)
  BY <1>6 DEF ChildReturns
<1> QED
  BY <1>1, <1>2, <1>3, <1>4, <1>5, <1>6 DEF SandboxStep

LEMMA EngineDown ==
  ASSUME LoopType, NEW r \in Requests, EngineStep(r)
  PROVE  \A q \in Requests : Nearer(q)
<1> USE JumpDown DEF Goes, Answers, Awaits, Takes, TakesAndAnswers, At, Left
<1>1. CASE OllamaChat(r) \/ KeywordFallback(r) \/ Transcribe(r)
  BY <1>1 DEF OllamaChat, KeywordFallback, Transcribe
<1>2. CASE RouterDecide(r)
  BY <1>2 DEF RouterDecide
<1>3. CASE SpawnAgent(r)
  BY <1>3 DEF SpawnAgent
<1>4. CASE AgentEnds(r) \/ KillAgent(r)
  BY <1>4 DEF AgentEnds, KillAgent
<1>5. CASE Reap(r) \/ ParseAgent(r)
  BY <1>5 DEF Reap, ParseAgent
<1> QED
  BY <1>1, <1>2, <1>3, <1>4, <1>5 DEF EngineStep

LEMMA ChatDown ==
  ASSUME LoopType, NEW r \in Requests, ChatStep(r)
  PROVE  \A q \in Requests : Nearer(q)
<1> USE JumpDown DEF Goes, Answers, At, Left
<1>1. CASE BuildSystemPrompt(r)
  BY <1>1 DEF BuildSystemPrompt
<1>2. CASE Classify(r)
  BY <1>2 DEF Classify
<1>3. CASE Talk(r)
  BY <1>3 DEF Talk
<1>4. CASE Gateway(r)
  BY <1>4 DEF Gateway
<1>5. CASE ExecuteTool(r) \/ SnippetEnds(r) \/ Except(r)
  BY <1>5 DEF ExecuteTool, SnippetEnds, Except
<1> QED
  BY <1>1, <1>2, <1>3, <1>4, <1>5 DEF ChatStep

LEMMA PowerDown ==
  ASSUME LoopType, NEW r \in Requests, PowerStep(r)
  PROVE  \A q \in Requests : Nearer(q)
BY JumpDown DEF PowerStep, WriteTmp, Replace, LogPower, Goes, Answers, At, Left

LEMMA ArrivesDown ==
  ASSUME LoopType, NEW r \in Requests, Arrives(r)
  PROVE  \A q \in Requests : Nearer(q)
BY JumpDown DEF Arrives, GetUser, OllamaAsks, RouterAsks, Transcribes, AgentAsks, PowerAsks,
   PowerStatus, Declines, Takes, TakesAndAnswers, Left

LEMMA OutsideDown ==
  ASSUME LoopType, NEW r \in Requests, Outside(r)
  PROVE  \A q \in Requests : Nearer(q)
BY JumpDown, StaysDown DEF Outside, ContainerExits, ChildExits, OrphanEnds, AgentTimesOut, loopVars,
   Takes, Left

LEMMA CrashDown ==
  ASSUME LoopType, Crash
  PROVE  \A q \in Requests : Nearer(q)
<1>1. pc' = [r \in Requests |-> IF r \in Open THEN "lost" ELSE pc[r]]
  BY DEF Crash, Stop
<1>2. \A q \in Requests : pc[q] \notin {"idle", "done", "lost"} => 0 < Left(pc[q])
  BY DEF LoopType, Labels, SandboxLabels, ChatLabels, EngineLabels, PowerLabels, Left
<1>3. \A q \in Requests : pc'[q] # pc[q] => (pc'[q] = "lost" /\ q \in Open)
  BY <1>1
<1> QED
  BY <1>2, <1>3 DEF Nearer, Open, Left

\* Every handler counts down: whatever step is taken, of this request or another, of
\* a container, of the agent or of the host, a handler stays where it is or gets
\* nearer to its answer.  None has a loop in which it waits or asks again (the
\* handlers of main.py are straight lines), so a request takes at most ten steps.
THEOREM HandlersCountDown == Spec => [][\A r \in Requests : Nearer(r)]_vars
<1>1. IInv /\ [Next]_vars => [\A r \in Requests : Nearer(r)]_vars
  <2> SUFFICES ASSUME IInv, Next PROVE \A r \in Requests : Nearer(r)
    OBVIOUS
  <2>1. LoopType
    BY Parts DEF IInv
  <2> QED
    BY <2>1, SandboxDown, EngineDown, ChatDown, PowerDown, ArrivesDown, OutsideDown, CrashDown
    DEF Next, Handles
<1> QED
  BY <1>1, Invariance, PTL DEF Spec

\* Where a handler is not on the loop: before and after it, and in its awaits.
Away == {"idle", "done", "lost", "agent", "reap"}

\* The loop is held by the one handler that is not in an await, if there is one.
Held == /\ loop \in Requests \cup {Nobody}
        /\ \A r \in Requests : (loop = r) <=> (pc[r] \notin Away)

\* A handler that takes, keeps or gives back the loop.
LEMMA HeldJump ==
  ASSUME LoopType, Held, NEW r \in Requests, NEW b, Jump(r, b), loop \in {r, Nobody},
         (loop' = r /\ b \notin Away) \/ (loop' = Nobody /\ b \in Away)
  PROVE  Held'
<1>1. pc'[r] = b /\ \A q \in Requests : q # r => pc'[q] = pc[q]
  BY DEF Jump, LoopType
<1>2. loop' \in Requests \cup {Nobody} /\ ((loop' = r) <=> (pc'[r] \notin Away))
  BY <1>1, NobodyAssumption
<1>3. ASSUME NEW q \in Requests, q # r PROVE (loop' = q) <=> (pc'[q] \notin Away)
  BY <1>1, <1>3, NobodyAssumption DEF Held
<1> QED
  BY <1>2, <1>3 DEF Held

LEMMA HeldSame ==
  ASSUME Held, UNCHANGED <<loop, pc>>
  PROVE  Held'
BY DEF Held

LEMMA SandboxHolds ==
  ASSUME LoopType, Held, NEW r \in Requests, SandboxStep(r)
  PROVE  Held'
BY HeldJump DEF SandboxStep, RunPython, StartContainer, WaitReturns, WaitFails, Kill, Discard,
   Logs, Remove, ChildReturns, Goes, Raises, At, Away

LEMMA EngineHolds ==
  ASSUME LoopType, Held, NEW r \in Requests, EngineStep(r)
  PROVE  Held'
BY HeldJump DEF EngineStep, OllamaChat, RouterDecide, KeywordFallback, Transcribe, SpawnAgent,
   AgentEnds, KillAgent, Reap, ParseAgent, Goes, Answers, Awaits, Takes, TakesAndAnswers, At, Away

LEMMA ChatHolds ==
  ASSUME LoopType, Held, NEW r \in Requests, ChatStep(r)
  PROVE  Held'
<1> USE HeldJump DEF Goes, Answers, At, Away
<1>1. CASE Classify(r)
  BY <1>1 DEF Classify
<1>2. CASE ChatStep(r) /\ ~Classify(r)
  BY <1>2 DEF ChatStep, BuildSystemPrompt, Talk, Gateway, ExecuteTool, SnippetEnds, Except
<1> QED
  BY <1>1, <1>2

LEMMA PowerHolds ==
  ASSUME LoopType, Held, NEW r \in Requests, PowerStep(r)
  PROVE  Held'
BY HeldJump DEF PowerStep, WriteTmp, Replace, LogPower, Goes, Answers, At, Away

LEMMA ArrivesHolds ==
  ASSUME LoopType, Held, NEW r \in Requests, Arrives(r)
  PROVE  Held'
BY HeldJump DEF Arrives, GetUser, OllamaAsks, RouterAsks, Transcribes, AgentAsks, PowerAsks,
   PowerStatus, Declines, Takes, TakesAndAnswers, Away

LEMMA OutsideHolds ==
  ASSUME LoopType, Held, NEW r \in Requests, Outside(r)
  PROVE  Held'
BY HeldJump, HeldSame DEF Outside, ContainerExits, ChildExits, OrphanEnds, AgentTimesOut, loopVars, Takes,
   Away

LEMMA CrashHolds ==
  ASSUME LoopType, Crash
  PROVE  Held'
<1>1. /\ pc' = [r \in Requests |-> IF r \in Open THEN "lost" ELSE pc[r]]
      /\ loop' = Nobody
  BY DEF Crash, Stop
<1>2. \A r \in Requests : pc'[r] \in Away
  BY <1>1 DEF Open, Away
<1> QED
  BY <1>1, <1>2, NobodyAssumption DEF Held

\* Nobody waits for somebody who waits: an open request is on the loop, or it is in
\* an await whose end is sure to come (the agent's time runs out, a killed agent is
\* reaped).  The one on the loop has a step it can take: the call it waits in
\* either has its answer or can be given up.
CanGoOn ==
  /\ loop \in Open \cup {Nobody}
  /\ \A r \in Open :
       /\ (loop = r) \/ (pc[r] \in {"agent", "reap"})
       /\ (loop = r) => (pc[r] \notin {"agent", "reap"})
       /\ (pc[r] = "reap") => (child[r] \notin Alive)
       /\ (pc[r] \in {"wait", "kill"}) => (box[r] \in {"running", "exited"})
       /\ (pc[r] = "child") => (child[r] \in Ended \cup Alive)

\* The loop is never held by a request that is over, and a request that is not over
\* is never left behind: together with HandlersCountDown this is why every request
\* ends when the loop and the agent's clock go on.
THEOREM NobodyStuck == Spec => []CanGoOn
<1>1. Init => Held
  BY NobodyAssumption DEF Init, LoopInit, Held, Away
<1>2. IInv /\ Held /\ [Next]_vars => Held'
  <2> SUFFICES ASSUME IInv, Held, [Next]_vars PROVE Held'
    OBVIOUS
  <2>1. LoopType
    BY Parts DEF IInv
  <2>2. CASE UNCHANGED vars
    BY <2>2, HeldSame DEF vars, loopVars
  <2>3. CASE Next
    BY <2>1, <2>3, SandboxHolds, EngineHolds, ChatHolds, PowerHolds, ArrivesHolds,
       OutsideHolds, CrashHolds
    DEF Next, Handles
  <2> QED
    BY <2>2, <2>3
<1>3. IInv /\ Held => CanGoOn
  BY DEF IInv, RequestsInv, Fits, Held, Away, Open, CanGoOn
<1> QED
  BY <1>1, <1>2, <1>3, Invariance, PTL DEF Spec
=============================================================================
