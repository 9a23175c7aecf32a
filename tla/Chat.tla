-------------------------------- MODULE Chat --------------------------------
(***************************************************************************)
(* /chat of src/main.py from the request to its answer, with the intent    *)
(* classifiers of src/llm/.  The gateway's decision is one step here       *)
(* (PolicyGateway has its steps); a snippet that is allowed goes to the    *)
(* Sandbox.                                                                *)
(*                                                                         *)
(* A message is abstracted to what the classifiers tell apart.             *)
(***************************************************************************)
EXTENDS Sandbox

VARIABLE llm             \* did the chat request r ask for the LLM?

ChatLabels == {"classify", "talk", "gateway", "tool", "error"}
Intents    == {"small_talk", "help", "unknown", "tool"}

\* The user is looked up, and refused when unknown or inactive; the look-up can raise.
GetUser(r) ==
  /\ UNCHANGED <<box, child>>
  /\ \/ TakesAndAnswers(r, "idle", "refused") /\ Fine /\ UNCHANGED llm
     \/ TakesAndAnswers(r, "idle", "500") /\ Fault({r}) /\ UNCHANGED llm
     \/ /\ Takes(r, "idle", "classify")
        /\ \E b \in BOOLEAN : llm' = [llm EXCEPT ![r] = b]
        /\ Fine

\* build_system_prompt: the prompt has braces of its own, so format() takes
\* "action" for the name of an argument and raises KeyError; /chat calls it
\* before its try, and neither the LLM nor the local classifier is asked.
BuildSystemPrompt(r) ==
  /\ llm[r]
  /\ Answers(r, "classify", "500")
  /\ Fine
  /\ UNCHANGED <<box, child, llm>>

\* The local classifier: small talk, a tool's pattern, or nothing.
Classify(r) ==
  /\ ~llm[r]
  /\ \E intent \in Intents :
       Goes(r, "classify", IF intent \in {"small_talk", "help"} THEN "talk" ELSE "gateway")
  /\ Fine
  /\ UNCHANGED <<box, child, llm>>

\* Small talk and help are logged outside of any try.
Talk(r) ==
  /\ UNCHANGED <<box, child, llm>>
  /\ \/ Answers(r, "talk", "reply") /\ Fine
     \/ Answers(r, "talk", "500") /\ Fault({r})

\* authorize denies, asks for a confirmation, allows, or raises.
Gateway(r) ==
  /\ UNCHANGED <<box, child, llm>>
  /\ \/ \E a \in {"denied", "hitl"} : Answers(r, "gateway", a) /\ Fine
     \/ \E l \in {"tool", "snippet"} : Goes(r, "gateway", l) /\ Fine
     \/ Goes(r, "gateway", "error") /\ Fault({r})

\* A tool that is not sandboxed returns, or refuses its arguments, or raises.
ExecuteTool(r) ==
  /\ Fine
  /\ UNCHANGED <<box, child, llm>>
  /\ Answers(r, "tool", "result") \/ Goes(r, "tool", "error")

\* Mutant of SnippetEnds: only ToolError is caught.
MutantSnippetEnds(r) ==
  /\ Answers(r, "ran", "output") \/ Answers(r, "raised", "500")
  /\ Fine
  /\ UNCHANGED <<box, child, llm>>

\* What the sandbox raised is caught with everything else.
SnippetEnds(r) ==
  /\ Answers(r, "ran", "output") \/ Goes(r, "raised", "error")
  /\ Fine
  /\ UNCHANGED <<box, child, llm>>

\* except Exception: the error is logged, and that can raise.
Except(r) ==
  /\ UNCHANGED <<box, child, llm>>
  /\ \/ Answers(r, "error", "error") /\ Fine
     \/ Answers(r, "error", "500") /\ Fault({r})

ChatStep(r) == \/ BuildSystemPrompt(r) \/ Classify(r) \/ Talk(r) \/ Gateway(r)
               \/ ExecuteTool(r) \/ SnippetEnds(r) \/ Except(r)
=============================================================================
