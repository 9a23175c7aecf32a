----------------------------- MODULE EventLoop -----------------------------
(***************************************************************************)
(* The event loop the handlers of src/main.py run on: one process, one     *)
(* worker.  An async handler runs until it awaits; what it calls without   *)
(* awaiting holds the loop, and no other handler gets anywhere meanwhile.  *)
(*                                                                         *)
(* pc says where the handler of a request is; the modules that extend this *)
(* one add the labels and steps of their handlers.  A handler that ends    *)
(* with an exception nobody catches answers "500".                         *)
(***************************************************************************)
EXTENDS Integers

CONSTANTS Requests,      \* requests to the server
          Nobody,        \* no handler runs
          MaxFaults      \* exceptions of the host and stops of the server (a bound)

VARIABLES loop,          \* the request whose handler runs, or Nobody
          pc, answer,    \* of each request
          faults,        \* faults so far
          hit            \* observes the requests a fault hit

loopVars == <<loop, pc, answer, faults, hit>>

ASSUME NobodyAssumption == Nobody \notin Requests
ASSUME FaultsAssumption == MaxFaults \in Nat

LoopInit == /\ loop = Nobody
            /\ pc = [r \in Requests |-> "idle"]
            /\ answer = [r \in Requests |-> "none"]
            /\ faults = 0
            /\ hit = {}

Fine       == UNCHANGED <<faults, hit>>
Fault(R)   == faults < MaxFaults /\ faults' = faults + 1 /\ hit' = hit \cup R
At(r, l)   == loop = r /\ pc[r] = l
Jump(r, l) == pc' = [pc EXCEPT ![r] = l]

\* The loop takes up a request, or a handler whose await is over.
Takes(r, from, to) ==
  loop = Nobody /\ pc[r] = from /\ loop' = r /\ Jump(r, to) /\ UNCHANGED answer

Goes(r, from, to) == At(r, from) /\ Jump(r, to) /\ UNCHANGED <<loop, answer>>

Awaits(r, from, to) ==
  At(r, from) /\ loop' = Nobody /\ Jump(r, to) /\ UNCHANGED answer

Answers(r, from, a) ==
  /\ At(r, from)
  /\ loop' = Nobody
  /\ Jump(r, "done")
  /\ answer' = [answer EXCEPT ![r] = a]

\* The loop takes it up and has its answer before the next step.
TakesAndAnswers(r, from, a) ==
  /\ pc[r] = from /\ loop = Nobody
  /\ loop' = Nobody
  /\ Jump(r, "done")
  /\ answer' = [answer EXCEPT ![r] = a]

\* Handlers in progress; the ones a stop of the server leaves without an answer.
Open == {r \in Requests : pc[r] \notin {"idle", "done", "lost"}}

\* The server stops and is started again; what its handlers held is gone.
Stop == /\ Fault(Open)
        /\ loop' = Nobody
        /\ pc' = [r \in Requests |-> IF r \in Open THEN "lost" ELSE pc[r]]
        /\ UNCHANGED answer
=============================================================================
