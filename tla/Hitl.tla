-------------------------------- MODULE Hitl --------------------------------
(***************************************************************************)
(* What human confirmation promises for a dangerous action, whoever asks,  *)
(* confirms, retries or fails: a request is decided at most once, its      *)
(* decision never changes, and what it asked for runs at most once and     *)
(* only after it was confirmed.                                            *)
(***************************************************************************)
EXTENDS Integers

CONSTANT Ids             \* approval ids

VARIABLES status,        \* the decision on each request
          runs           \* how often its action was handed to the tool

vars == <<status, runs>>

Decisions == {"confirmed", "denied", "expired"}

Init == /\ status = [i \in Ids |-> "none"]
        /\ runs = [i \in Ids |-> 0]

Request(i) == /\ status[i] = "none"
              /\ status' = [status EXCEPT ![i] = "pending"]
              /\ UNCHANGED runs

Decide(i) == /\ status[i] = "pending"
             /\ \E d \in Decisions : status' = [status EXCEPT ![i] = d]
             /\ UNCHANGED runs

Run(i) == /\ status[i] = "confirmed"
          /\ runs[i] = 0
          /\ runs' = [runs EXCEPT ![i] = 1]
          /\ UNCHANGED status

Next == \E i \in Ids : Request(i) \/ Decide(i) \/ Run(i)

Spec == Init /\ [][Next]_vars
=============================================================================
