------------------------------ MODULE Sandbox ------------------------------
(***************************************************************************)
(* src/sandbox/docker_executor.py: a snippet runs in a container that is   *)
(* to be thrown away, or in a child process where there is no Docker.      *)
(* Every call blocks the handler that makes it, and so the event loop; the *)
(* container and the child go on by themselves.                            *)
(*                                                                         *)
(* The job begins at the label "snippet" and ends at "ran" or, with an     *)
(* exception, at "raised".  _run_command_docker and _run_command_subprocess *)
(* do the same calls in the same order and have no caller in src/.         *)
(***************************************************************************)
EXTENDS EventLoop

VARIABLES box,           \* the container of each request
          child          \* the process of each request: a snippet's, or an agent's
                         \* with the shim it was started through, if there is one

SandboxLabels == {"snippet", "start", "wait", "kill", "discard", "logs", "remove", "child",
                  "ran", "raised"}
Boxes         == {"none", "created", "running", "exited", "gone"}
Children      == {"none", "running", "shim", "text", "silent", "odd", "killed", "orphan"}
\* The process the server has started itself has not ended.
Alive         == {"running", "shim"}

Became(r, b) == box' = [box EXCEPT ![r] = b]
Raises(r, l) == Goes(r, l, "raised")

\* run_python: with Docker, or else as a child of the server; run_python_docker
\* creates the container unless the image is missing or Docker refuses.
RunPython(r) ==
  /\ Fine
  /\ \/ /\ Goes(r, "snippet", "start")
        /\ Became(r, "created")
        /\ UNCHANGED child
     \/ /\ Goes(r, "snippet", "child")
        /\ child' = [child EXCEPT ![r] = "running"]
        /\ UNCHANGED box
     \/ /\ Raises(r, "snippet")
        /\ UNCHANGED <<box, child>>

\* containers.run starts what it has created; when Docker refuses that (the
\* command is not in the image) the container stays behind.
StartContainer(r) ==
  /\ UNCHANGED child
  /\ \/ Goes(r, "start", "wait") /\ Became(r, "running") /\ Fine
     \/ Raises(r, "start") /\ Fault({r}) /\ UNCHANGED box

\* The snippet ends by itself.
ContainerExits(r) ==
  /\ box[r] = "running"
  /\ Became(r, "exited")
  /\ UNCHANGED <<loopVars, child>>

WaitReturns(r) ==
  /\ Goes(r, "wait", "logs")
  /\ box[r] = "exited"
  /\ Fine
  /\ UNCHANGED <<box, child>>

\* The snippet is not over in time, or Docker does not answer.
WaitFails(r) ==
  /\ Goes(r, "wait", "kill")
  /\ \/ box[r] = "running" /\ Fine
     \/ Fault({r})
  /\ UNCHANGED <<box, child>>

\* kill() raises on a container that has ended meanwhile, and remove() is not
\* reached.
Kill(r) ==
  /\ UNCHANGED child
  /\ \/ Goes(r, "kill", "discard") /\ box[r] = "running" /\ Became(r, "exited") /\ Fine
     \/ Raises(r, "kill") /\ box[r] = "exited" /\ UNCHANGED box /\ Fine
     \/ Raises(r, "kill") /\ UNCHANGED box /\ Fault({r})

\* remove() after a kill; either way run_python raises.
Discard(r) ==
  /\ Raises(r, "discard")
  /\ UNCHANGED child
  /\ \/ Became(r, "gone") /\ Fine
     \/ UNCHANGED box /\ Fault({r})

Logs(r) ==
  /\ UNCHANGED <<box, child>>
  /\ \/ Goes(r, "logs", "remove") /\ Fine
     \/ Raises(r, "logs") /\ Fault({r})

\* Mutant of Remove: an exception of remove() is swallowed.
MutantRemove(r) ==
  /\ UNCHANGED child
  /\ \/ Goes(r, "remove", "ran") /\ Became(r, "gone") /\ Fine
     \/ Goes(r, "remove", "ran") /\ UNCHANGED box /\ Fault({r})

Remove(r) ==
  /\ UNCHANGED child
  /\ \/ Goes(r, "remove", "ran") /\ Became(r, "gone") /\ Fine
     \/ Raises(r, "remove") /\ UNCHANGED box /\ Fault({r})

\* A process ends by itself, and a shim with the agent it waits for; what was printed
\* matters for an agent only.
ChildExits(r) ==
  /\ child[r] \in Alive
  /\ \E out \in {"text", "silent", "odd"} : child' = [child EXCEPT ![r] = out]
  /\ UNCHANGED <<loopVars, box>>

\* subprocess.run returns when the child has ended, or kills it and waits for it.
ChildReturns(r) ==
  /\ Fine
  /\ UNCHANGED box
  /\ \/ /\ Goes(r, "child", "ran")
        /\ child[r] \in {"text", "silent", "odd"}
        /\ UNCHANGED child
     \/ /\ Raises(r, "child")
        /\ child[r] = "running"
        /\ child' = [child EXCEPT ![r] = "killed"]

SandboxStep(r) ==
  \/ RunPython(r) \/ StartContainer(r) \/ WaitReturns(r) \/ WaitFails(r) \/ Kill(r)
  \/ Discard(r) \/ Logs(r) \/ Remove(r) \/ ChildReturns(r)
=============================================================================
