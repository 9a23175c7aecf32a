-------------------------- MODULE MCPolicyGateway --------------------------
(***************************************************************************)
(* Instances of PolicyGateway for TLC: a guest, an operator and a master,  *)
(* a plain and a dangerous tool of configs/tool_manifest.json.             *)
(***************************************************************************)
EXTENDS PolicyGateway, TLC

CONSTANTS c1, gina, oscar, mary, list_files, delete_file, i1, i2

OneCaller == {c1}
MCUsers == {gina, oscar, mary}
MCRole  == gina :> "guest" @@ oscar :> "operator" @@ mary :> "master"
MCTools == {list_files, delete_file}
MCManifest ==
  list_files :> [required_role |-> "user", required_permission |-> "read", hitl |-> FALSE]
  @@ delete_file :> [required_role |-> "operator", required_permission |-> "write",
                     hitl |-> TRUE]
MCIds   == {i1, i2}
OneId   == {i1}
MCKept  == Kinds \ {"refused", "error", "executed"}
MCSymmetry == Permutations(MCIds)
=============================================================================
