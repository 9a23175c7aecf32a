----------------------------- MODULE MCAuditLog -----------------------------
(***************************************************************************)
(* Instances of AuditLog for TLC: two things to say, so that an entry can  *)
(* be altered into another one.                                            *)
(***************************************************************************)
EXTENDS AuditLog

CONSTANTS p1, p2

MCPayloads == {p1, p2}
=============================================================================
