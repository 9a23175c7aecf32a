---------------------------- MODULE MCVoicePage ----------------------------
(***************************************************************************)
(* Instances of VoicePage for TLC.                                         *)
(***************************************************************************)
EXTENDS VoicePage

TwoCmds == 1 .. 2
OneCmd  == 1 .. 1
=============================================================================
