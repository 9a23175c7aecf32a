---------------------------- MODULE MCSpeechFile ----------------------------
(***************************************************************************)
(* Instances of SpeechFile for TLC: two /speak requests and a /speak/audio *)
(* request.                                                                *)
(***************************************************************************)
EXTENDS SpeechFile, TLC

CONSTANTS r1, r2, r3

MCRequests == {r1, r2, r3}
MCKind     == r1 :> "speak" @@ r2 :> "speak" @@ r3 :> "audio"
TwoSpeaks  == {r1, r2}
TwoKind    == r1 :> "speak" @@ r2 :> "speak"
=============================================================================
