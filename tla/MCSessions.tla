---------------------------- MODULE MCSessions ----------------------------
(***************************************************************************)
(* Instances of Sessions for TLC: two users, a voice for each, one face;   *)
(* the average of both voices is like the first only.  eve has no account. *)
(***************************************************************************)
EXTENDS Sessions, TLC

CONSTANTS ann, bob, eve, va, vb, fa, pa, pb, r1, r2, c1

MCUsers    == {ann, bob, eve}
MCSeeded   == {ann, bob}
MCVoices   == {va, vb}
MCFaces    == {fa}
MCPins     == {pa, pb}
MCRequests == {r1, r2}
MCCommands == {c1}
MCPinOf    == ann :> pa @@ bob :> pb @@ eve :> pa
MCSameFace == {<<fa, fa>>}

MCSimilarity ==
  [p \in MCVoices \X ((SUBSET MCVoices) \ {{}}) |->
     IF p[1] \notin p[2] THEN 0
     ELSE IF Cardinality(p[2]) = 1 THEN 2 ELSE IF p[1] = va THEN 1 ELSE 0]

Ask(op, u, vs, f, p) == [op |-> op, user |-> u, voices |-> vs, face |-> f, pin |-> p]

MCGiven == {Ask("bootstrap", ann, {va}, None, None), Ask("bootstrap", ann, {vb}, fa, None),
            Ask("bootstrap", ann, {vb}, None, pb), Ask("bootstrap", bob, {}, None, pb),
            Ask("voice", ann, {va}, None, None), Ask("voice", ann, {}, None, None),
            Ask("face", ann, {}, fa, None), Ask("bootstrap", eve, {va}, fa, pa)}
=============================================================================
