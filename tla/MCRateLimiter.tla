--------------------------- MODULE MCRateLimiter ---------------------------
(***************************************************************************)
(* Instances of RateLimiter for TLC: two sessions behind one address and   *)
(* half-second ticks.                                                      *)
(***************************************************************************)
EXTENDS RateLimiter, TLC

CONSTANTS s1, s2, here

MCSessions == {s1, s2}
MCIps      == {here}
MCIp       == s1 :> here @@ s2 :> here
=============================================================================
