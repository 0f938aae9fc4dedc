------------------------------ MODULE MCPings ------------------------------
(***************************************************************************)
(* Pings with four calls and the three IDs of a counter of three bits, so  *)
(* that the counter starts again and the fourth call has the first's ID.   *)
(***************************************************************************)
EXTENDS Pings

CONSTANTS c1, c2, c3, c4

MCCalls == {c1, c2, c3, c4}
=============================================================================
