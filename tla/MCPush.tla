------------------------------- MODULE MCPush -------------------------------
(***************************************************************************)
(* Push with three pushers and StreamIDs of three bits: 2 and 4 are good   *)
(* for pushes, 6 is past the limit, and the next is 0 again.               *)
(***************************************************************************)
EXTENDS Push, TLC

CONSTANTS p1, p2, p3

MCPushers == {p1, p2, p3}
MCSymmetry == Permutations(MCPushers)
=============================================================================
